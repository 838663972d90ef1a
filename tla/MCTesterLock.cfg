\* Four invocations: the smallest number that reaches every step.  No symmetry,
\* because the run checks liveness.
CONSTANTS
    Process = {p1, p2, p3, p4}
    Absent = Absent
SPECIFICATION FairSpec
INVARIANTS
    ExclusiveWithoutStrayClaim
    NotWedgedAtRest
PROPERTIES
    InvocationEnds
\* Every invocation ends.
CHECK_DEADLOCK FALSE
