\* Two releases in any order: of one version, of two, of a pre-release, of a
\* version whose source tag was moved; one run, of either kind, fails.  No
\* symmetry, because the run checks liveness.
CONSTANTS
    Run = {r1, r2}
    Version <- MCVersion
    Checksum = {"s1", "s2"}
    Archive <- MCArchive
    None = None
    MaxFailures = 1
SPECIFICATION FairSpec
INVARIANTS
    ExactTagVerified
    MirrorAgrees
    SuccessIsPublished
    FloatingIsPublished
PROPERTIES
    ExactTagImmutable
    FloatingNeverRegresses
    FloatingConverges
