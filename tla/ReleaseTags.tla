----------------------------- MODULE ReleaseTags -----------------------------
(***************************************************************************)
(* How a Ferrite release reaches the container registries (release.yml and *)
(* reconcile-release-tags.yml).  A release run builds a candidate, checks  *)
(* it and writes the exact version tag last, under a lock per version; a   *)
(* reconciliation run, under one global lock, derives the floating tags    *)
(* (latest, major, major.minor) from all exact stable tags of GHCR and     *)
(* repairs both registries.  Runs can fail or be killed between any two    *)
(* steps.                                                                  *)
(*                                                                         *)
(* A version is <<major, minor, patch>>, a pre-release has a fourth field; *)
(* a floating tag is a prefix of the versions of its series, <<>> is       *)
(* "latest".  A digest is named by the run that built it, and its labels   *)
(* are that run's version and source checksum.                             *)
(*                                                                         *)
(* GitHub's concurrency groups are external: one run of a group runs, one  *)
(* waits, and a new waiting run replaces (cancels) the one that waited.    *)
(***************************************************************************)
EXTENDS Naturals, Sequences, FiniteSets

CONSTANTS
    Run,            \* release runs; a re-run attempt is a run of its own
    Version,
    Checksum,       \* of source archives
    Archive,        \* which checksums a version's archive may have: more than
                    \* one when its source tag was moved
    None,
    MaxFailures     \* bound: runs, of either kind, that fail

ASSUME ReleaseAssumption ==
    /\ IsFiniteSet(Run)
    /\ \A v \in Version : v \in Seq(Nat) /\ Len(v) \in {3, 4}
    /\ Archive \subseteq Version \X Checksum
    /\ None \notin Run \cup Version \cup Checksum
    /\ MaxFailures \in Nat

VARIABLES
    stage,      \* where each release run stands
    version,    \* what it releases
    sha,        \* the source checksum it computed
    digest,     \* the image it works on: its own, or the published one
    mirror,     \* Docker Hub is enabled for it
    passed,     \* the checks each image has passed
    ghcr,       \* GHCR's exact and floating tags
    hub,        \* Docker Hub's
    recStage,   \* where the running reconciliation stands
    recPending, \* what waits in the reconciliation's concurrency group
    source,     \* the exact stable tags it has enumerated
    todo,       \* tags it has still to apply to the registry at hand
    failures

runVars == <<stage, version, sha, digest, mirror, passed>>
recVars == <<recStage, recPending, source, todo>>
vars == <<runVars, recVars, ghcr, hub, failures>>

Stages == {"idle", "queued", "check", "build", "sign", "verify", "inspect",
           "create", "mirror", "copy",
           "succeeded", "failed", "cancelled"}
\* The run holds the lock of its version.
Locked == {"check", "build", "sign", "verify", "inspect", "create", "mirror",
           "copy"}
Checks == {"scan", "sign", "attest", "verify", "smoke"}
RecStages == {"idle", "started", "verify", "apply", "hub", "hubCopy"}

Stable(v) == Len(v) = 3
Floating == UNION {{<<>>, <<v[1]>>, <<v[1], v[2]>>} : v \in {w \in Version : Stable(w)}}
Tag == Version \cup Floating

InSeries(v, tag) == Len(tag) <= Len(v) /\ SubSeq(v, 1, Len(tag)) = tag

\* Precedence of two stable versions: semver_cmp.
Newer(v, w) ==
    \E i \in 1..3 : v[i] > w[i] /\ \A j \in 1..(i - 1) : v[j] = w[j]

Init ==
    /\ stage = [r \in Run |-> "idle"]
    /\ version = [r \in Run |-> None]
    /\ sha = [r \in Run |-> None]
    /\ digest = [r \in Run |-> None]
    /\ mirror = [r \in Run |-> FALSE]
    /\ passed = [r \in Run |-> {}]
    /\ ghcr = [t \in Tag |-> None]
    /\ hub = [t \in Tag |-> None]
    /\ recStage = "idle"
    /\ recPending = "none"
    /\ source = [v \in Version |-> None]
    /\ todo = {}
    /\ failures = 0

-----------------------------------------------------------------------------
(* The concurrency groups *)

\* A new run of the reconciliation workflow enters the workflow's group.  A
\* run whose job condition is false ("skip") does nothing, but enters too.
EnterReconciliation(kind) ==
    IF recStage = "idle"
    THEN /\ recStage' = IF kind = "reconcile" THEN "started" ELSE "idle"
         /\ UNCHANGED recPending
    ELSE /\ recPending' = kind
         /\ UNCHANGED recStage

\* The running reconciliation leaves the group, and the waiting one starts.
LeaveReconciliation ==
    /\ recStage' = IF recPending = "reconcile" THEN "started" ELSE "idle"
    /\ recPending' = "none"
    /\ source' = [v \in Version |-> None]
    /\ todo' = {}

\* Mutant: the lock is keyed on the event's spelling of the version, so two
\* runs of one version need not meet.
LockFree_RawSpelling(v) == TRUE

LockFree(v) == \A r \in Run : stage[r] \in Locked => version[r] # v

\* The run ends and the one that waits for its version starts; completion of
\* the workflow, however it ended, starts a reconciliation run.
EndRun(r, result) ==
    /\ stage' = [q \in Run |->
                    IF q = r THEN result
                    ELSE IF stage[q] = "queued" /\ version[q] = version[r]
                         THEN "check" ELSE stage[q]]
    /\ EnterReconciliation(IF result = "succeeded" THEN "reconcile" ELSE "skip")
    /\ UNCHANGED <<source, todo>>

-----------------------------------------------------------------------------
(* A release run: prepare and release-transaction *)

\* The version is normalized and validated, the checksum computed.
Prepare(r, v, checksum) ==
    LET replaced == {q \in Run : stage[q] = "queued" /\ version[q] = v} IN
    /\ stage[r] = "idle"
    /\ version' = [version EXCEPT ![r] = v]
    /\ sha' = [sha EXCEPT ![r] = checksum]
    /\ \/ /\ LockFree(v)
          /\ stage' = [stage EXCEPT ![r] = "check"]
          /\ UNCHANGED recVars
       \/ /\ ~LockFree(v)
          /\ stage' = [q \in Run |-> IF q = r THEN "queued"
                                     ELSE IF q \in replaced THEN "cancelled"
                                     ELSE stage[q]]
          /\ IF replaced = {}
             THEN UNCHANGED recVars
             ELSE EnterReconciliation("skip") /\ UNCHANGED <<source, todo>>
    /\ UNCHANGED <<digest, mirror, passed, ghcr, hub, failures>>

GoTo(r, from, to) ==
    /\ stage[r] = from
    /\ stage' = [stage EXCEPT ![r] = to]
    /\ UNCHANGED <<version, sha, mirror, recVars, failures>>

\* check_existing: no exact tag, build one; the same release, reuse its digest.
CheckExisting(r) ==
    LET existing == ghcr[version[r]] IN
    /\ stage[r] = "check"
    /\ \/ /\ existing = None
          /\ GoTo(r, "check", "build")
          /\ UNCHANGED digest
       \/ /\ existing # None
          /\ version[existing] = version[r] /\ sha[existing] = sha[r]
          /\ "sign" \in passed[existing]
          /\ GoTo(r, "check", "verify")
          /\ digest' = [digest EXCEPT ![r] = existing]
    /\ UNCHANGED <<passed, ghcr, hub>>

\* The candidate is pushed under a tag of its own, never the exact one.
Build(r) ==
    /\ GoTo(r, "build", "sign")
    /\ digest' = [digest EXCEPT ![r] = r]
    /\ UNCHANGED <<passed, ghcr, hub>>

Pass(r, checks) == passed' = [passed EXCEPT ![digest[r]] = @ \cup checks]

\* The candidate is scanned, signed and attested.
ScanAndSign(r) ==
    /\ GoTo(r, "sign", "verify")
    /\ Pass(r, {"scan", "sign", "attest"})
    /\ UNCHANGED <<digest, ghcr, hub>>

\* Mutant: the exact tag is written before the smoke test.
VerifyAndSmoke_SmokeLater(r) ==
    /\ GoTo(r, "verify", "inspect")
    /\ Pass(r, {"verify"})
    /\ UNCHANGED <<digest, ghcr, hub>>

\* Signature and attestation are verified and the image is started, whether
\* the run has built it or found it published.
VerifyAndSmoke(r) ==
    /\ GoTo(r, "verify", "inspect")
    /\ {"sign", "attest"} \subseteq passed[digest[r]]
    /\ Pass(r, {"verify", "smoke"})
    /\ UNCHANGED <<digest, ghcr, hub>>

\* After the promotion to GHCR Docker Hub is next, if it is enabled.
Promoted(r) ==
    \/ /\ stage' = [stage EXCEPT ![r] = "mirror"]
       /\ mirror' = [mirror EXCEPT ![r] = TRUE]
       /\ UNCHANGED recVars
    \/ /\ EndRun(r, "succeeded")
       /\ UNCHANGED mirror

\* promote_exact_tag: inspect, then create.  A different digest is refused.
InspectExact(r) ==
    /\ stage[r] = "inspect"
    /\ \/ /\ ghcr[version[r]] = digest[r]
          /\ Promoted(r)
       \/ /\ ghcr[version[r]] = None
          /\ stage' = [stage EXCEPT ![r] = "create"]
          /\ UNCHANGED <<mirror, recVars>>
    /\ UNCHANGED <<version, sha, digest, passed, ghcr, hub, failures>>

CreateExact(r) ==
    /\ stage[r] = "create"
    /\ ghcr' = [ghcr EXCEPT ![version[r]] = digest[r]]
    /\ Promoted(r)
    /\ UNCHANGED <<version, sha, digest, passed, hub, failures>>

\* Mutant: Docker Hub is left to the reconciliation.
InspectMirror_LeftOut(r) ==
    /\ stage[r] = "mirror"
    /\ EndRun(r, "succeeded")
    /\ UNCHANGED <<version, sha, digest, mirror, passed, ghcr, hub, failures>>

\* promote_exact_tag_cross_registry: inspect, copy, compare.
InspectMirror(r) ==
    /\ stage[r] = "mirror"
    /\ \/ /\ hub[version[r]] = digest[r]
          /\ EndRun(r, "succeeded")
       \/ /\ hub[version[r]] = None
          /\ stage' = [stage EXCEPT ![r] = "copy"]
          /\ UNCHANGED recVars
    /\ UNCHANGED <<version, sha, digest, mirror, passed, ghcr, hub, failures>>

CopyExact(r) ==
    /\ stage[r] = "copy"
    /\ hub' = [hub EXCEPT ![version[r]] = digest[r]]
    /\ EndRun(r, "succeeded")
    /\ UNCHANGED <<version, sha, digest, mirror, passed, ghcr, failures>>

\* The run exits with an error: a step's own check, the network, a runner.
FailRun(r) ==
    /\ stage[r] \in Locked
    /\ failures < MaxFailures
    /\ failures' = failures + 1
    /\ EndRun(r, "failed")
    /\ UNCHANGED <<version, sha, digest, mirror, passed, ghcr, hub>>

\* A refusal is certain, not a matter of luck: an existing exact tag whose
\* checksum is another, or another digest under the tag to write.
Refused(r) ==
    \/ stage[r] = "check" /\ ghcr[version[r]] # None
          /\ sha[ghcr[version[r]]] # sha[r]
    \/ stage[r] = "inspect" /\ ghcr[version[r]] \notin {None, digest[r]}
    \/ stage[r] = "mirror" /\ hub[version[r]] \notin {None, digest[r]}

Refuse(r) ==
    /\ Refused(r)
    /\ EndRun(r, "failed")
    /\ UNCHANGED <<version, sha, digest, mirror, passed, ghcr, hub, failures>>

-----------------------------------------------------------------------------
(* A reconciliation run *)

\* The weekly repair, or a manual dispatch.
Schedule ==
    /\ EnterReconciliation("reconcile")
    /\ UNCHANGED <<runVars, source, todo, ghcr, hub, failures>>

\* Mutant: pre-releases are enumerated too.
Enumerate_AllVersions ==
    /\ recStage = "started"
    /\ recStage' = "verify"
    /\ source' = [v \in Version |-> ghcr[v]]
    /\ UNCHANGED <<runVars, recPending, todo, ghcr, hub, failures>>

\* discover: every exact stable tag of GHCR, on whatever page.
Enumerate ==
    /\ recStage = "started"
    /\ recStage' = "verify"
    /\ source' = [v \in Version |-> IF Stable(v) THEN ghcr[v] ELSE None]
    /\ UNCHANGED <<runVars, recPending, todo, ghcr, hub, failures>>

Found == {v \in Version : source[v] # None}

\* Mutant: the last version of a series, not its newest, is planned.
Planned_Oldest(tag) ==
    CHOOSE v \in Found : InSeries(v, tag)
        /\ \A w \in Found : InSeries(w, tag) => ~Newer(v, w)

\* compute_plan: the newest verified version of a tag's series.
Planned(tag) ==
    CHOOSE v \in Found : InSeries(v, tag)
        /\ \A w \in Found : InSeries(w, tag) => ~Newer(w, v)

FloatingPlan == {t \in Floating : \E v \in Found : InSeries(v, t)}

\* Every source still resolves to the enumerated digest, carries its own
\* version as label and is signed; then the plan is computed.
VerifySources ==
    /\ recStage = "verify"
    /\ \A v \in Found :
          ghcr[v] = source[v] /\ version[source[v]] = v /\ "sign" \in passed[source[v]]
    /\ recStage' = "apply"
    /\ todo' = FloatingPlan
    /\ UNCHANGED <<runVars, recPending, source, ghcr, hub, failures>>

\* The digest a planned tag gets, exact or floating.
Wanted(tag) == IF tag \in Version THEN source[tag] ELSE source[Planned(tag)]

\* The order of the plans: exact tags by version, then latest, then the other
\* floating tags by version and name.
Precedes(s, t) ==
    \/ s \in Version /\ t \notin Version
    \/ s \in Version /\ t \in Version /\ Newer(t, s)
    \/ s = <<>> /\ t \in Floating \ {<<>>}
    \/ /\ {s, t} \subseteq Floating \ {<<>>}
       /\ \/ Newer(Planned(t), Planned(s))
          \/ Planned(s) = Planned(t) /\ Len(s) < Len(t)

IsNext(t) == t \in todo /\ \A s \in todo : ~Precedes(s, t)

\* Mutant: a tag is moved only if nothing is under it yet.
ApplyFloating_MissingOnly(t) ==
    /\ recStage = "apply"
    /\ IsNext(t)
    /\ ghcr' = IF ghcr[t] = None THEN [ghcr EXCEPT ![t] = Wanted(t)] ELSE ghcr
    /\ todo' = todo \ {t}
    /\ UNCHANGED <<runVars, recStage, recPending, source, hub, failures>>

\* One tag of GHCR is moved if it differs, and read back.
ApplyFloating(t) ==
    /\ recStage = "apply"
    /\ IsNext(t)
    /\ ghcr' = [ghcr EXCEPT ![t] = Wanted(t)]
    /\ todo' = todo \ {t}
    /\ UNCHANGED <<runVars, recStage, recPending, source, hub, failures>>

\* GHCR is done: Docker Hub is next, if it is enabled.
GhcrApplied ==
    /\ recStage = "apply"
    /\ todo = {}
    /\ \/ /\ recStage' = "hub"
          /\ todo' = Found \cup FloatingPlan
          /\ UNCHANGED <<recPending, source>>
       \/ LeaveReconciliation
    /\ UNCHANGED <<runVars, ghcr, hub, failures>>

\* An exact tag with another digest is never overwritten: the run fails.
HubRefuses(t) == t \in Version /\ hub[t] \notin {None, Wanted(t)}

HubInspect(t) ==
    /\ recStage = "hub"
    /\ IsNext(t)
    /\ ~HubRefuses(t)
    /\ \/ /\ hub[t] = Wanted(t)
          /\ todo' = todo \ {t}
          /\ UNCHANGED recStage
       \/ /\ hub[t] # Wanted(t)
          /\ recStage' = "hubCopy"
          /\ UNCHANGED todo
    /\ UNCHANGED <<runVars, recPending, source, ghcr, hub, failures>>

HubCopy(t) ==
    /\ recStage = "hubCopy"
    /\ IsNext(t)
    /\ hub' = [hub EXCEPT ![t] = Wanted(t)]
    /\ recStage' = "hub"
    /\ todo' = todo \ {t}
    /\ UNCHANGED <<runVars, recPending, source, ghcr, failures>>

HubApplied ==
    /\ recStage = "hub"
    /\ todo = {}
    /\ LeaveReconciliation
    /\ UNCHANGED <<runVars, ghcr, hub, failures>>

FailReconciliation ==
    /\ recStage # "idle"
    /\ failures < MaxFailures
    /\ failures' = failures + 1
    /\ LeaveReconciliation
    /\ UNCHANGED <<runVars, ghcr, hub>>

-----------------------------------------------------------------------------
Transaction(r) ==
    \/ CheckExisting(r)
    \/ Build(r)
    \/ ScanAndSign(r)
    \/ VerifyAndSmoke(r)
    \/ InspectExact(r)
    \/ CreateExact(r)
    \/ InspectMirror(r)
    \/ CopyExact(r)

Reconcile ==
    \/ Enumerate
    \/ VerifySources
    \/ \E t \in Tag : ApplyFloating(t) \/ HubInspect(t) \/ HubCopy(t)
    \/ GhcrApplied
    \/ HubApplied

Next ==
    \/ \E r \in Run :
          \/ \E v \in Version, checksum \in Checksum :
                <<v, checksum>> \in Archive /\ Prepare(r, v, checksum)
          \/ Transaction(r)
          \/ FailRun(r)
          \/ Refuse(r)
    \/ Schedule
    \/ Reconcile
    \/ FailReconciliation

Spec == Init /\ [][Next]_vars

\* A reconciliation that runs takes its steps, and every week one is started.
FairSpec == Spec /\ WF_vars(Reconcile) /\ WF_vars(Schedule)
-----------------------------------------------------------------------------
(* Properties *)

Digest == Run \cup {None}

\* "A failed run can never leave an unverified exact tag behind": whatever
\* fails or is retried, an exact tag names an image that carries its version
\* and has passed every check.
ExactTagVerified ==
    \A v \in Version : ghcr[v] # None =>
        version[ghcr[v]] = v /\ passed[ghcr[v]] = Checks

\* Docker Hub's exact tags, written by release runs and by reconciliations
\* under different locks, only ever name what GHCR has under the same tag.
MirrorAgrees == \A v \in Version : hub[v] # None => hub[v] = ghcr[v]

\* A run that reports success has published its version, on each registry
\* that is enabled for it.
SuccessIsPublished ==
    \A r \in Run : stage[r] = "succeeded" =>
        /\ ghcr[version[r]] = digest[r]
        /\ mirror[r] => hub[version[r]] = digest[r]

\* Floating tags only name published stable versions of their series.
FloatingIsPublished ==
    \A t \in Floating : ghcr[t] # None =>
        \E v \in Version : Stable(v) /\ InSeries(v, t) /\ ghcr[v] = ghcr[t]

\* A published exact tag never changes, on either registry.
ExactTagImmutable ==
    [][\A v \in Version :
        /\ ghcr[v] # None => ghcr'[v] = ghcr[v]
        /\ hub[v] # None => hub'[v] = hub[v]]_vars

\* A floating tag never goes back to an older release, though releases finish
\* in any order and a plan may be old when it is applied.
FloatingNeverRegresses ==
    [][\A t \in Floating :
        /\ ghcr[t] # None =>
              ghcr'[t] # None /\ ~Newer(version[ghcr[t]], version[ghcr'[t]])
        /\ hub[t] # None =>
              hub'[t] # None /\ ~Newer(version[hub[t]], version[hub'[t]])]_vars

\* A newer version of the tag's series is published than the one it names.
Lags(t) ==
    \E v \in Version :
        /\ Stable(v) /\ InSeries(v, t) /\ ghcr[v] # None
        /\ ghcr[t] = None \/ Newer(v, version[ghcr[t]])

\* Whatever releases end in whatever order, again and again no floating tag
\* lags: lost triggers and failed reconciliations are repaired.
FloatingConverges == []<>(\A t \in Floating : ~Lags(t))

=============================================================================
