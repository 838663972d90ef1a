-------------------------- MODULE ReleaseTagsProofs --------------------------
(***************************************************************************)
(* Proofs, for all sets of release runs, versions and checksums and any    *)
(* number of failures, that an exact tag is verified before it exists, never *)
(* changes, and agrees between the registries; and that a floating tag names *)
(* a published release and never an older one than before.                 *)
(***************************************************************************)
EXTENDS ReleaseTags, SetFacts

\* The part of the types that the proofs need.
Shape ==
    /\ stage \in [Run -> Stages]
    /\ version \in [Run -> Version \cup {None}]
    /\ digest \in [Run -> Digest]
    /\ passed \in [Run -> SUBSET Checks]
    /\ ghcr = [t \in Tag |-> ghcr[t]]
    /\ hub = [t \in Tag |-> hub[t]]
    /\ source = [v \in Version |-> source[v]]
    /\ todo \subseteq Tag

\* One run at a time works on a version, and one waits for it.
LockInv ==
    \A r, q \in Run :
        /\ version[r] = version[q]
        /\ \/ stage[r] \in Locked /\ stage[q] \in Locked
           \/ stage[r] = "queued" /\ stage[q] = "queued"
        => r = q

\* What the holder of a version's lock knows of its image and of the exact tag:
\* the tag is free or names the image, and only checked images are promoted.
RunInv(r) ==
    /\ stage[r] # "idle" => version[r] \in Version
    /\ stage[r] \in Locked \ {"check", "build"} =>
          /\ digest[r] \in Run
          /\ stage[digest[r]] # "idle"
          /\ version[digest[r]] = version[r]
    /\ stage[r] \in {"build", "sign", "create"} => ghcr[version[r]] = None
    /\ stage[r] \in {"verify", "inspect"} => ghcr[version[r]] \in {None, digest[r]}
    /\ stage[r] = "verify" => {"scan", "sign", "attest"} \subseteq passed[digest[r]]
    /\ stage[r] \in {"inspect", "create", "mirror", "copy"} =>
          passed[digest[r]] = Checks
    /\ stage[r] \in {"mirror", "copy"} => ghcr[version[r]] = digest[r]

\* An exact tag names a checked image of its version; Docker Hub and the list a
\* reconciliation works from only repeat what GHCR says.
TagInv(v) ==
    /\ ghcr[v] # None =>
          /\ ghcr[v] \in Run
          /\ stage[ghcr[v]] # "idle"
          /\ version[ghcr[v]] = v
          /\ passed[ghcr[v]] = Checks
    /\ hub[v] # None => hub[v] = ghcr[v]
    /\ source[v] # None => source[v] = ghcr[v]

\* A reconciliation moves floating tags on GHCR only, and on Docker Hub only
\* the exact tags it has enumerated.
PlanInv ==
    /\ recStage = "apply" => todo \subseteq Floating
    /\ recStage \in {"hub", "hubCopy"} =>
          \A t \in todo : t \in Version => source[t] # None

IInv ==
    /\ Shape
    /\ LockInv
    /\ \A r \in Run : RunInv(r)
    /\ \A v \in Version : TagInv(v)
    /\ PlanInv

USE ReleaseAssumption DEF ReleaseAssumption

\* A floating tag is shorter than any version.
LEMMA FloatingNotVersion == Floating \cap Version = {}
<1> SUFFICES ASSUME NEW t \in Floating, t \in Version PROVE FALSE
    OBVIOUS
<1>1. PICK v \in Version : t \in {<<>>, <<v[1]>>, <<v[1], v[2]>>}
    BY DEF Floating
<1>2. Len(t) \in {3, 4}
    BY ReleaseAssumption
<1>3. ASSUME NEW a, NEW b
      PROVE  Len(<<>>) = 0 /\ Len(<<a>>) = 1 /\ Len(<<a, b>>) = 2
    OBVIOUS
<1>4. Len(t) \in {0, 1, 2}
    BY <1>1, <1>3, Zenon
<1>5. \A n \in {0, 1, 2} : n \notin {3, 4}
    OBVIOUS
<1> QED
    BY <1>2, <1>4, <1>5, Zenon

\* Before the first run there is no tag, no image and no lock.
LEMMA InitIInv == Init => IInv
<1> SUFFICES ASSUME Init PROVE IInv
    OBVIOUS
<1>1. Shape
    <2>1. stage \in [Run -> Stages] /\ version \in [Run -> Version \cup {None}]
        BY DEF Init, Stages
    <2>2. digest \in [Run -> Digest] /\ passed \in [Run -> SUBSET Checks]
        BY DEF Init, Digest
    <2> QED
        BY <2>1, <2>2 DEF Init, Shape
<1>2. LockInv
    BY DEF Init, LockInv, Locked
<1>3. ASSUME NEW r \in Run PROVE RunInv(r)
    BY DEF Init, RunInv, Locked
<1>4. ASSUME NEW v \in Version PROVE TagInv(v)
    BY DEF Init, TagInv, Tag
<1>5. PlanInv
    BY DEF Init, PlanInv
<1> QED
    BY <1>1, <1>2, <1>3, <1>4, <1>5 DEF IInv

-----------------------------------------------------------------------------
(* A step of the lock holder, seen by the others *)

\* What a step of run r may do to the stages: r moves on, and when it leaves
\* the lock a run that waited for it may enter.
Moves(r) ==
    /\ stage' \in [Run -> Stages]
    /\ stage'[r] # "idle"
    /\ stage'[r] # "queued"
    /\ \A q \in Run \ {r} :
          \/ stage'[q] = stage[q]
          \/ /\ stage[q] = "queued" /\ stage'[q] = "check"
             /\ version[q] = version[r]
             /\ stage'[r] \notin Locked

\* What it may do to the rest: nothing to other versions, and no check undone.
Touches(r) ==
    /\ version' = version
    /\ digest' \in [Run -> Digest]
    /\ \A q \in Run \ {r} : digest'[q] = digest[q]
    /\ passed' \in [Run -> SUBSET Checks]
    /\ \A q \in Run : passed[q] \subseteq passed'[q]
    /\ ghcr' = [t \in Tag |-> ghcr'[t]]
    /\ \A v \in Version \ {version[r]} : ghcr'[v] = ghcr[v]

\* The end of a run leaves its lock to at most the run that waited for it.
LEMMA EndRunMoves ==
    ASSUME Shape, NEW r \in Run, NEW result \in {"succeeded", "failed"},
           EndRun(r, result)
    PROVE  Moves(r) /\ stage'[r] = result
<1>1. stage' = [q \in Run |->
                  IF q = r THEN result
                  ELSE IF stage[q] = "queued" /\ version[q] = version[r]
                       THEN "check" ELSE stage[q]]
    BY Zenon DEF EndRun
<1>2. result \in Stages /\ "check" \in Stages /\ result \notin Locked
    BY DEF Stages, Locked
<1>3. stage' \in [Run -> Stages]
    BY <1>1, <1>2 DEF Shape
<1> QED
    BY <1>1, <1>2, <1>3 DEF Moves

\* A step of the lock holder leaves one run with the lock and one waiting.
LEMMA StepKeepsLock ==
    ASSUME IInv, NEW r \in Run, stage[r] \in Locked, Moves(r), version' = version
    PROVE  LockInv'
<1> SUFFICES ASSUME NEW p \in Run, NEW q \in Run, version'[p] = version'[q],
                    \/ stage'[p] \in Locked /\ stage'[q] \in Locked
                    \/ stage'[p] = "queued" /\ stage'[q] = "queued"
             PROVE  p = q
    BY DEF LockInv
<1>1. "queued" \notin Locked /\ "check" \in Locked
    BY DEF Locked
<1>2. CASE p = r \/ q = r
    BY <1>1, <1>2 DEF IInv, LockInv, Moves
<1>3. CASE p # r /\ q # r
    BY <1>1, <1>3 DEF IInv, LockInv, Moves
<1> QED
    BY <1>2, <1>3

\* A step of the lock holder changes nothing that another run knows.
LEMMA StepKeepsOthers ==
    ASSUME IInv, NEW r \in Run, stage[r] \in Locked, Moves(r), Touches(r),
           NEW q \in Run, q # r
    PROVE  RunInv(q)'
<1>1. RunInv(q) /\ (stage'[q] # "idle" => version[q] \in Version)
    BY DEF IInv, RunInv, Moves, Touches
<1>2. CASE stage'[q] = stage[q] /\ stage[q] \in Locked
    <2>1. version[q] # version[r]
        BY <1>2 DEF IInv, LockInv
    <2>2. version[q] \in Version
        BY <1>1, <1>2 DEF Locked
    <2>3. ghcr'[version'[q]] = ghcr[version[q]] /\ digest'[q] = digest[q]
        BY <2>1, <2>2 DEF Touches
    <2>4. \A d \in Run : stage[d] # "idle" => stage'[d] # "idle"
        BY DEF Moves
    <2>5. \A d \in Run : passed[d] = Checks => passed'[d] = Checks
        BY DEF Touches
    <2>6. \A d \in Run : {"scan", "sign", "attest"} \subseteq passed[d] =>
                            {"scan", "sign", "attest"} \subseteq passed'[d]
        BY DEF Touches
    <2> QED
        BY <1>1, <1>2, <2>2, <2>3, <2>4, <2>5, <2>6 DEF RunInv, Touches, Locked
<1>3. CASE stage'[q] \notin Locked \/ stage'[q] = "check"
    BY <1>1, <1>3 DEF RunInv, Touches, Locked
<1>4. stage'[q] = stage[q] \/ stage'[q] = "check"
    BY DEF Moves
<1> QED
    BY <1>2, <1>3, <1>4

\* The tags other than those of r's version are as sound as before.
LEMMA StepKeepsTags ==
    ASSUME IInv, NEW r \in Run, Moves(r), Touches(r),
           NEW v \in Version,
           ghcr'[v] = ghcr[v], hub'[v] = hub[v],
           source' = source \/ source' = [w \in Version |-> None]
    PROVE  TagInv(v)'
<1>1. TagInv(v)
    BY DEF IInv
<1>2. \A d \in Run : stage[d] # "idle" => stage'[d] # "idle"
    BY DEF Moves
<1>3. \A d \in Run : passed[d] = Checks => passed'[d] = Checks
    BY DEF Touches
<1>4. source'[v] # None => source'[v] = source[v]
    OBVIOUS
<1> QED
    BY <1>1, <1>2, <1>3, <1>4 DEF TagInv, Touches

\* The step may start a reconciliation but disturbs none.
RecKept ==
    /\ source' = source
    /\ todo' = todo
    /\ recStage' \in {recStage, "idle", "started"}

\* The end of a run does not move the reconciliation.
LEMMA EndRunRec ==
    ASSUME NEW r \in Run, NEW result, EndRun(r, result)
    PROVE  RecKept
<1> QED
    BY DEF EndRun, EnterReconciliation, RecKept

\* A step that only changes the stage of its run is such a move.
LEMMA OneStageMoves ==
    ASSUME Shape, NEW r \in Run, NEW to \in Stages \ {"idle", "queued"},
           stage' = [stage EXCEPT ![r] = to]
    PROVE  Moves(r) /\ stage'[r] = to
<1> QED
    BY DEF Shape, Moves

\* Going on to the next stage is such a move, and leaves the rest alone.
LEMMA GoToMoves ==
    ASSUME Shape, NEW r \in Run, NEW from, NEW to \in Stages \ {"idle", "queued"},
           GoTo(r, from, to)
    PROVE  /\ Moves(r) /\ stage'[r] = to
           /\ RecKept /\ version' = version
<1>1. Moves(r) /\ stage'[r] = to
    BY OneStageMoves DEF GoTo
<1> QED
    BY <1>1 DEF GoTo, RecKept, recVars

\* A step that leaves the reconciliation alone keeps its plan.
LEMMA RecKeptPlan == IInv /\ RecKept => PlanInv'
<1> QED
    BY DEF IInv, PlanInv, RecKept

\* What remains to show of a step that may write the exact tag of r's version.
LEMMA StepKeepsIInv ==
    ASSUME IInv, NEW r \in Run, stage[r] \in Locked, Moves(r), Touches(r), RecKept,
           NEW v \in Version, v = version[r],
           hub' = [t \in Tag |-> hub'[t]],
           \A w \in Version \ {v} : hub'[w] = hub[w],
           RunInv(r)', TagInv(v)'
    PROVE  IInv'
<1>1. Shape'
    BY DEF IInv, Shape, Moves, Touches, RecKept
<1>2. LockInv'
    BY StepKeepsLock DEF Touches
<1>3. ASSUME NEW q \in Run PROVE RunInv(q)'
    BY <1>3, StepKeepsOthers
<1>4. ASSUME NEW w \in Version PROVE TagInv(w)'
    <2>1. CASE w = v
        BY <2>1
    <2>2. CASE w # v
        <3>1. ghcr'[w] = ghcr[w] /\ hub'[w] = hub[w]
            BY <2>2 DEF Touches
        <3> QED
            BY <3>1, StepKeepsTags DEF RecKept
    <2> QED
        BY <2>1, <2>2
<1>5. PlanInv'
    BY RecKeptPlan
<1> QED
    BY <1>1, <1>2, <1>3, <1>4, <1>5 DEF IInv

\* What remains to show of a step that writes no tag.
LEMMA StepWithoutTags ==
    ASSUME IInv, NEW r \in Run, stage[r] \in Locked, Moves(r), Touches(r), RecKept,
           ghcr' = ghcr, hub' = hub, RunInv(r)'
    PROVE  IInv'
<1>1. version[r] \in Version
    BY DEF IInv, RunInv, Locked
<1>2. TagInv(version[r]) /\ hub' = [t \in Tag |-> hub'[t]]
    BY <1>1 DEF IInv, Shape
<1>3. PICK v \in Version : v = version[r]
    BY <1>1
<1>4. TagInv(v)'
    BY StepKeepsTags DEF RecKept
<1> QED
    BY <1>2, <1>3, <1>4, StepKeepsIInv

-----------------------------------------------------------------------------
(* The steps of a release run *)

\* release.yml, the existing-tag check: an exact tag that is taken over names an
\* image of this version, and a build starts only while the tag is free.
LEMMA CheckExistingKeeps ==
    ASSUME IInv, NEW r \in Run, CheckExisting(r)
    PROVE  IInv'
<1> USE DEF Locked, Stages
<1>0. /\ stage[r] = "check" /\ Shape /\ RunInv(r) /\ version[r] \in Version
      /\ TagInv(version[r])
    BY DEF CheckExisting, IInv, RunInv
<1>1. CASE ghcr[version[r]] = None
    <2>1. GoTo(r, "check", "build") /\ UNCHANGED <<digest, passed, ghcr, hub>>
        BY <1>1 DEF CheckExisting
    <2>2. Moves(r) /\ stage'[r] = "build" /\ RecKept /\ version' = version
        BY <1>0, <2>1, GoToMoves
    <2>3. Touches(r)
        BY <1>0, <2>1, <2>2 DEF Touches, Shape
    <2>4. RunInv(r)'
        BY <1>0, <1>1, <2>1, <2>2 DEF RunInv
    <2> QED
        BY <1>0, <2>1, <2>2, <2>3, <2>4, StepWithoutTags
<1>2. CASE ghcr[version[r]] # None
    <2>1. /\ GoTo(r, "check", "verify") /\ UNCHANGED <<passed, ghcr, hub>>
          /\ digest' = [digest EXCEPT ![r] = ghcr[version[r]]]
        BY <1>2 DEF CheckExisting
    <2>2. Moves(r) /\ stage'[r] = "verify" /\ RecKept /\ version' = version
        BY <1>0, <2>1, GoToMoves
    <2>3. /\ ghcr[version[r]] \in Run /\ stage[ghcr[version[r]]] # "idle"
          /\ version[ghcr[version[r]]] = version[r]
          /\ passed[ghcr[version[r]]] = Checks
        BY <1>0, <1>2 DEF TagInv
    <2>4. digest'[r] = ghcr[version[r]] /\ Touches(r)
        BY <1>0, <2>1, <2>2, <2>3 DEF Touches, Shape, Digest
    <2>5. stage'[ghcr[version[r]]] # "idle"
        BY <2>2, <2>3 DEF Moves
    <2>6. RunInv(r)'
        BY <1>0, <2>1, <2>2, <2>3, <2>4, <2>5 DEF RunInv, Checks
    <2> QED
        BY <1>0, <2>1, <2>2, <2>4, <2>6, StepWithoutTags
<1> QED
    BY <1>1, <1>2

\* The build makes a new image that has passed nothing and that no tag names.
LEMMA BuildKeeps ==
    ASSUME IInv, NEW r \in Run, Build(r)
    PROVE  IInv'
<1> USE DEF Locked, Stages
<1>0. stage[r] = "build" /\ Shape /\ RunInv(r) /\ version[r] \in Version
    BY DEF Build, GoTo, IInv, RunInv
<1>1. Moves(r) /\ stage'[r] = "sign" /\ RecKept /\ version' = version
    BY <1>0, GoToMoves DEF Build
<1>2. digest'[r] = r /\ Touches(r)
    BY <1>0, <1>1 DEF Build, Touches, Shape, Digest
<1>3. RunInv(r)'
    BY <1>0, <1>1, <1>2 DEF Build, RunInv
<1> QED
    BY <1>0, <1>1, <1>2, <1>3, StepWithoutTags DEF Build

\* Passing a check adds to what the run's image has passed and to nothing else.
LEMMA PassTouches ==
    ASSUME Shape, NEW r \in Run, digest[r] \in Run, NEW checks \in SUBSET Checks,
           Pass(r, checks), version' = version, digest' = digest, ghcr' = ghcr
    PROVE  /\ Touches(r)
           /\ passed'[digest[r]] = passed[digest[r]] \cup checks
<1>1. /\ passed' \in [Run -> SUBSET Checks]
      /\ passed'[digest[r]] = passed[digest[r]] \cup checks
      /\ \A q \in Run : passed[q] \subseteq passed'[q]
    BY DEF Pass, Shape
<1> QED
    BY <1>1 DEF Touches, Shape

\* Scan, signature and attestation bring the image to verification.
LEMMA ScanAndSignKeeps ==
    ASSUME IInv, NEW r \in Run, ScanAndSign(r)
    PROVE  IInv'
<1> USE DEF Locked, Stages
<1>0. /\ stage[r] = "sign" /\ Shape /\ RunInv(r) /\ version[r] \in Version
      /\ digest[r] \in Run
    BY DEF ScanAndSign, GoTo, IInv, RunInv
<1>1. Moves(r) /\ stage'[r] = "verify" /\ RecKept /\ version' = version
    BY <1>0, GoToMoves DEF ScanAndSign
<1>2. Touches(r) /\ passed'[digest[r]] = passed[digest[r]] \cup {"scan", "sign", "attest"}
    <2>1. {"scan", "sign", "attest"} \in SUBSET Checks
        BY DEF Checks
    <2> QED
        BY <1>0, <1>1, <2>1, PassTouches DEF ScanAndSign
<1>3. RunInv(r)'
    <2>1. stage'[digest[r]] # "idle"
        BY <1>0, <1>1 DEF RunInv, Moves
    <2> QED
        BY <1>0, <1>1, <1>2, <2>1 DEF ScanAndSign, RunInv
<1> QED
    BY <1>0, <1>1, <1>2, <1>3, StepWithoutTags DEF ScanAndSign

\* Only an image that has passed every check reaches promotion.
LEMMA VerifyAndSmokeKeeps ==
    ASSUME IInv, NEW r \in Run, VerifyAndSmoke(r)
    PROVE  IInv'
<1> USE DEF Locked, Stages
<1>0. /\ stage[r] = "verify" /\ Shape /\ RunInv(r) /\ version[r] \in Version
      /\ digest[r] \in Run
    BY DEF VerifyAndSmoke, GoTo, IInv, RunInv
<1>1. Moves(r) /\ stage'[r] = "inspect" /\ RecKept /\ version' = version
    BY <1>0, GoToMoves DEF VerifyAndSmoke
<1>2. Touches(r) /\ passed'[digest[r]] = passed[digest[r]] \cup {"verify", "smoke"}
    <2>1. {"verify", "smoke"} \in SUBSET Checks
        BY DEF Checks
    <2> QED
        BY <1>0, <1>1, <2>1, PassTouches DEF VerifyAndSmoke
<1>3. passed'[digest[r]] = Checks
    <2>1. passed[digest[r]] \subseteq Checks
        BY <1>0 DEF Shape
    <2>2. {"scan", "sign", "attest"} \subseteq passed[digest[r]]
        BY <1>0 DEF RunInv
    <2> QED
        BY <1>2, <2>1, <2>2 DEF Checks
<1>4. RunInv(r)'
    <2>1. stage'[digest[r]] # "idle"
        BY <1>0, <1>1 DEF RunInv, Moves
    <2> QED
        BY <1>0, <1>1, <1>3, <2>1 DEF VerifyAndSmoke, RunInv
<1> QED
    BY <1>0, <1>1, <1>2, <1>4, StepWithoutTags DEF VerifyAndSmoke

\* Promotion to GHCR is done: Docker Hub is next, or the run has succeeded.
LEMMA PromotedMoves ==
    ASSUME Shape, NEW r \in Run, Promoted(r)
    PROVE  Moves(r) /\ RecKept /\ stage'[r] \in {"mirror", "succeeded"}
<1>1. CASE stage' = [stage EXCEPT ![r] = "mirror"] /\ UNCHANGED recVars
    <2>1. "mirror" \in Stages \ {"idle", "queued"}
        BY DEF Stages
    <2> QED
        BY <1>1, <2>1, OneStageMoves DEF RecKept, recVars
<1>2. CASE EndRun(r, "succeeded")
    BY <1>2, EndRunMoves, EndRunRec
<1> QED
    BY <1>1, <1>2 DEF Promoted

\* promote_exact_tag creates only after it saw the tag free.
LEMMA InspectExactKeeps ==
    ASSUME IInv, NEW r \in Run, InspectExact(r)
    PROVE  IInv'
<1> USE DEF Locked, Stages
<1>0. /\ stage[r] = "inspect" /\ Shape /\ RunInv(r) /\ version[r] \in Version
      /\ digest[r] \in Run /\ Touches(r)
    BY DEF InspectExact, IInv, RunInv, Touches, Shape
<1>1. Moves(r) /\ RecKept /\
        \/ stage'[r] \in {"mirror", "succeeded"} /\ ghcr[version[r]] = digest[r]
        \/ stage'[r] = "create" /\ ghcr[version[r]] = None
    <2>1. CASE ghcr[version[r]] = digest[r] /\ Promoted(r)
        BY <1>0, <2>1, PromotedMoves
    <2>2. CASE /\ ghcr[version[r]] = None
               /\ stage' = [stage EXCEPT ![r] = "create"] /\ UNCHANGED recVars
        BY <1>0, <2>2, OneStageMoves DEF RecKept, recVars
    <2> QED
        BY <2>1, <2>2 DEF InspectExact
<1>2. RunInv(r)'
    <2>1. stage'[digest[r]] # "idle"
        BY <1>0, <1>1 DEF RunInv, Moves
    <2> QED
        BY <1>0, <1>1, <2>1 DEF InspectExact, RunInv
<1> QED
    BY <1>0, <1>1, <1>2, StepWithoutTags DEF InspectExact

\* The create writes a checked image to a tag that the lock kept free.
LEMMA CreateExactKeeps ==
    ASSUME IInv, NEW r \in Run, CreateExact(r)
    PROVE  IInv'
<1> USE DEF Locked, Stages
<1>0. /\ stage[r] = "create" /\ Shape /\ RunInv(r) /\ version[r] \in Version
      /\ digest[r] \in Run /\ stage[digest[r]] # "idle"
      /\ version[digest[r]] = version[r] /\ passed[digest[r]] = Checks
      /\ TagInv(version[r])
    BY DEF CreateExact, IInv, RunInv
<1>1. Moves(r) /\ RecKept /\ stage'[r] \in {"mirror", "succeeded"}
    BY <1>0, PromotedMoves DEF CreateExact
<1>2. ghcr'[version[r]] = digest[r] /\ Touches(r)
    <2>1. version[r] \in Tag /\ Version \subseteq Tag
        BY <1>0 DEF Tag
    <2>2. ghcr' = [ghcr EXCEPT ![version[r]] = digest[r]]
          /\ UNCHANGED <<version, digest, passed>>
        BY DEF CreateExact
    <2>3. ghcr = [t \in Tag |-> ghcr[t]] /\ digest \in [Run -> Digest]
          /\ passed \in [Run -> SUBSET Checks]
        BY <1>0 DEF Shape
    <2>4. /\ ghcr'[version[r]] = digest[r]
          /\ ghcr' = [t \in Tag |-> ghcr'[t]]
          /\ \A v \in Version \ {version[r]} : ghcr'[v] = ghcr[v]
        BY <2>1, <2>2, <2>3
    <2> QED
        BY <2>2, <2>3, <2>4 DEF Touches
<1>3. stage'[digest[r]] # "idle"
    BY <1>0, <1>1 DEF Moves
<1>4. RunInv(r)'
    BY <1>0, <1>1, <1>2, <1>3 DEF CreateExact, RunInv
<1>5. PICK v \in Version : v = version[r]
    BY <1>0
<1>6. TagInv(v)'
    <2>1. ghcr[v] = None
        BY <1>0, <1>5 DEF RunInv
    <2>2. hub[v] = None /\ source[v] = None
        BY <1>0, <1>5, <2>1 DEF TagInv
    <2>3. hub'[v] = None /\ source'[v] = None
        BY <1>1, <2>2 DEF CreateExact, RecKept
    <2> QED
        BY <1>0, <1>2, <1>3, <1>5, <2>3 DEF CreateExact, TagInv
<1> QED
    BY <1>0, <1>1, <1>2, <1>4, <1>5, <1>6, StepKeepsIInv DEF CreateExact, IInv, Shape

\* The Docker Hub tag is inspected after GHCR names the image.
LEMMA InspectMirrorKeeps ==
    ASSUME IInv, NEW r \in Run, InspectMirror(r)
    PROVE  IInv'
<1> USE DEF Locked, Stages
<1>0. /\ stage[r] = "mirror" /\ Shape /\ RunInv(r) /\ version[r] \in Version
      /\ digest[r] \in Run /\ Touches(r)
    BY DEF InspectMirror, IInv, RunInv, Touches, Shape
<1>1. Moves(r) /\ RecKept /\ stage'[r] \in {"succeeded", "copy"}
    <2>1. CASE EndRun(r, "succeeded")
        BY <1>0, <2>1, EndRunMoves, EndRunRec
    <2>2. CASE stage' = [stage EXCEPT ![r] = "copy"] /\ UNCHANGED recVars
        BY <1>0, <2>2, OneStageMoves DEF RecKept, recVars
    <2> QED
        BY <2>1, <2>2 DEF InspectMirror
<1>2. RunInv(r)'
    <2>1. stage'[digest[r]] # "idle"
        BY <1>0, <1>1 DEF RunInv, Moves
    <2> QED
        BY <1>0, <1>1, <2>1 DEF InspectMirror, RunInv
<1> QED
    BY <1>0, <1>1, <1>2, StepWithoutTags DEF InspectMirror

\* The copy writes to Docker Hub what GHCR already says.
LEMMA CopyExactKeeps ==
    ASSUME IInv, NEW r \in Run, CopyExact(r)
    PROVE  IInv'
<1> USE DEF Locked, Stages
<1>0. /\ stage[r] = "copy" /\ Shape /\ RunInv(r) /\ version[r] \in Version
      /\ digest[r] \in Run /\ Touches(r) /\ ghcr[version[r]] = digest[r]
      /\ TagInv(version[r])
    BY DEF CopyExact, IInv, RunInv, Touches, Shape
<1>1. Moves(r) /\ RecKept /\ stage'[r] = "succeeded"
    BY <1>0, EndRunMoves, EndRunRec DEF CopyExact
<1>2. RunInv(r)'
    BY <1>0, <1>1 DEF CopyExact, RunInv
<1>3. PICK v \in Version : v = version[r]
    BY <1>0
<1>4. /\ hub' = [t \in Tag |-> hub'[t]] /\ hub'[v] = digest[r]
      /\ \A w \in Version \ {v} : hub'[w] = hub[w]
    <2>1. version[r] \in Tag
        BY <1>0 DEF Tag
    <2> QED
        BY <1>0, <1>3, <2>1 DEF CopyExact, Shape, Tag
<1>5. TagInv(v)'
    <2>1. stage'[digest[r]] # "idle"
        BY <1>0, <1>1 DEF RunInv, Moves
    <2> QED
        BY <1>0, <1>1, <1>3, <1>4, <2>1 DEF CopyExact, TagInv, RecKept
<1> QED
    BY <1>0, <1>1, <1>2, <1>3, <1>4, <1>5, StepKeepsIInv

\* A run that ends without a promotion, by failure or refusal.
LEMMA FailedKeeps ==
    ASSUME IInv, NEW r \in Run, stage[r] \in Locked, EndRun(r, "failed"),
           UNCHANGED <<version, digest, passed, ghcr, hub>>
    PROVE  IInv'
<1>0. Shape /\ RunInv(r) /\ version[r] \in Version /\ Touches(r)
    BY DEF IInv, RunInv, Touches, Shape, Locked
<1>1. Moves(r) /\ RecKept /\ stage'[r] = "failed"
    BY <1>0, EndRunMoves, EndRunRec
<1>2. RunInv(r)'
    BY <1>0, <1>1 DEF RunInv, Locked
<1> QED
    BY <1>0, <1>1, <1>2, StepWithoutTags

\* A new run takes the lock, or waits for it in place of the one that waited.
LEMMA PrepareKeeps ==
    ASSUME IInv, NEW r \in Run, NEW v \in Version, NEW checksum \in Checksum,
           Prepare(r, v, checksum)
    PROVE  IInv'
<1> DEFINE replaced == {q \in Run : stage[q] = "queued" /\ version[q] = v}
<1>0. /\ Shape /\ LockInv /\ stage[r] = "idle" /\ v # None
      /\ version' = [version EXCEPT ![r] = v]
      /\ UNCHANGED <<digest, passed, ghcr, hub>> /\ RecKept
    BY DEF Prepare, IInv, recVars, RecKept, EnterReconciliation
<1>1. /\ stage' \in [Run -> Stages]
      /\ \/ stage'[r] = "check" /\ LockFree(v)
            /\ \A q \in Run \ {r} : stage'[q] = stage[q]
         \/ stage'[r] = "queued"
            /\ \A q \in Run \ {r} :
                  stage'[q] = IF q \in replaced THEN "cancelled" ELSE stage[q]
    <2>1. "check" \in Stages /\ "queued" \in Stages /\ "cancelled" \in Stages
        BY DEF Stages
    <2>2. CASE LockFree(v) /\ stage' = [stage EXCEPT ![r] = "check"]
        BY <1>0, <2>1, <2>2 DEF Shape
    <2>3. CASE stage' = [q \in Run |-> IF q = r THEN "queued"
                                        ELSE IF q \in replaced THEN "cancelled"
                                        ELSE stage[q]]
        BY <1>0, <2>1, <2>3 DEF Shape
    <2> QED
        BY <2>2, <2>3 DEF Prepare
<1> HIDE DEF replaced
<1>2. /\ version' \in [Run -> Version \cup {None}] /\ version'[r] = v
      /\ \A q \in Run \ {r} : version'[q] = version[q]
    BY <1>0 DEF Shape
<1>3. \A q \in Run : stage[q] # "idle" =>
          /\ q # r /\ version'[q] = version[q] /\ stage'[q] # "idle"
    BY <1>0, <1>1, <1>2
<1>4. Shape'
    BY <1>0, <1>1, <1>2 DEF Shape, RecKept
<1>5. LockInv'
    <2> SUFFICES ASSUME NEW p \in Run, NEW q \in Run, version'[p] = version'[q],
                        \/ stage'[p] \in Locked /\ stage'[q] \in Locked
                        \/ stage'[p] = "queued" /\ stage'[q] = "queued"
                 PROVE  p = q
        BY DEF LockInv
    <2>1. "queued" \notin Locked /\ "cancelled" \notin Locked
        BY DEF Locked
    <2>2. CASE p # r /\ q # r
        BY <1>0, <1>1, <1>2, <2>1, <2>2 DEF LockInv
    <2>3. ASSUME NEW u \in Run, u # r, version'[u] = v PROVE
              /\ stage'[r] \in Locked => stage'[u] \notin Locked
              /\ stage'[r] = "queued" => stage'[u] # "queued"
        BY <1>0, <1>1, <1>2, <2>1, <2>3 DEF LockFree, replaced
    <2>4. CASE p = r \/ q = r
        BY <1>1, <1>2, <2>1, <2>3, <2>4
    <2> QED
        BY <2>2, <2>4
<1>6. ASSUME NEW q \in Run PROVE RunInv(q)'
    <2>1. CASE q = r
        BY <1>0, <1>1, <1>2, <2>1 DEF RunInv, Locked
    <2>2. CASE q # r
        <3>1. RunInv(q) /\ version'[q] = version[q]
            BY <1>2, <2>2 DEF IInv
        <3>2. CASE stage'[q] = stage[q]
            BY <1>0, <1>3, <3>1, <3>2 DEF RunInv, Locked
        <3>3. CASE stage'[q] = "cancelled" /\ q \in replaced
            BY <1>0, <3>1, <3>3 DEF RunInv, Locked, replaced
        <3> QED
            BY <1>1, <2>2, <3>2, <3>3
    <2> QED
        BY <2>1, <2>2
<1>7. ASSUME NEW w \in Version PROVE TagInv(w)'
    <2>1. TagInv(w) /\ source' = source
        BY <1>0 DEF IInv, RecKept
    <2> QED
        BY <1>0, <1>3, <2>1 DEF TagInv
<1>8. PlanInv'
    BY <1>0, RecKeptPlan
<1> QED
    BY <1>4, <1>5, <1>6, <1>7, <1>8 DEF IInv

-----------------------------------------------------------------------------
(* The steps of a reconciliation *)

\* A reconciliation leaves the runs alone, and with them the exact tags of
\* GHCR; what it does to Docker Hub and to its own list is left to show.
LEMMA ReconcileKeeps ==
    ASSUME IInv, UNCHANGED runVars, Shape', PlanInv',
           \A v \in Version :
              /\ ghcr'[v] = ghcr[v]
              /\ hub'[v] \in {None, hub[v], ghcr[v]}
              /\ source'[v] \in {None, source[v], ghcr[v]}
    PROVE  IInv'
<1>1. UNCHANGED <<stage, version, digest, passed>>
    BY DEF runVars
<1>2. LockInv'
    BY <1>1 DEF IInv, LockInv
<1>3. ASSUME NEW r \in Run PROVE RunInv(r)'
    <2>1. RunInv(r)
        BY DEF IInv
    <2>2. CASE stage[r] = "idle"
        BY <1>1, <2>1, <2>2 DEF RunInv, Locked
    <2>3. CASE stage[r] # "idle"
        <3>1. version[r] \in Version
            BY <2>1, <2>3 DEF RunInv
        <3>2. ghcr'[version[r]] = ghcr[version[r]]
            BY <3>1
        <3> QED
            BY <1>1, <2>1, <3>2 DEF RunInv
    <2> QED
        BY <2>2, <2>3
<1>4. ASSUME NEW v \in Version PROVE TagInv(v)'
    BY <1>1 DEF IInv, TagInv
<1> QED
    BY <1>2, <1>3, <1>4 DEF IInv

\* A reconciliation that ends forgets what it had enumerated.
LEMMA LeaveRec ==
    LeaveReconciliation =>
        /\ source' = [v \in Version |-> None] /\ todo' = {}
        /\ recStage' \in {"idle", "started"}
<1> QED
    BY DEF LeaveReconciliation

\* A reconciliation ends: nothing is left of its list.
LEMMA LeaveKeeps ==
    ASSUME IInv, LeaveReconciliation, UNCHANGED <<runVars, ghcr, hub>>
    PROVE  IInv'
<1>1. Shape'
    BY LeaveRec DEF IInv, Shape, runVars
<1>2. PlanInv'
    BY LeaveRec DEF PlanInv
<1> QED
    BY <1>1, <1>2, LeaveRec, ReconcileKeeps

\* The weekly schedule writes no tag.
LEMMA ScheduleKeeps == IInv /\ Schedule => IInv'
<1> SUFFICES ASSUME IInv, Schedule PROVE IInv'
    OBVIOUS
<1>1. RecKept /\ UNCHANGED <<runVars, ghcr, hub>>
    BY DEF Schedule, EnterReconciliation, RecKept
<1>2. Shape'
    BY <1>1 DEF IInv, Shape, runVars, RecKept
<1> QED
    BY <1>1, <1>2, RecKeptPlan, ReconcileKeeps DEF RecKept

\* The list a reconciliation works from is read from the exact tags on GHCR.
LEMMA EnumerateKeeps == IInv /\ Enumerate => IInv'
<1> SUFFICES ASSUME IInv, Enumerate PROVE IInv'
    OBVIOUS
<1>1. /\ source' = [v \in Version |-> IF Stable(v) THEN ghcr[v] ELSE None]
      /\ recStage' = "verify" /\ UNCHANGED <<runVars, todo, ghcr, hub>>
    BY DEF Enumerate
<1>2. Shape'
    BY <1>1 DEF IInv, Shape, runVars
<1>3. PlanInv'
    BY <1>1 DEF PlanInv
<1> QED
    BY <1>1, <1>2, <1>3, ReconcileKeeps

\* Verifying that list writes no tag.
LEMMA VerifySourcesKeeps == IInv /\ VerifySources => IInv'
<1> SUFFICES ASSUME IInv, VerifySources PROVE IInv'
    OBVIOUS
<1>1. /\ todo' = FloatingPlan /\ recStage' = "apply"
      /\ UNCHANGED <<runVars, source, ghcr, hub>>
    BY DEF VerifySources
<1>2. FloatingPlan \subseteq Floating /\ Floating \subseteq Tag
    BY DEF FloatingPlan, Tag
<1>3. Shape'
    BY <1>1, <1>2 DEF IInv, Shape, runVars
<1>4. PlanInv'
    BY <1>1, <1>2 DEF PlanInv
<1> QED
    BY <1>1, <1>3, <1>4, ReconcileKeeps

\* Moving a floating tag touches no exact tag.
LEMMA ApplyFloatingKeeps ==
    ASSUME IInv, NEW t \in Tag, ApplyFloating(t)
    PROVE  IInv'
<1>1. /\ t \in todo /\ recStage = "apply" /\ todo' = todo \ {t}
      /\ ghcr' = [ghcr EXCEPT ![t] = Wanted(t)]
      /\ UNCHANGED <<runVars, recStage, source, hub>>
    BY DEF ApplyFloating, IsNext
<1>2. t \notin Version
    BY <1>1, FloatingNotVersion DEF IInv, PlanInv
<1>3. ghcr' = [u \in Tag |-> ghcr'[u]] /\ \A v \in Version : ghcr'[v] = ghcr[v]
    <2>1. ghcr = [u \in Tag |-> ghcr[u]] /\ Version \subseteq Tag
        BY DEF IInv, Shape, Tag
    <2> QED
        BY <1>1, <1>2, <2>1
<1>4. Shape'
    BY <1>1, <1>3 DEF IInv, Shape, runVars
<1>5. PlanInv'
    BY <1>1 DEF IInv, PlanInv
<1> QED
    BY <1>1, <1>3, <1>4, <1>5, ReconcileKeeps

\* The plan for Docker Hub holds the enumerated exact tags.
LEMMA GhcrAppliedKeeps == IInv /\ GhcrApplied => IInv'
<1> SUFFICES ASSUME IInv, GhcrApplied PROVE IInv'
    OBVIOUS
<1>1. UNCHANGED <<runVars, ghcr, hub>>
    BY DEF GhcrApplied
<1>2. CASE recStage' = "hub" /\ todo' = Found \cup FloatingPlan /\ source' = source
    <2>1. Found \subseteq Version /\ FloatingPlan \subseteq Floating
        BY DEF Found, FloatingPlan
    <2>2. Shape'
        BY <1>1, <1>2, <2>1 DEF IInv, Shape, runVars, Tag
    <2>3. PlanInv'
        BY <1>2, <2>1, FloatingNotVersion DEF PlanInv, Found
    <2> QED
        BY <1>1, <1>2, <2>2, <2>3, ReconcileKeeps
<1>3. CASE LeaveReconciliation
    BY <1>1, <1>3, LeaveKeeps
<1> QED
    BY <1>2, <1>3 DEF GhcrApplied

\* Inspecting a Docker Hub tag changes none.
LEMMA HubInspectKeeps ==
    ASSUME IInv, NEW t \in Tag, HubInspect(t)
    PROVE  IInv'
<1>1. /\ recStage = "hub" /\ recStage' \in {"hub", "hubCopy"}
      /\ todo' \subseteq todo /\ UNCHANGED <<runVars, source, ghcr, hub>>
    BY DEF HubInspect
<1>2. Shape'
    BY <1>1 DEF IInv, Shape, runVars
<1>3. PlanInv'
    BY <1>1 DEF IInv, PlanInv
<1> QED
    BY <1>1, <1>2, <1>3, ReconcileKeeps

\* Repairing Docker Hub writes what was enumerated, which GHCR still says.
LEMMA HubCopyKeeps ==
    ASSUME IInv, NEW t \in Tag, HubCopy(t)
    PROVE  IInv'
<1>1. /\ t \in todo /\ recStage = "hubCopy" /\ recStage' = "hub"
      /\ todo' = todo \ {t} /\ hub' = [hub EXCEPT ![t] = Wanted(t)]
      /\ UNCHANGED <<runVars, source, ghcr>>
    BY DEF HubCopy, IsNext
<1>2. t \in Version => Wanted(t) = ghcr[t]
    <2>1. t \in Version => source[t] # None
        BY <1>1 DEF IInv, PlanInv
    <2> QED
        BY <2>1 DEF IInv, TagInv, Wanted
<1>3. hub' = [u \in Tag |-> hub'[u]] /\ \A v \in Version : hub'[v] \in {hub[v], ghcr[v]}
    <2>1. hub = [u \in Tag |-> hub[u]] /\ Version \subseteq Tag
        BY DEF IInv, Shape, Tag
    <2> QED
        BY <1>1, <1>2, <2>1
<1>4. Shape'
    BY <1>1, <1>3 DEF IInv, Shape, runVars
<1>5. PlanInv'
    BY <1>1 DEF IInv, PlanInv
<1> QED
    BY <1>1, <1>3, <1>4, <1>5, ReconcileKeeps

-----------------------------------------------------------------------------
\* Every step of every run and of the reconciliation keeps the invariant.
LEMMA NextIInv == IInv /\ [Next]_vars => IInv'
<1> SUFFICES ASSUME IInv, [Next]_vars PROVE IInv'
    OBVIOUS
<1>1. ASSUME NEW r \in Run, NEW v \in Version, NEW checksum \in Checksum,
             Prepare(r, v, checksum)
      PROVE  IInv'
    BY <1>1, PrepareKeeps
<1>2. ASSUME NEW r \in Run, Transaction(r) PROVE IInv'
    BY <1>2, CheckExistingKeeps, BuildKeeps, ScanAndSignKeeps, VerifyAndSmokeKeeps,
       InspectExactKeeps, CreateExactKeeps, InspectMirrorKeeps, CopyExactKeeps
       DEF Transaction
<1>3. ASSUME NEW r \in Run, FailRun(r) PROVE IInv'
    BY <1>3, FailedKeeps DEF FailRun
<1>4. ASSUME NEW r \in Run, Refuse(r) PROVE IInv'
    BY <1>4, FailedKeeps DEF Refuse, Refused, Locked
<1>5. CASE Schedule
    BY <1>5, ScheduleKeeps
<1>6. CASE Reconcile
    <2>1. ASSUME NEW t \in Tag, ApplyFloating(t) \/ HubInspect(t) \/ HubCopy(t)
          PROVE  IInv'
        BY <2>1, ApplyFloatingKeeps, HubInspectKeeps, HubCopyKeeps
    <2>2. CASE HubApplied
        BY <2>2, LeaveKeeps DEF HubApplied
    <2> QED
        BY <1>6, <2>1, <2>2, EnumerateKeeps, VerifySourcesKeeps, GhcrAppliedKeeps
           DEF Reconcile
<1>7. CASE FailReconciliation
    BY <1>7, LeaveKeeps DEF FailReconciliation
<1>8. CASE UNCHANGED vars
    <2>1. Shape' /\ PlanInv'
        BY <1>8 DEF vars, runVars, recVars, IInv, Shape, PlanInv
    <2> QED
        BY <1>8, <2>1, ReconcileKeeps DEF vars, recVars
<1> QED
    BY <1>1, <1>2, <1>3, <1>4, <1>5, <1>6, <1>7, <1>8 DEF Next

\* A step takes no exact tag away and gives none another image.
LEMMA NextTags ==
    ASSUME IInv, [Next]_vars, NEW v \in Version
    PROVE  /\ ghcr[v] # None => ghcr'[v] = ghcr[v]
           /\ hub[v] # None => hub'[v] # None
<1>1. /\ ghcr = [t \in Tag |-> ghcr[t]] /\ hub = [t \in Tag |-> hub[t]]
      /\ v \in Tag
    BY DEF IInv, Shape, Tag
<1>2. CASE UNCHANGED <<ghcr, hub>>
    BY <1>2
<1>3. ASSUME NEW r \in Run, CreateExact(r)
      PROVE  (ghcr[v] # None => ghcr'[v] = ghcr[v]) /\ hub' = hub
    <2>1. ghcr[version[r]] = None
        BY <1>3 DEF CreateExact, IInv, RunInv
    <2> QED
        BY <1>1, <1>3, <2>1 DEF CreateExact
<1>4. ASSUME NEW r \in Run, CopyExact(r)
      PROVE  ghcr' = ghcr /\ (hub[v] # None => hub'[v] # None)
    <2>1. digest[r] \in Run
        BY <1>4 DEF CopyExact, IInv, RunInv, Locked
    <2> QED
        BY <1>1, <1>4, <2>1 DEF CopyExact
<1>5. ASSUME NEW t \in Tag, ApplyFloating(t)
      PROVE  ghcr'[v] = ghcr[v] /\ hub' = hub
    <2>1. t \notin Version
        BY <1>5, FloatingNotVersion DEF IInv, PlanInv, ApplyFloating, IsNext
    <2> QED
        BY <1>1, <1>5, <2>1 DEF ApplyFloating
<1>6. ASSUME NEW t \in Tag, HubCopy(t)
      PROVE  ghcr' = ghcr /\ (hub[v] # None => hub'[v] # None)
    <2>1. t \in Version => Wanted(t) # None
        BY <1>6 DEF IInv, PlanInv, HubCopy, IsNext, Wanted
    <2> QED
        BY <1>1, <1>6, <2>1 DEF HubCopy
<1>7. \/ UNCHANGED <<ghcr, hub>>
      \/ \E r \in Run : CreateExact(r) \/ CopyExact(r)
      \/ \E t \in Tag : ApplyFloating(t) \/ HubCopy(t)
    <2>1. ASSUME NEW r \in Run, Transaction(r)
          PROVE  UNCHANGED <<ghcr, hub>> \/ CreateExact(r) \/ CopyExact(r)
        BY <2>1 DEF Transaction, CheckExisting, Build, ScanAndSign,
                    VerifyAndSmoke, InspectExact, InspectMirror
    <2>2. ASSUME Reconcile
          PROVE  \/ UNCHANGED <<ghcr, hub>>
                 \/ \E t \in Tag : ApplyFloating(t) \/ HubCopy(t)
        BY <2>2 DEF Reconcile, Enumerate, VerifySources, HubInspect, GhcrApplied,
                    HubApplied
    <2>3. ASSUME NEW r \in Run, FailRun(r) \/ Refuse(r)
          PROVE  UNCHANGED <<ghcr, hub>>
        BY <2>3 DEF FailRun, Refuse
    <2>4. ASSUME NEW r \in Run, NEW w \in Version, NEW checksum \in Checksum,
                 Prepare(r, w, checksum)
          PROVE  UNCHANGED <<ghcr, hub>>
        BY <2>4 DEF Prepare
    <2>5. ASSUME Schedule \/ FailReconciliation \/ UNCHANGED vars
          PROVE  UNCHANGED <<ghcr, hub>>
        BY <2>5 DEF Schedule, FailReconciliation, vars
    <2> QED
        BY <2>1, <2>2, <2>3, <2>4, <2>5 DEF Next
<1> QED
    BY <1>2, <1>3, <1>4, <1>5, <1>6, <1>7

\* Along every behaviour, for any number of runs, the invariant holds.
THEOREM InvariantHolds == Spec => []IInv
BY InitIInv, NextIInv, PTL DEF Spec

\* release.yml: a failed, killed or repeated run never leaves an unverified
\* exact tag behind, for any number of runs and failures.
THEOREM TagsVerified == Spec => []ExactTagVerified
<1>1. IInv => ExactTagVerified
    BY DEF IInv, TagInv, ExactTagVerified
<1> QED
    BY <1>1, InvariantHolds, PTL

\* promote_exact_tag_cross_registry and the reconciliation, under different
\* locks, never let Docker Hub disagree with GHCR on an exact tag.
THEOREM MirrorsAgree == Spec => []MirrorAgrees
<1>1. IInv => MirrorAgrees
    BY DEF IInv, TagInv, MirrorAgrees
<1> QED
    BY <1>1, InvariantHolds, PTL

\* promote_exact_tag: a published exact tag never changes, on either registry.
THEOREM TagsImmutable == Spec => ExactTagImmutable
<1>1. ASSUME IInv, IInv', [Next]_vars
      PROVE  [\A v \in Version :
                /\ ghcr[v] # None => ghcr'[v] = ghcr[v]
                /\ hub[v] # None => hub'[v] = hub[v]]_vars
    <2>1. ASSUME NEW v \in Version
          PROVE  /\ ghcr[v] # None => ghcr'[v] = ghcr[v]
                 /\ hub[v] # None => hub'[v] = hub[v]
        <3>1. /\ ghcr[v] # None => ghcr'[v] = ghcr[v]
              /\ hub[v] # None => hub'[v] # None
            BY <1>1, NextTags
        <3>2. hub[v] # None => hub[v] = ghcr[v]
            BY <1>1 DEF IInv, TagInv
        <3>3. hub'[v] # None => hub'[v] = ghcr'[v]
            BY <1>1 DEF IInv, TagInv
        <3> QED
            BY <3>1, <3>2, <3>3
    <2> QED
        BY <2>1
<1> QED
    BY <1>1, InvariantHolds, PTL DEF Spec, ExactTagImmutable

-----------------------------------------------------------------------------
(* What a run that reports success has done *)

Unpromoted == {"idle", "queued", "check", "build", "sign", "verify", "inspect",
               "create"}

\* Each registry that is enabled for the run has its image under its version.
Published(r) ==
    /\ digest[r] \in Run
    /\ ghcr[version[r]] = digest[r]
    /\ mirror[r] => hub[version[r]] = digest[r]

\* A run learns that Docker Hub is enabled when it is done with GHCR.
SuccessInv ==
    /\ mirror \in [Run -> BOOLEAN]
    /\ \A r \in Run :
          /\ stage[r] \in Unpromoted => ~mirror[r]
          /\ stage[r] = "succeeded" => Published(r)

\* No step removes what a run has published.
LEMMA StaysPublished ==
    ASSUME IInv, IInv', [Next]_vars, NEW r \in Run, Published(r),
           version[r] \in Version, version'[r] = version[r],
           digest'[r] = digest[r], mirror'[r] = mirror[r]
    PROVE  Published(r)'
<1>1. PICK v \in Version : v = version[r]
    OBVIOUS
<1>2. digest[r] # None /\ ghcr[v] = digest[r]
    BY <1>1 DEF Published
<1>3. ghcr'[v] = digest[r]
    BY <1>2, NextTags
<1>4. CASE mirror[r]
    <2>1. hub[v] # None
        BY <1>1, <1>2, <1>4 DEF Published
    <2>2. hub'[v] = ghcr'[v]
        BY <2>1, NextTags DEF IInv, TagInv
    <2> QED
        BY <1>1, <1>2, <1>3, <2>2 DEF Published
<1>5. CASE ~mirror[r]
    BY <1>1, <1>2, <1>3, <1>5 DEF Published
<1> QED
    BY <1>4, <1>5

\* A step of a run that holds its lock does not speak for the others.
LEMMA OwnStep ==
    ASSUME IInv, NEW r \in Run, Transaction(r) \/ FailRun(r) \/ Refuse(r)
    PROVE  /\ stage[r] \in Locked /\ Moves(r) /\ version' = version
           /\ \A q \in Run \ {r} : digest'[q] = digest[q]
<1> USE DEF Locked, Stages
<1>0. Shape
    BY DEF IInv
<1>1. CASE CheckExisting(r)
    BY <1>0, <1>1, GoToMoves DEF CheckExisting, GoTo, Shape
<1>2. CASE Build(r)
    BY <1>0, <1>2, GoToMoves DEF Build, GoTo, Shape
<1>3. CASE ScanAndSign(r)
    BY <1>0, <1>3, GoToMoves DEF ScanAndSign, GoTo
<1>4. CASE VerifyAndSmoke(r)
    BY <1>0, <1>4, GoToMoves DEF VerifyAndSmoke, GoTo
<1>5. CASE InspectExact(r)
    <2>1. CASE Promoted(r)
        BY <1>0, <1>5, <2>1, PromotedMoves DEF InspectExact
    <2>2. CASE stage' = [stage EXCEPT ![r] = "create"]
        BY <1>0, <1>5, <2>2, OneStageMoves DEF InspectExact
    <2> QED
        BY <1>5, <2>1, <2>2 DEF InspectExact
<1>6. CASE CreateExact(r)
    BY <1>0, <1>6, PromotedMoves DEF CreateExact
<1>7. CASE InspectMirror(r)
    <2>1. CASE EndRun(r, "succeeded")
        BY <1>0, <1>7, <2>1, EndRunMoves DEF InspectMirror
    <2>2. CASE stage' = [stage EXCEPT ![r] = "copy"]
        BY <1>0, <1>7, <2>2, OneStageMoves DEF InspectMirror
    <2> QED
        BY <1>7, <2>1, <2>2 DEF InspectMirror
<1>8. CASE CopyExact(r)
    BY <1>0, <1>8, EndRunMoves DEF CopyExact
<1>9. CASE FailRun(r) \/ Refuse(r)
    BY <1>0, <1>9, EndRunMoves DEF FailRun, Refuse, Refused
<1> QED
    BY <1>1, <1>2, <1>3, <1>4, <1>5, <1>6, <1>7, <1>8, <1>9 DEF Transaction

\* What the step does to the run's own promise: Docker Hub is asked for only
\* after GHCR, and success is reported only after both.
LEMMA OwnSuccess ==
    ASSUME IInv, SuccessInv, NEW r \in Run,
           Transaction(r) \/ FailRun(r) \/ Refuse(r)
    PROVE  /\ mirror' = mirror \/ mirror' = [mirror EXCEPT ![r] = TRUE]
           /\ stage'[r] \in Unpromoted => mirror' = mirror /\ stage[r] \in Unpromoted
           /\ stage'[r] = "succeeded" => Published(r)'
<1> USE DEF Locked, Stages, Unpromoted
<1>0. /\ Shape /\ RunInv(r) /\ stage[r] \in Locked /\ version[r] \in Version
      /\ version' = version
    BY OwnStep DEF IInv, RunInv
<1>1. CASE CheckExisting(r) \/ Build(r) \/ ScanAndSign(r) \/ VerifyAndSmoke(r)
    <2>1. /\ mirror' = mirror /\ stage[r] \in Unpromoted
          /\ stage' \in {[stage EXCEPT ![r] = to] : to \in {"build", "sign", "verify", "inspect"}}
        BY <1>1 DEF CheckExisting, Build, ScanAndSign, VerifyAndSmoke, GoTo
    <2> QED
        BY <1>0, <2>1 DEF Shape
<1>2. CASE FailRun(r) \/ Refuse(r)
    <2>1. stage'[r] = "failed" /\ mirror' = mirror
        BY <1>0, <1>2, EndRunMoves DEF FailRun, Refuse
    <2> QED
        BY <2>1
<1>3. CASE InspectExact(r) \/ CreateExact(r)
    <2>1. stage[r] \in {"inspect", "create"} /\ ~mirror[r] /\ digest[r] \in Run
          /\ digest' = digest
        BY <1>0, <1>3 DEF InspectExact, CreateExact, SuccessInv, RunInv
    <2>2. CASE Promoted(r)
        <3>1. ghcr'[version[r]] = digest[r]
            <4>1. version[r] \in Tag
                BY <1>0 DEF Tag
            <4>2. CASE InspectExact(r) /\ ghcr[version[r]] = digest[r]
                BY <4>2 DEF InspectExact
            <4>3. CASE CreateExact(r)
                BY <1>0, <4>1, <4>3 DEF CreateExact, Shape
            <4>4. ASSUME InspectExact(r), ghcr[version[r]] # digest[r] PROVE FALSE
                <5>1. stage' = [stage EXCEPT ![r] = "create"]
                    BY <4>4 DEF InspectExact
                <5> QED
                    BY <1>0, <2>2, <5>1, PromotedMoves DEF Shape
            <4> QED
                BY <1>3, <4>2, <4>3, <4>4
        <3>2. CASE EndRun(r, "succeeded") /\ mirror' = mirror
            <4>1. stage'[r] = "succeeded"
                BY <1>0, <3>2, EndRunMoves
            <4>2. ~mirror'[r]
                BY <2>1, <3>2
            <4>3. Published(r)'
                BY <1>0, <2>1, <3>1, <4>2 DEF Published
            <4> QED
                BY <3>2, <4>1, <4>3
        <3>3. CASE /\ stage' = [stage EXCEPT ![r] = "mirror"]
                   /\ mirror' = [mirror EXCEPT ![r] = TRUE]
            <4>1. stage'[r] = "mirror"
                BY <1>0, <3>3 DEF Shape
            <4> QED
                BY <3>3, <4>1
        <3> QED
            BY <2>2, <3>2, <3>3 DEF Promoted
    <2>3. CASE stage' = [stage EXCEPT ![r] = "create"] /\ mirror' = mirror
        <3>1. stage'[r] = "create"
            BY <1>0, <2>3 DEF Shape
        <3> QED
            BY <2>1, <2>3, <3>1
    <2> QED
        BY <1>3, <2>2, <2>3 DEF InspectExact, CreateExact
<1>4. CASE InspectMirror(r) \/ CopyExact(r)
    <2>1. /\ mirror' = mirror /\ digest' = digest /\ ghcr' = ghcr
          /\ digest[r] \in Run /\ ghcr[version[r]] = digest[r]
        BY <1>0, <1>4 DEF InspectMirror, CopyExact, RunInv
    <2>2. version[r] \in Tag
        BY <1>0 DEF Tag
    <2>3. stage'[r] \in {"copy", "succeeded"}
        BY <1>0, <1>4, EndRunMoves DEF InspectMirror, CopyExact, Shape
    <2>4. stage'[r] = "succeeded" => hub'[version[r]] = digest[r]
        <3>1. CASE CopyExact(r)
            BY <1>0, <2>2, <3>1 DEF CopyExact, Shape
        <3>2. CASE InspectMirror(r)
            BY <1>0, <3>2 DEF InspectMirror, Shape
        <3> QED
            BY <1>4, <3>1, <3>2
    <2>5. stage'[r] = "succeeded" => Published(r)'
        BY <1>0, <2>1, <2>4 DEF Published
    <2> QED
        BY <2>1, <2>3, <2>5
<1> QED
    BY <1>1, <1>2, <1>3, <1>4 DEF Transaction

\* What a step does to a run that does not take it.
Bystander(q) ==
    /\ stage[q] = "succeeded" => stage'[q] = "succeeded"
    /\ stage'[q] = "succeeded" => stage[q] = "succeeded"
    /\ stage'[q] \in Unpromoted => stage[q] \in Unpromoted
    /\ version'[q] = version[q] \/ stage[q] = "idle"
    /\ digest'[q] = digest[q]
    /\ mirror'[q] = mirror[q]

\* A step of another run takes nothing from a run that has published.
LEMMA BystanderKeeps ==
    ASSUME IInv, IInv', SuccessInv, [Next]_vars, NEW q \in Run, Bystander(q)
    PROVE  /\ stage'[q] \in Unpromoted => ~mirror'[q]
           /\ stage'[q] = "succeeded" => Published(q)'
<1>1. stage'[q] \in Unpromoted => ~mirror'[q]
    BY DEF Bystander, SuccessInv
<1>2. ASSUME stage'[q] = "succeeded" PROVE Published(q)'
    <2>1. stage[q] = "succeeded" /\ Published(q)
        BY <1>2 DEF Bystander, SuccessInv
    <2>2. version[q] \in Version
        BY <2>1 DEF IInv, RunInv
    <2> QED
        BY <2>1, <2>2, StaysPublished DEF Bystander
<1> QED
    BY <1>1, <1>2

\* Every step keeps what successful and almost successful runs have published.
LEMMA NextSuccess == IInv /\ IInv' /\ SuccessInv /\ [Next]_vars => SuccessInv'
<1> SUFFICES ASSUME IInv, IInv', SuccessInv, [Next]_vars PROVE SuccessInv'
    OBVIOUS
<1>1. ASSUME NEW r \in Run, Transaction(r) \/ FailRun(r) \/ Refuse(r)
      PROVE  SuccessInv'
    <2>1. /\ mirror' = mirror \/ mirror' = [mirror EXCEPT ![r] = TRUE]
          /\ stage'[r] \in Unpromoted => mirror' = mirror /\ stage[r] \in Unpromoted
          /\ stage'[r] = "succeeded" => Published(r)'
        BY <1>1, OwnSuccess
    <2>2. /\ stage[r] \in Locked /\ Moves(r) /\ version' = version
          /\ \A q \in Run \ {r} : digest'[q] = digest[q]
        BY <1>1, OwnStep
    <2>3. mirror' \in [Run -> BOOLEAN] /\ \A q \in Run \ {r} : mirror'[q] = mirror[q]
        BY <2>1 DEF SuccessInv
    <2>4. stage'[r] \in Unpromoted => ~mirror'[r]
        BY <2>1 DEF SuccessInv
    <2>5. ASSUME NEW q \in Run, q # r PROVE Bystander(q)
        BY <2>2, <2>3, <2>5 DEF Moves, Bystander, Unpromoted
    <2> QED
        BY <2>1, <2>3, <2>4, <2>5, BystanderKeeps DEF SuccessInv
<1>2. ASSUME NEW r \in Run, NEW v \in Version, NEW checksum \in Checksum,
             Prepare(r, v, checksum)
      PROVE  SuccessInv'
    <2> DEFINE replaced == {q \in Run : stage[q] = "queued" /\ version[q] = v}
    <2>1. /\ stage[r] = "idle" /\ UNCHANGED <<digest, mirror>>
          /\ version' = [version EXCEPT ![r] = v]
          /\ \/ stage' = [stage EXCEPT ![r] = "check"]
             \/ stage' = [q \in Run |-> IF q = r THEN "queued"
                                        ELSE IF q \in replaced THEN "cancelled"
                                        ELSE stage[q]]
        BY <1>2 DEF Prepare
    <2>2. ASSUME NEW q \in Run PROVE Bystander(q)
        BY <2>1 DEF Bystander, Unpromoted, IInv, Shape
    <2> QED
        BY <2>1, <2>2, BystanderKeeps DEF SuccessInv
<1>3. ASSUME UNCHANGED runVars PROVE SuccessInv'
    <2>1. ASSUME NEW q \in Run PROVE Bystander(q)
        BY <1>3 DEF Bystander, runVars
    <2> QED
        BY <1>3, <2>1, BystanderKeeps DEF SuccessInv, runVars
<1> QED
    BY <1>1, <1>2, <1>3
    DEF Next, vars, Schedule, Reconcile, Enumerate, VerifySources, ApplyFloating,
        HubInspect, HubCopy, GhcrApplied, HubApplied, FailReconciliation

\* release.yml: a run that ends with success has published its version on each
\* enabled registry, and nothing has taken it away since.
THEOREM SuccessesPublished == Spec => []SuccessIsPublished
<1>1. Init => SuccessInv
    <2>1. ASSUME Init PROVE mirror \in [Run -> BOOLEAN]
        BY <2>1, Zenon DEF Init
    <2> QED
        BY <2>1 DEF Init, SuccessInv
<1>2. SuccessInv => SuccessIsPublished
    BY DEF SuccessInv, Published, SuccessIsPublished
<1> QED
    BY <1>1, <1>2, InvariantHolds, NextSuccess, PTL DEF Spec

-----------------------------------------------------------------------------
(* The floating tags *)

HIDE ReleaseAssumption DEF ReleaseAssumption

\* What a floating tag of either registry names: a stable version of its series
\* that GHCR has.
NamesRelease(image, tag) ==
    image # None =>
        \E v \in Version : Stable(v) /\ InSeries(v, tag) /\ ghcr[v] = image

\* The running reconciliation has it on its list, too.
Enumerated(image, tag) ==
    image # None => \E v \in Found : InSeries(v, tag) /\ source[v] = image

\* A reconciliation never works from a list without a version that a floating
\* tag already names, and applies only what that list calls for.
FloatInv ==
    /\ \A t \in Floating : NamesRelease(ghcr[t], t) /\ NamesRelease(hub[t], t)
    /\ \A v \in Found : Stable(v)
    /\ recStage \in {"verify", "apply", "hub", "hubCopy"} =>
          \A t \in Floating : Enumerated(ghcr[t], t) /\ Enumerated(hub[t], t)
    /\ recStage \in {"apply", "hub", "hubCopy"} => todo \cap Floating \subseteq FloatingPlan

\* semver_cmp, written out for the three numbers of a version.
LEMMA NewerByFields ==
    ASSUME NEW v \in Version, NEW w \in Version
    PROVE  /\ \A i \in 1..3 : v[i] \in Nat /\ w[i] \in Nat
           /\ Newer(v, w) <=> \/ v[1] > w[1]
                              \/ v[1] = w[1] /\ v[2] > w[2]
                              \/ v[1] = w[1] /\ v[2] = w[2] /\ v[3] > w[3]
<1>1. \A i \in 1..3 : v[i] \in Nat /\ w[i] \in Nat
    <2>1. ASSUME NEW u \in Version, NEW i \in 1..3 PROVE u[i] \in Nat
        <3>1. u \in Seq(Nat) /\ Len(u) \in {3, 4}
            BY ReleaseAssumption DEF ReleaseAssumption
        <3>2. \A n \in {3, 4} : i \in 1..n
            OBVIOUS
        <3>3. i \in 1..Len(u)
            BY <3>1, <3>2, Zenon
        <3> QED
            BY <3>1, <3>3
    <2> QED
        BY <2>1
<1>2. ASSUME Newer(v, w)
      PROVE  \/ v[1] > w[1]
             \/ v[1] = w[1] /\ v[2] > w[2]
             \/ v[1] = w[1] /\ v[2] = w[2] /\ v[3] > w[3]
    <2>1. PICK i \in 1..3 : v[i] > w[i] /\ \A j \in 1..(i - 1) : v[j] = w[j]
        BY <1>2 DEF Newer
    <2>2. i = 1 \/ i = 2 \/ i = 3
        OBVIOUS
    <2> QED
        BY <2>1, <2>2
<1>3. ASSUME \/ v[1] > w[1]
             \/ v[1] = w[1] /\ v[2] > w[2]
             \/ v[1] = w[1] /\ v[2] = w[2] /\ v[3] > w[3]
      PROVE  \E i \in 1..3 : v[i] > w[i] /\ \A j \in 1..(i - 1) : v[j] = w[j]
    <2>1. CASE v[1] > w[1]
        <3>1. 1 \in 1..3 /\ \A j \in 1..(1 - 1) : v[j] = w[j]
            OBVIOUS
        <3> QED
            BY <2>1, <3>1
    <2>2. CASE v[1] = w[1] /\ v[2] > w[2]
        <3>1. 2 \in 1..3 /\ \A j \in 1..(2 - 1) : v[j] = w[j]
            BY <2>2
        <3> QED
            BY <2>2, <3>1
    <2>3. CASE v[1] = w[1] /\ v[2] = w[2] /\ v[3] > w[3]
        <3>1. 3 \in 1..3 /\ \A j \in 1..(3 - 1) : v[j] = w[j]
            BY <2>3
        <3> QED
            BY <2>3, <3>1
    <2> QED
        BY <1>3, <2>1, <2>2, <2>3
<1> QED
    BY <1>1, <1>2, <1>3 DEF Newer

\* No version is newer than itself, or than one that is newer than it.
LEMMA NewerOrders ==
    /\ \A v \in Version : ~Newer(v, v)
    /\ \A u, v, w \in Version : Newer(u, v) /\ Newer(v, w) => Newer(u, w)
<1>1. ASSUME NEW v \in Version PROVE ~Newer(v, v)
    BY NewerByFields
<1>2. ASSUME NEW u \in Version, NEW v \in Version, NEW w \in Version,
             Newer(u, v), Newer(v, w)
      PROVE  Newer(u, w)
    <2>1. \A i \in 1..3 : u[i] \in Nat /\ v[i] \in Nat /\ w[i] \in Nat
        BY NewerByFields
    <2>2. \/ u[1] > v[1]
          \/ u[1] = v[1] /\ u[2] > v[2]
          \/ u[1] = v[1] /\ u[2] = v[2] /\ u[3] > v[3]
        BY <1>2, NewerByFields
    <2>3. \/ v[1] > w[1]
          \/ v[1] = w[1] /\ v[2] > w[2]
          \/ v[1] = w[1] /\ v[2] = w[2] /\ v[3] > w[3]
        BY <1>2, NewerByFields
    <2>4. \/ u[1] > w[1]
          \/ u[1] = w[1] /\ u[2] > w[2]
          \/ u[1] = w[1] /\ u[2] = w[2] /\ u[3] > w[3]
        BY <2>1, <2>2, <2>3
    <2> QED
        BY <2>4, NewerByFields
<1> QED
    BY <1>1, <1>2

\* A reconciliation finds finitely many versions: each has an image that a run
\* of its own built.
LEMMA FoundFinite ==
    ASSUME IInv
    PROVE  IsFiniteSet(Found)
<1> DEFINE image == [v \in Found |-> source[v]]
           Built == {source[v] : v \in Found}
<1>1. ASSUME NEW v \in Found
      PROVE  source[v] \in Run /\ version[source[v]] = v
    BY ReleaseAssumption DEF IInv, TagInv, Found, ReleaseAssumption
<1>2. IsFiniteSet(Built)
    <2>1. Built \subseteq Run
        BY <1>1
    <2> QED
        BY <2>1, FS_Subset, ReleaseAssumption DEF ReleaseAssumption
<1> DEFINE release == [d \in Built |-> version[d]]
<1>3. release \in Surjection(Built, Found)
    <2>1. \A d \in Built : version[d] \in Found
        BY <1>1
    <2>2. \A v \in Found : source[v] \in Built /\ version[source[v]] = v
        BY <1>1
    <2> QED
        BY <2>1, <2>2 DEF Surjection
<1> QED
    BY <1>2, <1>3, FS_Surjection

\* compute_plan: a floating tag of the plan has a newest version among those
\* found, and that one is planned for it.
LEMMA PlannedIsNewest ==
    ASSUME IInv, NEW t \in FloatingPlan
    PROVE  /\ Planned(t) \in Found /\ InSeries(Planned(t), t)
           /\ \A w \in Found : InSeries(w, t) => ~Newer(w, Planned(t))
<1> DEFINE Series == {v \in Found : InSeries(v, t)}
           R == {p \in Version \X Version : Newer(p[1], p[2])}
<1>1. Series \subseteq Version /\ Series # {}
    BY DEF Found, FloatingPlan
<1>2. IsFiniteSet(Series)
    BY FoundFinite, FS_Subset
<1>3. \A x, y \in Version : <<x, y>> \in R <=> Newer(x, y)
    OBVIOUS
<1> HIDE DEF Series, R
<1>4. \A x \in Series : <<x, x>> \notin R
    BY <1>1, <1>3, NewerOrders
<1>5. \A x, y, z \in Series : <<x, y>> \in R /\ <<y, z>> \in R => <<x, z>> \in R
    BY <1>1, <1>3, NewerOrders
<1>6. \E v \in Series : \A w \in Series : <<w, v>> \notin R
    BY <1>1, <1>2, <1>4, <1>5, FiniteMaximum
<1>7. \E v \in Series : \A w \in Series : ~Newer(w, v)
    BY <1>1, <1>3, <1>6
<1>8. \E v \in Found : InSeries(v, t) /\ \A w \in Found : InSeries(w, t) => ~Newer(w, v)
    BY <1>7 DEF Series
<1> QED
    BY <1>8 DEF Planned


\* At the start no floating tag is there, on either registry.
LEMMA InitFloating == Init => FloatInv
<1> SUFFICES ASSUME Init PROVE FloatInv
    OBVIOUS
<1>1. \A t \in Floating : ghcr[t] = None /\ hub[t] = None
    BY DEF Init, Tag
<1>2. Found = {}
    BY DEF Init, Found
<1>3. recStage = "idle"
    BY DEF Init
<1> QED
    BY <1>1, <1>2, <1>3 DEF FloatInv, NamesRelease

\* No step takes away the exact tag that a floating tag names.
LEMMA NamesReleaseKept ==
    ASSUME IInv, [Next]_vars, NEW image, NEW tag, NamesRelease(image, tag)
    PROVE  NamesRelease(image, tag)'
<1>1. CASE image = None
    BY <1>1 DEF NamesRelease
<1>2. CASE image # None
    <2>1. PICK v \in Version : Stable(v) /\ InSeries(v, tag) /\ ghcr[v] = image
        BY <1>2 DEF NamesRelease
    <2>2. ghcr'[v] = image
        BY <1>2, <2>1, NextTags
    <2> QED
        BY <2>1, <2>2 DEF NamesRelease, Stable, InSeries
<1> QED
    BY <1>1, <1>2

\* What a floating tag names stays a release while the tag is not moved.
LEMMA FloatingKept ==
    ASSUME IInv, FloatInv, [Next]_vars, NEW t \in Floating,
           ghcr'[t] = ghcr[t], hub'[t] = hub[t]
    PROVE  NamesRelease(ghcr[t], t)' /\ NamesRelease(hub[t], t)'
<1>1. NamesRelease(ghcr[t], t) /\ NamesRelease(hub[t], t)
    BY DEF FloatInv
<1>2. PICK image : image = ghcr[t]
    OBVIOUS
<1>3. PICK mirrored : mirrored = hub[t]
    OBVIOUS
<1>4. NamesRelease(image, t)' /\ NamesRelease(mirrored, t)'
    BY <1>1, <1>2, <1>3, NamesReleaseKept
<1> QED
    BY <1>2, <1>3, <1>4 DEF NamesRelease

\* A step that moves no floating tag and no list keeps both in step.
LEMMA FloatingAlone ==
    ASSUME IInv, FloatInv, [Next]_vars, RecKept,
           \A t \in Floating : ghcr'[t] = ghcr[t] /\ hub'[t] = hub[t]
    PROVE  FloatInv'
<1>1. ASSUME NEW t \in Floating
      PROVE  NamesRelease(ghcr[t], t)' /\ NamesRelease(hub[t], t)'
    BY FloatingKept
<1>2. Found' = Found /\ FloatingPlan' = FloatingPlan
    BY DEF Found, FloatingPlan, RecKept
<1>3. \A v \in Found' : Stable(v)
    BY <1>2 DEF FloatInv
<1>4. recStage' \in {"verify", "apply", "hub", "hubCopy"} =>
          \A t \in Floating : Enumerated(ghcr[t], t)' /\ Enumerated(hub[t], t)'
    BY <1>2 DEF FloatInv, Enumerated, RecKept
<1>5. recStage' \in {"apply", "hub", "hubCopy"} => todo' \cap Floating \subseteq FloatingPlan'
    BY <1>2 DEF FloatInv, RecKept
<1> QED
    BY <1>1, <1>3, <1>4, <1>5 DEF FloatInv


\* A release run writes exact tags only, and leaves a reconciliation alone.
LEMMA RunsSpareFloating ==
    ASSUME IInv, NEW r \in Run,
           \/ \E v \in Version, checksum \in Checksum : Prepare(r, v, checksum)
           \/ Transaction(r) \/ FailRun(r) \/ Refuse(r)
    PROVE  RecKept /\ \A t \in Floating : ghcr'[t] = ghcr[t] /\ hub'[t] = hub[t]
<1>1. ASSUME NEW v \in Version, NEW checksum \in Checksum, Prepare(r, v, checksum)
      PROVE  RecKept /\ UNCHANGED <<ghcr, hub>>
    BY <1>1 DEF Prepare, EnterReconciliation, RecKept, recVars
<1>2. Promoted(r) => RecKept
    BY EndRunRec DEF Promoted, RecKept, recVars
<1>3. CASE CheckExisting(r) \/ Build(r) \/ ScanAndSign(r) \/ VerifyAndSmoke(r)
    BY <1>3 DEF CheckExisting, Build, ScanAndSign, VerifyAndSmoke, GoTo, RecKept, recVars
<1>4. CASE InspectExact(r)
    BY <1>2, <1>4 DEF InspectExact, RecKept, recVars
<1>5. CASE InspectMirror(r)
    BY <1>5, EndRunRec DEF InspectMirror, RecKept, recVars
<1>6. CASE FailRun(r) \/ Refuse(r)
    BY <1>6, EndRunRec DEF FailRun, Refuse
<1>7. stage[r] \in Locked => version[r] \in Version
    BY DEF IInv, RunInv, Locked
<1>8. CASE CreateExact(r)
    <2>1. \A t \in Floating : t # version[r]
        BY <1>7, <1>8, FloatingNotVersion DEF CreateExact, Locked
    <2> QED
        BY <1>2, <1>8, <2>1 DEF CreateExact, IInv, Shape, Tag
<1>9. CASE CopyExact(r)
    <2>1. \A t \in Floating : t # version[r]
        BY <1>7, <1>9, FloatingNotVersion DEF CopyExact, Locked
    <2> QED
        BY <1>9, <2>1, EndRunRec DEF CopyExact, IInv, Shape, Tag
<1> QED
    BY <1>1, <1>3, <1>4, <1>5, <1>6, <1>8, <1>9 DEF Transaction

\* A reconciliation that ends keeps the floating tags and forgets its list.
LEMMA LeaveFloating ==
    ASSUME IInv, FloatInv, [Next]_vars, LeaveReconciliation, UNCHANGED <<ghcr, hub>>
    PROVE  FloatInv'
<1>1. \A t \in Floating : NamesRelease(ghcr[t], t)' /\ NamesRelease(hub[t], t)'
    BY DEF FloatInv, NamesRelease
<1>2. recStage' \in {"idle", "started"} /\ source' = [v \in Version |-> None]
    BY LeaveRec
<1>3. Found' = {}
    BY <1>2 DEF Found
<1> QED
    BY <1>1, <1>2, <1>3 DEF FloatInv

\* discover: what the floating tags name is published, so the list has it.
LEMMA EnumerateFloating ==
    ASSUME IInv, FloatInv, [Next]_vars, Enumerate
    PROVE  FloatInv'
<1>1. /\ source' = [v \in Version |-> IF Stable(v) THEN ghcr[v] ELSE None]
      /\ recStage' = "verify" /\ UNCHANGED <<ghcr, hub>>
    BY DEF Enumerate
<1>2. \A t \in Floating : NamesRelease(ghcr[t], t)' /\ NamesRelease(hub[t], t)'
    BY <1>1 DEF FloatInv, NamesRelease
<1>3. \A v \in Found' : Stable(v)
    BY <1>1 DEF Found
<1>4. ASSUME NEW image, NEW t \in Floating, NamesRelease(image, t)
      PROVE  Enumerated(image, t)'
    <2> SUFFICES ASSUME image # None
                 PROVE  \E v \in Found' : InSeries(v, t) /\ source'[v] = image
        BY DEF Enumerated
    <2>1. PICK v \in Version : Stable(v) /\ InSeries(v, t) /\ ghcr[v] = image
        BY <1>4 DEF NamesRelease
    <2>2. source'[v] = image /\ v \in Found'
        BY <1>1, <2>1 DEF Found
    <2> QED
        BY <2>1, <2>2
<1>5. \A t \in Floating : Enumerated(ghcr[t], t)' /\ Enumerated(hub[t], t)'
    <2> SUFFICES ASSUME NEW t \in Floating
                 PROVE  Enumerated(ghcr[t], t)' /\ Enumerated(hub[t], t)'
        OBVIOUS
    <2>1. PICK image : image = ghcr[t]
        OBVIOUS
    <2>2. PICK mirrored : mirrored = hub[t]
        OBVIOUS
    <2>3. Enumerated(image, t)' /\ Enumerated(mirrored, t)'
        BY <1>4, <2>1, <2>2 DEF FloatInv
    <2> QED
        BY <1>1, <2>1, <2>2, <2>3 DEF Enumerated
<1> QED
    BY <1>1, <1>2, <1>3, <1>5 DEF FloatInv

\* A step within a reconciliation that moves no floating tag: the verification of
\* the list, the turn to Docker Hub, and an exact tag that is copied there.
LEMMA PlanFloating ==
    ASSUME IInv, FloatInv, [Next]_vars, source' = source,
           \A t \in Floating : ghcr'[t] = ghcr[t] /\ hub'[t] = hub[t],
           recStage \in {"verify", "apply", "hub", "hubCopy"},
           recStage' \in {"apply", "hub", "hubCopy"},
           todo' \cap Floating \subseteq FloatingPlan
    PROVE  FloatInv'
<1>1. Found' = Found /\ FloatingPlan' = FloatingPlan
    BY DEF Found, FloatingPlan
<1>2. ASSUME NEW t \in Floating
      PROVE  NamesRelease(ghcr[t], t)' /\ NamesRelease(hub[t], t)'
    BY FloatingKept
<1>3. \A t \in Floating : Enumerated(ghcr[t], t)' /\ Enumerated(hub[t], t)'
    BY <1>1 DEF FloatInv, Enumerated
<1> QED
    BY <1>1, <1>2, <1>3 DEF FloatInv


\* What is written under a floating tag: the image of the newest version of its
\* series that the reconciliation has found, which GHCR still has.
LEMMA WantedByFloating ==
    ASSUME IInv, FloatInv, recStage \in {"apply", "hub", "hubCopy"},
           NEW t \in Floating, t \in todo
    PROVE  /\ Planned(t) \in Found /\ Stable(Planned(t)) /\ InSeries(Planned(t), t)
           /\ \A w \in Found : InSeries(w, t) => ~Newer(w, Planned(t))
           /\ Wanted(t) = source[Planned(t)] /\ Wanted(t) # None
           /\ ghcr[Planned(t)] = Wanted(t) /\ version[Wanted(t)] = Planned(t)
<1>1. t \in FloatingPlan
    BY DEF FloatInv
<1>2. /\ Planned(t) \in Found /\ InSeries(Planned(t), t)
      /\ \A w \in Found : InSeries(w, t) => ~Newer(w, Planned(t))
    BY <1>1, PlannedIsNewest
<1>3. Wanted(t) = source[Planned(t)]
    BY FloatingNotVersion DEF Wanted
<1>4. Planned(t) \in Version /\ source[Planned(t)] # None
    BY <1>2 DEF Found
<1>5. Stable(Planned(t))
    BY <1>2 DEF FloatInv
<1>6. ghcr[Planned(t)] = source[Planned(t)] /\ version[ghcr[Planned(t)]] = Planned(t)
    BY <1>4 DEF IInv, TagInv
<1> QED
    BY <1>2, <1>3, <1>4, <1>5, <1>6

\* One floating tag of one registry is moved to what is wanted for it.
LEMMA MoveFloating ==
    ASSUME IInv, FloatInv, [Next]_vars, recStage \in {"apply", "hub", "hubCopy"},
           recStage' \in {"apply", "hub", "hubCopy"}, source' = source, todo' \subseteq todo,
           NEW t \in Floating, t \in todo,
           \A u \in Floating : ghcr'[u] = ghcr[u] \/ (u = t /\ ghcr'[u] = Wanted(t)),
           \A u \in Floating : hub'[u] = hub[u] \/ (u = t /\ hub'[u] = Wanted(t))
    PROVE  FloatInv'
<1>1. Found' = Found /\ FloatingPlan' = FloatingPlan
    BY DEF Found, FloatingPlan
<1> DEFINE p == Planned(t)
<1>2. /\ p \in Found /\ p \in Version /\ Stable(p) /\ InSeries(p, t)
      /\ source[p] = Wanted(t) /\ ghcr[p] = Wanted(t)
    BY WantedByFloating DEF Found
<1> HIDE DEF p
<1>3. ASSUME NEW image, NEW u \in Floating,
             \/ NamesRelease(image, u) /\ Enumerated(image, u)
             \/ u = t /\ image = Wanted(t)
      PROVE  NamesRelease(image, u)' /\ Enumerated(image, u)'
    <2>1. NamesRelease(image, u) /\ Enumerated(image, u)
        BY <1>2, <1>3 DEF NamesRelease, Enumerated
    <2>2. NamesRelease(image, u)'
        BY <2>1, NamesReleaseKept
    <2>3. Enumerated(image, u)'
        BY <1>1, <2>1 DEF Enumerated
    <2> QED
        BY <2>2, <2>3
<1>4. ASSUME NEW u \in Floating
      PROVE  /\ NamesRelease(ghcr[u], u)' /\ Enumerated(ghcr[u], u)'
             /\ NamesRelease(hub[u], u)' /\ Enumerated(hub[u], u)'
    <2>1. PICK image : image = ghcr'[u]
        OBVIOUS
    <2>2. PICK mirrored : mirrored = hub'[u]
        OBVIOUS
    <2>3. /\ NamesRelease(ghcr[u], u) /\ Enumerated(ghcr[u], u)
          /\ NamesRelease(hub[u], u) /\ Enumerated(hub[u], u)
        BY DEF FloatInv
    <2>4. \/ NamesRelease(image, u) /\ Enumerated(image, u)
          \/ u = t /\ image = Wanted(t)
        BY <2>1, <2>3
    <2>5. \/ NamesRelease(mirrored, u) /\ Enumerated(mirrored, u)
          \/ u = t /\ mirrored = Wanted(t)
        BY <2>2, <2>3
    <2>6. NamesRelease(image, u)' /\ Enumerated(image, u)'
        BY <1>3, <2>4
    <2>7. NamesRelease(mirrored, u)' /\ Enumerated(mirrored, u)'
        BY <1>3, <2>5
    <2> QED
        BY <2>1, <2>2, <2>6, <2>7 DEF NamesRelease, Enumerated
<1>5. (\A v \in Found : Stable(v))' /\ todo' \cap Floating \subseteq FloatingPlan'
    BY <1>1 DEF FloatInv
<1> QED
    BY <1>4, <1>5 DEF FloatInv

\* The steps of the reconciliation that move a floating tag, or an exact one of
\* Docker Hub.
LEMMA TagMoves ==
    ASSUME IInv, FloatInv, [Next]_vars, NEW t \in Tag,
           ApplyFloating(t) \/ HubCopy(t)
    PROVE  /\ recStage \in {"apply", "hub", "hubCopy"}
           /\ recStage' \in {"apply", "hub", "hubCopy"}
           /\ source' = source /\ todo' \subseteq todo /\ t \in todo
           /\ t \in Version \/ t \in Floating
           /\ t \in Version =>
                  \A u \in Floating : ghcr'[u] = ghcr[u] /\ hub'[u] = hub[u]
           /\ \A u \in Floating : ghcr'[u] = ghcr[u] \/ (u = t /\ ghcr'[u] = Wanted(t))
           /\ \A u \in Floating : hub'[u] = hub[u] \/ (u = t /\ hub'[u] = Wanted(t))
<1>1. /\ ghcr = [u \in Tag |-> ghcr[u]] /\ hub = [u \in Tag |-> hub[u]]
      /\ Floating \subseteq Tag
    BY DEF IInv, Shape, Tag
<1>2. CASE ApplyFloating(t)
    BY <1>1, <1>2, FloatingNotVersion DEF ApplyFloating, IsNext, Tag
<1>3. CASE HubCopy(t)
    BY <1>1, <1>3, FloatingNotVersion DEF HubCopy, IsNext, Tag
<1> QED
    BY <1>2, <1>3

\* Every step keeps the floating tags and the lists in step.
LEMMA NextFloating == IInv /\ FloatInv /\ [Next]_vars => FloatInv'
<1> SUFFICES ASSUME IInv, FloatInv, [Next]_vars PROVE FloatInv'
    OBVIOUS
<1>1. ASSUME NEW r \in Run,
             \/ \E v \in Version, checksum \in Checksum : Prepare(r, v, checksum)
             \/ Transaction(r) \/ FailRun(r) \/ Refuse(r)
      PROVE  FloatInv'
    BY <1>1, RunsSpareFloating, FloatingAlone
<1>2. CASE Schedule \/ UNCHANGED vars
    <2>1. RecKept /\ UNCHANGED <<ghcr, hub>>
        BY <1>2 DEF Schedule, EnterReconciliation, RecKept, vars, recVars
    <2> QED
        BY <2>1, FloatingAlone
<1>3. CASE FailReconciliation \/ HubApplied
    BY <1>3, LeaveFloating DEF FailReconciliation, HubApplied
<1>4. CASE Enumerate
    BY <1>4, EnumerateFloating
<1>5. CASE VerifySources
    BY <1>5, PlanFloating DEF VerifySources
<1>6. CASE GhcrApplied
    <2>1. CASE LeaveReconciliation
        BY <1>6, <2>1, LeaveFloating DEF GhcrApplied
    <2>2. CASE recStage' = "hub" /\ todo' = Found \cup FloatingPlan /\ source' = source
        <3>1. todo' \cap Floating \subseteq FloatingPlan
            BY <2>2, FloatingNotVersion DEF Found
        <3> QED
            BY <1>6, <2>2, <3>1, PlanFloating DEF GhcrApplied
    <2> QED
        BY <1>6, <2>1, <2>2 DEF GhcrApplied
<1>7. ASSUME NEW t \in Tag, HubInspect(t) PROVE FloatInv'
    BY <1>7, PlanFloating DEF HubInspect, FloatInv
<1>8. ASSUME NEW t \in Tag, ApplyFloating(t) \/ HubCopy(t) PROVE FloatInv'
    <2>1. CASE t \in Floating
        BY <1>8, <2>1, TagMoves, MoveFloating
    <2>2. CASE t \in Version
        <3>1. todo' \cap Floating \subseteq FloatingPlan
            BY <1>8, TagMoves DEF FloatInv
        <3>2. \A u \in Floating : ghcr'[u] = ghcr[u] /\ hub'[u] = hub[u]
            BY <1>8, <2>2, TagMoves
        <3> QED
            BY <1>8, <2>2, <3>1, <3>2, TagMoves, PlanFloating
    <2> QED
        BY <1>8, <2>1, <2>2, TagMoves
<1> QED
    BY <1>1, <1>2, <1>3, <1>4, <1>5, <1>6, <1>7, <1>8 DEF Next, Reconcile


\* Two floating tags after one another are ordered, if both are on the list of
\* one reconciliation and the later is the newest of it.
LEMMA NeverOlder ==
    ASSUME IInv, FloatInv, NEW t \in Floating, NEW old, NEW new,
           old # None, NamesRelease(old, t),
           \/ new = old
           \/ /\ recStage \in {"apply", "hub", "hubCopy"} /\ t \in todo
              /\ Enumerated(old, t) /\ new = Wanted(t)
    PROVE  new # None /\ ~Newer(version[old], version[new])
<1>1. CASE new = old
    <2>1. PICK v \in Version : ghcr[v] = old
        BY DEF NamesRelease
    <2>2. version[old] = v
        BY <2>1 DEF IInv, TagInv
    <2> QED
        BY <1>1, <2>2, NewerOrders
<1>2. CASE /\ recStage \in {"apply", "hub", "hubCopy"} /\ t \in todo
           /\ Enumerated(old, t) /\ new = Wanted(t)
    <2>1. PICK v \in Found : InSeries(v, t) /\ source[v] = old
        BY <1>2 DEF Enumerated
    <2>2. version[old] = v
        BY <2>1 DEF IInv, TagInv, Found
    <2>3. /\ \A w \in Found : InSeries(w, t) => ~Newer(w, Planned(t))
          /\ new # None /\ version[new] = Planned(t)
        BY <1>2, WantedByFloating
    <2> QED
        BY <2>1, <2>2, <2>3
<1> QED
    BY <1>1, <1>2

\* The floating tags of both registries under every step.
LEMMA FloatingSteps ==
    ASSUME IInv, FloatInv, [Next]_vars, NEW t \in Floating
    PROVE  /\ \/ ghcr'[t] = ghcr[t]
              \/ /\ recStage \in {"apply", "hub", "hubCopy"} /\ t \in todo
                 /\ ghcr'[t] = Wanted(t)
           /\ \/ hub'[t] = hub[t]
              \/ /\ recStage \in {"apply", "hub", "hubCopy"} /\ t \in todo
                 /\ hub'[t] = Wanted(t)
<1>1. ASSUME NEW r \in Run,
             \/ \E v \in Version, checksum \in Checksum : Prepare(r, v, checksum)
             \/ Transaction(r) \/ FailRun(r) \/ Refuse(r)
      PROVE  ghcr'[t] = ghcr[t] /\ hub'[t] = hub[t]
    BY <1>1, RunsSpareFloating
<1>2. ASSUME NEW u \in Tag, ApplyFloating(u) \/ HubCopy(u)
      PROVE  /\ \/ ghcr'[t] = ghcr[t]
                \/ /\ recStage \in {"apply", "hub", "hubCopy"} /\ t \in todo
                   /\ ghcr'[t] = Wanted(t)
             /\ \/ hub'[t] = hub[t]
                \/ /\ recStage \in {"apply", "hub", "hubCopy"} /\ t \in todo
                   /\ hub'[t] = Wanted(t)
    BY <1>2, TagMoves
<1>3. ASSUME NEW u \in Tag, HubInspect(u) PROVE ghcr' = ghcr /\ hub' = hub
    BY <1>3 DEF HubInspect
<1>4. CASE \/ Schedule \/ UNCHANGED vars \/ FailReconciliation \/ HubApplied \/ Enumerate
           \/ VerifySources \/ GhcrApplied
    BY <1>4 DEF Schedule, vars, FailReconciliation, HubApplied, Enumerate, VerifySources,
                GhcrApplied
<1> QED
    BY <1>1, <1>2, <1>3, <1>4 DEF Next, Reconcile

\* Along every behaviour the reconciliation's list has what floating tags name.
LEMMA FloatingHolds == Spec => [](IInv /\ FloatInv)
<1>1. Init => IInv /\ FloatInv
    BY InitIInv, InitFloating
<1>2. IInv /\ FloatInv /\ [Next]_vars => (IInv /\ FloatInv)'
    BY NextIInv, NextFloating
<1> QED
    BY <1>1, <1>2, PTL DEF Spec

\* reconcile-release-tags.yml: a floating tag of GHCR only ever names a stable
\* version of its series that is published, however many releases there are.
THEOREM FloatingPublished == Spec => []FloatingIsPublished
<1>1. FloatInv => FloatingIsPublished
    BY DEF FloatInv, NamesRelease, FloatingIsPublished
<1> QED
    BY <1>1, FloatingHolds, PTL

\* compute_plan and the two apply steps: no floating tag, of either registry, goes
\* back to an older release, though the list it is moved by may be old by then.
THEOREM FloatingForward == Spec => FloatingNeverRegresses
<1>1. ASSUME IInv, FloatInv, [Next]_vars
      PROVE  [\A t \in Floating :
                /\ ghcr[t] # None =>
                      ghcr'[t] # None /\ ~Newer(version[ghcr[t]], version[ghcr'[t]])
                /\ hub[t] # None =>
                      hub'[t] # None /\ ~Newer(version[hub[t]], version[hub'[t]])]_vars
    <2>1. ASSUME NEW t \in Floating
          PROVE  /\ ghcr[t] # None =>
                       ghcr'[t] # None /\ ~Newer(version[ghcr[t]], version[ghcr'[t]])
                 /\ hub[t] # None =>
                       hub'[t] # None /\ ~Newer(version[hub[t]], version[hub'[t]])
        <3>1. /\ NamesRelease(ghcr[t], t) /\ NamesRelease(hub[t], t)
              /\ recStage \in {"apply", "hub", "hubCopy"} =>
                     Enumerated(ghcr[t], t) /\ Enumerated(hub[t], t)
            BY <1>1 DEF FloatInv
        <3>2. \/ ghcr'[t] = ghcr[t]
              \/ /\ recStage \in {"apply", "hub", "hubCopy"} /\ t \in todo
                 /\ ghcr'[t] = Wanted(t)
            BY <1>1, FloatingSteps
        <3>3. \/ hub'[t] = hub[t]
              \/ /\ recStage \in {"apply", "hub", "hubCopy"} /\ t \in todo
                 /\ hub'[t] = Wanted(t)
            BY <1>1, FloatingSteps
        <3>4. ASSUME ghcr[t] # None
              PROVE  ghcr'[t] # None /\ ~Newer(version[ghcr[t]], version[ghcr'[t]])
            BY <1>1, <3>1, <3>2, <3>4, NeverOlder
        <3>5. ASSUME hub[t] # None
              PROVE  hub'[t] # None /\ ~Newer(version[hub[t]], version[hub'[t]])
            BY <1>1, <3>1, <3>3, <3>5, NeverOlder
        <3> QED
            BY <3>4, <3>5
    <2> QED
        BY <2>1
<1> QED
    BY <1>1, FloatingHolds, PTL DEF Spec, FloatingNeverRegresses
=============================================================================
