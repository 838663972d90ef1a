# A verification project for ferrite-ops

TLA+ modules that model the concurrent and failure-prone parts of ferrite-ops,
TLC configurations that check them on small instances, and proofs checked by
TLAPS. Paths below are relative to the root of the repository.

Contents: [1 The system](#1-the-system) - [2 Modules](#2-modules-state-and-actions) -
[3 Runs](#3-runs) - [4 Fairness](#4-fairness) - [5 Proofs](#5-proofs) -
[6 Abstractions](#6-abstractions-bounds-and-what-is-not-modelled) -
[7 Divergences](#7-where-comments-and-code-disagree) - [8 Plan](#8-plan)

## 1 The system

ferrite-ops packages the Ferrite database (a Redis-compatible server that lives
in another repository): a public playground in one container, a tester
environment, a release pipeline, backup scripts, and charts, dashboards and other
scripts. Four parts keep state that several actors change at the same time, and
they are where the modelling effort goes, together with the decisions the
launcher takes on each command and each reply.

### 1.1 The playground launcher (`playground-launcher/src`)

PID 1 of the playground container. It starts Ferrite as its child on loopback,
waits until it answers PING, binds an HTTP port and a public RESP port, and
supervises all three until a signal or the first unexpected end.

| Component | State | Operations | Talks to |
|---|---|---|---|
| RESP proxy (`proxy.rs`) | connection semaphore; shared byte budget; per client the request being read, its reservation, its upstream connection | accept or refuse a client, read a command under the budget, apply the policy, take a backend permit, forward, answer | clients, the child, the shared pool, the shutdown channel |
| HTTP API (`http.rs`) | connection semaphore; per connection the permit and a lifetime | wait for a permit, accept, dispatch, run a handler, end a connection, drain | axum/hyper, the child, the shared pool |
| Shared backend pool (`main.rs`) | one semaphore of backend operations | `try_acquire_owned`, drop | both entry points |
| Key details (`keys.rs`) | what the answers so far said | TYPE, TTL, length and page in sequence under one permit | the child, whose other clients write to the key |
| Tokenizer (`command.rs`), command policy (`policy.rs`) | the scanner's, for one line; none | split a line into arguments; allow or refuse a command, bound its ranges | both entry points |
| RESP codec (`resp.rs`) | four budgets of the reply being decoded, the JSON budget | decode a reply, convert it to JSON, re-encode it | both entry points, the child |
| Life cycle and supervisor (`main.rs`, `supervisor.rs`) | the child, two service tasks, their join handles, the outcome | spawn, probe, bind, `select!`, SIGTERM then SIGKILL, join the services, exit code | the child, the services, Docker |

Hard here: a handler leaves at a dozen points and each must return what it
holds; two entry points share one semaphore; deadlines overlap; replies of
abandoned commands stay on a connection; a lost upstream connection loses the
selected database; the teardown must fit in Docker's ten seconds. One request of
the HTTP API passes a tokenizer that carries state, range arithmetic at the edges
of `i64`, a decoder whose input decides its recursion, two budgets of which one
predicts what a serializer prints, and reads of a key that others change.
Correct means: permits and bytes are conserved, argument buffers are paid for before
they exist, replies answer the right command, sessions are not silently replaced, an
admitted window is bounded, the decoder reads exactly one reply and charges what it
goes on to allocate, a converted value fits the response, a key detail says what
was true, nothing waits for ever on a peer, and an exit code of success is earned.

### 1.2 The tester's project lock (`scripts/tester.sh`)

Every tester command that touches Docker runs under a lock that is a directory
with an owner file in it. Invocations run concurrently, can be killed between
any two system calls, and recover the locks of dead owners. State: the
directory, the record, where each invocation stands. Correct means: one holder
at a time, no lock that nobody can recover unless someone was killed, and every
invocation ends.

### 1.3 The release pipeline (`.github/workflows`, `scripts/*.sh`)

`release.yml` builds, checks and signs a candidate image and promotes it to an
exact version tag on GHCR and Docker Hub, under a concurrency group per version.
`reconcile-release-tags.yml` derives the floating tags (`latest`, `major`,
`major.minor`) from all exact stable tags, on both registries, under one global
group; it runs after each Release run, weekly and by hand. State: the tags of
two registries, the runs and the concurrency groups. Correct means: an exact tag
was verified before it existed, never changes and agrees between registries;
floating tags name published stable releases, never go back, and catch up.

### 1.4 Backup and restore (`scripts/backup.sh`, `scripts/restore.sh`)

A backup stages copies of the checkpoint and the append-only file beside a running
server, writes them into an archive, uploads it and rotates old archives. A restore
verifies and extracts an archive, stops the server, sets the data directory aside,
clears it, copies the archive's files in and starts the server. Both run under
`set -e`, so any command can end them, and nothing keeps one from running during the
other. State: the data directory, the archives, the copies set aside, the server.
Correct means: what a restore replaces in the directory of a server that is down is
saved, rotation leaves the newest whole archive, and a restore that exits with 0 has
restored what a finished archive held.

### 1.5 The rest

Version sync, supersession and ops-tag workflows;
the tester's environment commands; other scripts and workflows; container
images, Helm charts, GitOps, Terraform, monitoring and packaging. Section 6 says
why each is not modelled, section 8 which are planned. `PROJECT.json` lists every
component with its sources, and every hazard with the line where it bites and
the properties that cover it.

## 2 Modules, state and actions

| Module | Models | Extends / uses |
|---|---|---|
| `BackendPool` | the semaphore of backend operations (`main.rs`) | - |
| `PermitPool` | abstract: what a bounded pool of permits promises | - |
| `PublicProxy` | `proxy.rs` | `BackendPool` |
| `HttpApi` | `http.rs`, and how it runs `keys.rs` | `BackendPool` |
| `CommandLine` | the tokenizer (`command.rs`), operators | - |
| `CommandPolicy` | the allowlist and its validators (`policy.rs`), operators | - |
| `ReplyDecoder` | decoding under budgets and the charges of the JSON conversion (`resp.rs`) | - |
| `KeyDetail` | `keys.rs` beside clients that write; also a specification of its own (`DetailSpec`) | - |
| `HttpCommands` | one request: `execute`, `health`, `key_detail` of `http.rs` | the four above |
| `Playground` | both entry points interleaved | `PublicProxy`, `HttpApi`, three instances of `PermitPool` |
| `CommandDeadlines` | the deadlines of `proxy.rs` against a clock | - |
| `Launcher` | `main.rs`, `supervisor.rs` with a clock | - |
| `TesterLock` | the lock of `scripts/tester.sh` | - |
| `ReleaseTags` | `release.yml`, `reconcile-release-tags.yml` and the scripts they run | - |
| `BackupRestore` | `scripts/backup.sh`, `scripts/restore.sh` | - |
| `PlaygroundProofs` | theorems about `PublicProxy`, `HttpApi` and `Playground` | `Playground`, `SetFacts` |
| `HttpCommandsProofs` | theorems about `HttpCommands` and the four modules it extends | `HttpCommands`, `SetFacts` |
| `CommandDeadlinesProofs`, `LauncherProofs`, `TesterLockProofs`, `ReleaseTagsProofs`, `BackupRestoreProofs` | theorems about the module they are named for | the module |
| `SetFacts` | lemmas on naturals, finite sets and sequences that the proofs share | - |
| `MC*` | values for TLC: symmetry sets, versions, hosts | the module |

Definitions whose name has a suffix after an underscore and whose comment begins
with "Mutant" are plausible bugs. Nothing uses them; `PROJECT.json` names, for
each checked property, one that breaks it.

**PublicProxy.** Every await of the handler task is a `stage`, so any number of
steps of others fall between two stages. `acceptor` is the accept loop: it
selects over `accept` and `shutdown`, and while it writes "too many connections"
itself it is `refusing`. `connFree`, `bytesFree`, `backendFree` are the three
semaphores. `req` is what a handler reads or serves: arguments left, bytes
decoded, `reserved` from the budget, `alloc` in buffers. `link` is the upstream
connection with the child's end of it: commands `pending`, replies `unread`, the
session's database. `answer` is the command the reply being written belongs to,
`told` the database the client was last told. `ReadCommandHeader`,
`ReadArgumentHeader` and `ReadPayload` are the steps of `read_request`, the first
two with an exhausted budget or an oversized command as a second disjunct;
malformed frames and both read timeouts are `ReadFails`. `RejectByPolicy` and
`RejectBusy` keep the connection; `Dispatch`, `UpstreamConnected`, `ReplyRead`
and `UpstreamFails` are `forward` with its connect, exchange and state loss;
`ReplyWritten`, `ReplyWriteFails`, `AnswerWritten`, `AnswerFails`, `ClosingEnds`
are writes under `CLIENT_WRITE_TIMEOUT`.

**HttpApi.** `LimitedListener::accept` first takes a permit (`AcquireConnection`),
then accepts (`HttpAccept`); `LimitedIo` gives it back when the connection ends,
and fails every read and write once the lifetime is over (`LifetimeEnds`).
Handlers run `StartOperation`, `NextOperation` up to `MaxKeyOperations` times,
and `OperationSucceeds` or `OperationFails`; a dropped handler drops its permit.

**CommandLine.** A line is a sequence of lexemes (a run of ordinary characters,
a blank, a quote, a backslash), `Scan` one turn of the loop of `parse`, `ScanFrom` the
loop over a line, and `Parse` the arguments it ends with. `Quote` is the inverse that
the properties use: a line that somebody would type for an argument list. An escape is a state of the scanner instead of a
second `next()`.

**CommandPolicy.** One operator per validator; an argument is a word, and the
constants `Trim`, `Upper`, `Numeral`, `Scores` and `StreamIds` say what a word
trims, folds and parses to, so that the policy sees what `normalize` and `parse`
give it. Integers have the width that `IntMax` gives; `RangeWithin` is
`bounded_range` with its checked subtraction and addition. `ArityAllows` and
`ArgumentsAllow` are the table `POLICIES`, by kind of validator.

**ReplyDecoder.** The recursion of `read_value_budgeted` is `stack`, one entry for
every open loop with its aggregate and the values it has still to read. `ReadLine` is
one call up to the end of its first line, which is allocated as it comes (`incoming`);
`ChargeLine` charges it and what it announces, up to the first await on a child or a
payload. `used` is the budget, `payload` the buffer being filled; every error is
`ReplyFails`. `owed` counts the values that RESP says are still to come, in terms
of RESP. `json` accumulates what `to_json_budgeted` charges and what `serde_json`
prints. The two are counted differently, as in the code: the charge child by child,
from the position of the child in its loop (`OwnCharge`, `SeparatorCharge`,
`KeyCharge`), the print by the whole aggregate (`Printed`, `Punctuation`).

**KeyDetail.** One action per command of `detail`; between any two
`OthersWrite` gives the key any other value. `seen` is the set of values since
TYPE was answered, a history variable.

**HttpCommands.** `phase` and `route` follow a handler from the line to the status.
Its early returns are `RefuseLine`, `RefuseEmptyKey` and `RespondBusy` (the pool may
be empty at any time; `HttpApi` and `Playground` model it). `Respond` is
`api_response` with the bound on the body (413).

**Playground.** `PlaygroundNext` interleaves both; the pool is the shared
variable `backendFree`.

**CommandDeadlines.** One connection, a `Tick` that never passes a due deadline,
`waited` since `read_request` was called, `spent` in the current await, `held`
and `permitAge` the ages of what the command holds. PublicProxy shows what is
conserved when deadlines fire at any time; this module shows how long things are
held when they fire on time.

**Launcher.** `pc` follows `run`, from `spawning` to `exited`. The child and the
tasks end at any time by actions of their own; the `select!` branches are the
disjuncts of `Supervise`, so simultaneous ends are seen in any order. `handle`
and `joined` follow each `JoinHandle`, which may be polled by the `select!` and
again by `join_services`. `asked` and `killed` note the signals the launcher has sent to
the child. `CallFails` groups the system calls that may fail (`try_wait`, `kill`,
`start_kill`, `wait`, signal registration). `Tick` measures the current stage (`spent`) and the
teardown.

**TesterLock.** One action per `mkdir`, `rmdir`, `rm`, write of the record,
read of the record, or `ps`. `RemoveRecord` removes by path, whoever wrote the
record, as `rm` does. `Crash` is possible wherever the process lives.

**ReleaseTags.** `stage` follows each release run through prepare, check, build,
sign, verify, inspect, create, mirror, copy; one action per step between which a
runner can die (`FailRun`). A version is `<<major, minor, patch>>`, with a
fourth field for a pre-release, and a floating tag is a prefix of the versions
of its series. A digest is named by the run that built it. `recStage` follows the reconciliation
through enumerate, verify, apply, and the audit of Docker Hub. The concurrency
groups are modelled with GitHub's documented rule: one runs, one waits, a newer
waiting run replaces the older.

**BackupRestore.** `data` maps the two files to the last write each contains;
`archives` is `BACKUP_DEST` as `ls -t` shows it; an archive has an id (the backup that
wrote it), a format and whether `tar` finished it. `backup.pc` and `restore.pc` follow
the steps that the scripts number; one action per command that changes the world
(each `rm` of the rotation and of the clear is one). `BackupFails` and `RestoreFails` are
`set -e`, error branches and kills. `host` says which tools are installed
(`ferrite-cli`, `ferrite`, `aws`, `ferrite-check-aof`) and which options set; it is chosen
initially. The server writes to the file it has open, which after a clear is no
longer the one in the directory (`attached`).

## 3 Runs

Sizes are distinct states.

| Run | Instance | Shows |
|---|---|---|
| `playground` | 3 RESP clients on 2 connections with commands of up to 2 arguments, 3 commands per connection, 2 databases, budget 6; 2 HTTP peers on 2 connections with handlers of up to 2 commands; 2 backend permits; joint behaviours bounded (`JointBound`); 946 thousand | `ByteBudgetConserved`, `BuffersCovered`, `ReservationScoped`, `RepliesMatch`, `SessionPreserved`, types; `PermitsConserved`; `PoolsImplemented`: three semaphores implement `PermitPool` |
| `entry_points` | 3 RESP clients on 2 connections, or 2 HTTP peers on 1; 1 backend permit; 13 thousand | `BackendPermitReleased`, `BacklogServed`, `ShutdownObserved`, `HttpOperationEnds`, `HttpBacklogServed`, `HttpDrained`, with silent peers and a silent child |
| `http_commands` | one request at a time: 2826 lines, replies of 24 values within 5 nodes, depth 2 and 40 bytes, keys of up to 3 elements with 3 values per request; 260 thousand | `ArgumentsQuotable`, `WindowedDemandBounded`, `OneReplyRead`, `ReplyWithinBudget`, `ConvertedValueFits`, `DetailFromSeenValues` |
| `command_deadlines` | the source's durations in seconds, 3 arguments; 40 thousand | a reservation is at most 32 s old, a backend permit at most 12 s |
| `launcher` | the source's durations in half seconds; 8.5 thousand | `ShutdownBudget`, `SuccessIsEarned`, `HandlesPolledOnce`, `LauncherEnds` |
| `tester_lock` | 4 invocations; 779 thousand | `ExclusiveWithoutStrayClaim`, `NotWedgedAtRest`, `InvocationEnds` |
| `release_tags` | 2 release runs over versions 1.0.0, 1.1.0 and a pre-release of 2.0.0, one of which has two checksums (`MCArchive`), 1 failure; 268 thousand | `ExactTagVerified`, `MirrorAgrees`, `SuccessIsPublished`, `FloatingIsPublished`, `ExactTagImmutable`, `FloatingNeverRegresses`, `FloatingConverges` |
| `backup_restore` | 3 runs of the scripts in any mixture, 1 further write, 1 retained archive, 4 hosts (`MCHost`); 4.2 million | `DataNeverLost`, `SuccessMeansRestored` |
| `unsolicited_exit_claim`, `request_memory_claim`, `stale_lock_claim`, `backup_exit_claim` | small | the statements of section 7 and a trace that contradicts each |

Why the bounds are enough to be interesting:

- *Proxy.* With three clients and two connections one client is refused while
  two are served. Two largest commands exceed the byte budget, so reservations
  are refused at the header and in the middle. HTTP handlers take backend permits away
  (`playground`), and one permit makes the second client busy (`entry_points`). Three
  commands per connection are what a lost session
  needs to do harm (select a database, lose the session, run one more), a late
  reply needs two; a connection can then be closed and reopened,
  so per-client slots are reused. `MaxCommands` bounds only the commands begun
  on one connection. One byte stands for a payload and two for a slot; the
  formulas of the reservation are the source's.
- *Both entry points.* `JointBound` keeps the product small: as long as the HTTP server
  has not shut down, two clients at a time send one plain command each (the permits
  move as for any command), and the proxy is not shut down; once it has, the proxy does
  all that the constants allow. The permits of the two are only connected by
  the pool, and the proofs have no such bound.
- *Liveness.* In `entry_points` one entry point runs while the other has shut down
  (`FairAloneSpec`): each alone must return what it takes and serve its backlog. The
  other one's permits come back by the same properties, and no step of either
  waits for a permit of the pool, which is only tried.
  Two HTTP peers share one connection permit, so one waits in the backlog.
- *Commands.* `i64` has five bits (-16..15) and `u64` ends at 31; the words of a window are all numerals around zero, around the limit,
  at both ends of both types and one past them, and a word that is no number, in
  every pair. Windows are compared with every length of a collection up to four times the
  range. Ranges by score include one whose key is named LIMIT, which the policy takes
  for its clause (section 7); `WindowedDemandBounded` excludes just those lines
  (`KeyTakenForClause`). Lines of up to four lexemes after a command are all enumerated over
  ordinary, blank, `n`, both quotes and backslash. At most two items
  and a page of three: the table's counts are met and exceeded.
- *Replies.* The values of `MCValues` reach and exceed each limit by one: length,
  depth, nodes, elements, bytes. A map nested in an array has its double reservation and
  its two loops. 41 bytes of JSON hold a base64 value with a null beside it but for the
  comma, and the body is larger by exactly its envelope of 24 bytes, the least reserve for
  which `ConvertedValueFits` can hold. (The source reserves 1024 bytes, which forgives a
  small error of the charge but not one per child of thousands.)
- *Key details.* With a page of 1, a preview of 2 and sizes up to 3 a value is
  empty, fits, or is truncated; three values in one request are the type's, the
  length's and the page's.
- *Deadlines.* Three arguments are six reads of up to five seconds, more than the
  idle timeout of twenty, so the outer timeout does cut reading off.
- *Lock.* Four invocations are the smallest number that reaches every step: one
  that died, one that recovers, one that acquires after it, and one whose late
  `rm` hits the live record.
- *Releases.* Two versions of one major and a pre-release of the next, which no
  floating tag may name, give overlapping series. Two runs are a duplicate, a retry
  or two releases; a version whose source tag was moved lets them disagree about
  the checksum. One failure reaches a retry and a run that publishes to one registry
  only. A waiting run that a third one replaces needs three runs and is left to the
  proofs, which hold for any number.
- *Backups.* Two backups rotate, a backup and two restores are a crash and its
  retry with a write in between, and every combination overlaps. One file of each
  kind stands for all of its kind. `MaxWrites` counts from the write that the initial
  files contain, so it is at least 1. That the instance is not what makes the
  properties hold is shown by `BackupRestoreProofs`.

Symmetry is used in the runs that check safety only. Deadlock is checked where
the modelled part never stops (deadlines, releases) and not where it does
(servers that stop, an invocation that ends, commands or runs that are used up).

## 4 Fairness

- *PublicProxy.* Weak fairness on a handler's deadlines and on its own
  computation: tokio timers fire and tasks are polled. Strong fairness on
  accepting a waiting client and on seeing the shutdown: the kernel's backlog is
  ordered, and `select!` polls ready branches in random order. **Nothing** is
  assumed of clients (that they send, read or leave) or of the child (that it
  answers).
- *HttpApi.* A handler's computation and its command deadline are weakly fair.
  The lifetime is strongly fair: it is enabled whenever the connection reads or writes,
  and a busy connection does so again and again. The backlog is ordered.
- *Launcher.* Time passes, `run` takes a step when one is possible, and an end
  it can observe is observed. A signal need not come.
- *TesterLock.* A started process keeps running (unless it is killed) and its
  system calls return; invocations need not be started. No fairness between
  contenders is assumed.
- *ReleaseTags.* A reconciliation that runs takes its steps, and the weekly
  schedule fires. Release runs need not progress.

## 5 Proofs

Every safety invariant and every action property that a passing run checks is also
proved, but `ConvertedValueFits`.
The theorems of the eight proof modules hold for every value of the constants under
the named assumptions of the modules they extend (finite sets of clients or processes,
positive limits, distinct entry points, durations and sizes that are numbers, versions
that are sequences of three or four numbers, at least one write; for the policy, limits
below the largest integer, and `LIMIT`, `WITHSCORES` and the empty word no numerals);
none assumes more. The type invariants of `CommandDeadlines`, `Launcher`, `TesterLock` and `HttpApi`
are proved and no longer run. Where a property is not inductive, the invariant that
the proof needs was first checked by TLC on the run's instance.

**PlaygroundProofs, the proxy**: `ProxyTypes`, `BuffersPaidFor`, `ReservationsEnd`,
`RepliesMatched`, `SessionsKept`, `BytesConserved`, for any number of clients, commands,
arguments and bytes. None of these but the first is inductive. A payload is allocated with its CRLF, which
its own reservation does not include: the slot that was reserved for the argument
covers it, so `RequestInv` counts two bytes for every argument still to come
(`alloc + 2 * left <= reserved`, with those two bytes back while a payload is read). `SessionInv` says
what is on the upstream connection: nothing between two exchanges, and in an
exchange exactly one thing, the command sent last or its reply; that a late reply
of an abandoned command cannot be read, and that a lost session cannot be replaced,
both follow from it. One lemma per group of steps (`ReadingHolds`, `ForwardHolds`,
`ExchangeHolds`, `ReplyHolds`, `ChildHolds`, ...). `ByteBudgetConserved` is about a sum over
clients, stated without one: the reserved bytes are a set of slots, one pair of a client
and a number for each. `BytesStep` says of every step of the proxy that it either leaves
budget and reservations alone or moves between the budget and one client; `BytesMove`
that such a move keeps the total, from `SlotsChange`.

**HttpCommandsProofs**, in the order of a request:

- *Windows.* `AcceptedWindowBounded`: for every width of integers, every limit and
  every length of a collection, a window that `bounded_range` accepts has at most
  `limit` elements; `RefusedWindowWide`: of the windows whose ends are counted
  from the same side, or that never end, it only refuses those that exceed the limit
  in some collection.
- *Demand.* `DemandBounded` carries this to commands: for every vocabulary (what words
  trim, fold and parse to), an admitted line whose command has a window (`Windowed`) asks
  for at most one page. There is one
  lemma for what the validators have looked at (`WindowedArguments`), and one each for the
  windows (`RangeDemand`) and the LIMIT clause (`LimitDemand`). For ranges by score the
  point is which LIMIT the policy looks at: the first of all arguments, where Ferrite
  reads one that follows the two bounds. Unless the key is named LIMIT it is the same
  one, or Ferrite answers with an error. The handler's `LineInv` says that only an
  admitted line is sent.
- *Tokenizer.* `QuoteRoundTrip`: for every argument list of lexemes, of any length, reading the
  quoted line gives the list back. It is shown by induction over the text of an argument
  (`Inside`: the scanner inside a quoted argument, with what it has taken so far) and
  then over the list (`Between`). `Quotable` follows for every line because what
  `Parse` returns is a list of lexemes. The induction is over *sets*: the set of
  lengths, or of sequences, for which the statement holds contains the first one and is
  closed under the next (`NaturalInduction`, `SequenceInduction` of `SetFacts`), which needs
  no operator as a parameter.
- *Decoder.* `OneReply`, `ReplyBounded`. `DecoderInv` relates the two counts of what is to
  come: the sender's `owed` and the sum of what the open loops have left, again as a set
  of slots (`Due`). `DueAppend` says what opening a loop adds, `ProceedAwaits` that returning
  from a value moves one from the loops to the decoder and that finished loops take none along. `ReplyWithinBudget` needs that values read *and* slots
  reserved are charged together, and that the recursion checks its depth before it charges:
  `LineKeepsDecoderInv` for the node, `ChargeKeepsDecoderInv` for the rest.
- *Key details.* `DetailSeen`, for any sizes and any number of writes between two
  commands. `AnswersSeen` collects what each answer adds: a witness among the values
  seen, and from the length on the limit of the reported type. `DetailRefinement`: the handler
  seen through the variables of `KeyDetail` is a behaviour of `DetailSpec`, each step of
  the request being a step of the detail or a stutter; `DetailAnswersSeen` carries
  `DetailSeen` over to it.

**CommandDeadlinesProofs**: `TypeCorrect`, `ReservationAge`, `PermitAge`. The
bounds of the run hold for any timeouts and any number of arguments. The
properties are not inductive: nothing in them says how the age was spent. `AgeInv`
splits it along the awaits: while reading `held <= waited <= CLIENT_IDLE_TIMEOUT`,
and each later phase adds the full deadline of the one before and `spent` of its
own. `TickIInv` shows that time passes no bound, `ResetIInv` and
`AdvanceIInv` that each change of phase re-establishes the next one's.

**TesterLockProofs**: `TypeCorrect`, `LockExclusive`, `NeverWedged`, for any number
of invocations and any crashes. `LockInv` says in whose hands the directory is:
of the process whose record is in it, or, while it is empty, of the only one
that is about to fill or remove it; a contender that was sent astray by a stray claim is in
none of the undo steps. `RecordsInv` adds that a record judged stale belongs to
a process that has ended, so that claiming it can take nothing from a live
holder. `IInv` makes `LockInv` conditional on `~strayClaim`: the claim by path can
break exclusion (section 7), and the theorem says that nothing else can. `EmptyInv`
is the invariant of `NeverWedged`: as long as nobody was killed, an empty lock directory
is in the hands of a process that stands before a write of its record or a removal
(`Responsible`); it does not mention `strayClaim`, so racing recoveries do not wedge the lock
either.

**PlaygroundProofs, both entry points**: `Permits`, `PoolsRefinement` and `HttpTypes`, for any number of clients
and any limits. Each semaphore's count plus the number of its holders is
constant; a holder is defined by the *stage* of its handler, so the theorem says
that every way into and out of those stages moves exactly one permit. The proof has one
lemma on cardinalities (`PermitStepConserves`), one lemma per client step and
per peer step that gives the step's effect on all three pools (`PoolSteps`), and
the invariant `IInv`. `PoolsRefinement` shows that each step maps to `Take`,
`GiveBack` or a stutter of `PermitPool`, for which the conservation law supplies
the guard `Cardinality(holders) < Capacity`.

**LauncherProofs**: `TypeCorrect`, `TeardownBounded`, `SuccessEarned`,
`HandlesOnce`, for any durations. `ShutdownBudget` bounds a clock that
runs over three stages, so `TimeInv` says how much of it each stage can have used:
when the child is being terminated it is at most the time of this stage, and each
later stage adds the deadline of the one before. `HandleInv` says that a handle still
in its `Option` belongs to a task whose result nobody has taken, which is what makes
a second poll impossible. `OutcomeInv` ties the exit code to the signal and to
the results of the two services (nothing is proved of the child: section 7). Each part has a lemma of its own (`NextTime`, `NextHandle`,
...), because none needs more than the types besides itself.

**ReleaseTagsProofs**: `TagsVerified`, `TagsImmutable`, `MirrorsAgree`,
`SuccessesPublished`, for any number of runs, versions and failures. None is inductive: the create of
a tag is a write after a read several steps earlier. `LockInv` says that one run
holds the lock of a version and one waits; `RunInv(r)` what the holder knows at
each stage (its tag is still free or names its image; what its image has passed);
`TagInv(v)` that a tag names a checked image and that Docker Hub and the list of a
reconciliation only repeat GHCR; `PlanInv` that the reconciliation, which takes
none of those locks, moves floating tags only on GHCR. That last step needs
`FloatingNotVersion`: a floating tag is shorter than a version. The lemmas
`StepKeepsOthers` and `StepKeepsTags` carry the frame (a step of the holder changes
nothing another run knows), so each action's lemma shows only what it does for
its own run and version. `SuccessInv` adds, for `SuccessesPublished`, what a run has published once its own
create or copy is behind it: `OwnSuccess` shows it for the run that takes the step,
`BystanderKeeps` for the others, because exact tags are immutable.

`FloatingPublished` and `FloatingForward`: a floating tag names a published stable release
of its series and never an older one than before, on both registries. The hazard
is that a reconciliation applies a list it read some steps ago. `FloatInv` says why that is
safe: the list of the running reconciliation contains whatever a floating tag names
(`Enumerated`), because only a reconciliation moves floating tags and only one runs at a
time; and what is left to apply belongs to the plan of that list. That the plan has
a newest version at all needs that the list is finite (`FoundFinite`: each version on it was
built by one of finitely many runs) and that SemVer's order on the three numbers of a
stable version is transitive and irreflexive (`NewerOrders`), so that `FiniteMaximum` applies;
then `PlannedIsNewest` says that no version of the list is newer than the planned one.

**BackupRestoreProofs**: `TypeCorrect`, `RestoreSucceeds`, `NothingLost`, for any number of
runs, writes and retained archives, on any host. `SuccessMeansRestored` looks back over the whole
restore, during which a backup may write and rotate archives, so the invariant follows the
restore's steps: `Verified` (an archive that `gzip -t` found whole stays whole, and no
other takes its name), `Extracted` (the stage holds what the archive holds), `StaysDown` (nobody
starts the server that was stopped), `Replaced` (what is in the data directory at each step of
the replacement). `DataNeverLost` is about steps. A rotation takes an archive behind the
first, and while it runs the first is the backup's own, whole and the newest, which is part of
`TypeOK`; an archive that is begun or finished leaves the others. For what a restore takes
away `Replaced` says that while it clears the directory each file still there is in a
copy set aside, that `cp` meets no file to overwrite, and that what it truncates is what
the archive holds. `RemovedFileSaved` speaks of a server that is down: one that is up, where
`ferrite-cli` is not there to stop it, goes on writing between the copy and the `rm` (a hazard of
`PROJECT.json`).

**SetFacts**: least member of a set of naturals, induction over naturals and sequences in
the form above, a maximal member of a finite set under a transitive irreflexive
relation, and the cardinality of sets of slots.

Only model-checked: liveness, as TLAPS handles neither fairness nor `ENABLED`
(`BackendPermitReleased`, `BacklogServed`, `ShutdownObserved`, `HttpOperationEnds`,
`HttpBacklogServed`, `HttpDrained`, `LauncherEnds`, `InvocationEnds`, `FloatingConverges`);
and `ConvertedValueFits`, a sum over the tree of a reply.

## 6 Abstractions, bounds, and what is not modelled

- **Data.** Bytes are counted, not spelled. In the proxy a command is of one of three
  kinds: refused by the policy, changing the session (SELECT), any other. Reply
  contents, error texts and log lines are left out.
- **Command lines.** A lexeme stands for any run of ordinary characters. Words that
  the policy tells apart are the words of the tables; the lossy view of
  binary arguments on the RESP port is left out. `Demand`, what Ferrite does with an
  admitted command, is external: it reads a word as the policy does, or refuses it
  and returns nothing. It is defined for the commands that state a window (`Windowed`).
  Others are admitted without a bound on what they touch: ZREMRANGEBYRANK, LTRIM, LREM,
  XTRIM, DEL and COPY remove or copy whatever is there, GET and its like return a whole
  value. What they return meets the budgets of the reply; what they do inside
  Ferrite meets no bound of the launcher, and nothing is claimed of it.
- **Replies.** A line is read whole before it is charged (`resp.rs:281-292`), so a
  line is bounded by RESP_TIMEOUT and not by the budget; in the model it arrives in one
  step (`ReadLine`) of its own. Map keys that are aggregates or binary are not sent (a key of that kind is
  printed with its own JSON escaped once more). Push replies are decoded like sets.
  A length is printed with one digit, which the sizes of the run have.
- **Errors.** An error that quotes the request or the child can exceed the body's
  limit; its length is left open (`RespondQuoting`).
- **Key details.** Values of a key are a type and a size. `MaxValues` bounds the
  values during one request, `MaxSize` their size.
- **External code**, modelled from its use in the repository and marked external in
  `PROJECT.json`: the kernel's backlog, axum/hyper, the Ferrite child (runs
  commands of a connection in order, answers each once, or dies), GitHub's
  concurrency groups, the registries (a tag is read and written atomically).
- **Launcher.** A signal before supervision starts is not modelled: the handlers
  are not registered then, and PID 1 discards SIGTERM.
- **Lock.** A process is its PID and start time and identities are not reused;
  `ps lstart` has a resolution of one second. Writing the owner file is one step,
  which is what a reader distinguishes (an empty record is refused as a missing
  one). Nobody but the script touches the directory.
- **Releases.** Failures of `prepare` before the lock change nothing and are
  left out. Tags are written by these two workflows only. Checks are opaque: an
  image has passed them or not. An exact tag that cannot be verified stops every
  reconciliation (`reconcile-release-tags.yml:189`); in the model there is none,
  which is what `ExactTagVerified` shows.
- **Releases, checksums.** `Archive` is the set of versions and checksums that the
  source archive of a version may have: a run reads one of them.
- **Backups.** Checkpoint files sit directly in `checkpoints/` or beside it. A file
  is copied whole or the copy fails. Only one backup and one restore run at a time
  (names of archives and copies have a resolution of one second), and while a restore
  runs nobody else starts or stops the server, although a deployment may
  (`docker-compose.yml:48`, `restart: unless-stopped`). A PING is answered exactly when the
  server is up, so that one without an answer means it has stopped; `restore.sh:192-200` takes
  any failed PING for that. Checkpoint files in subdirectories, which a backup stages and a
  restore does not copy back (`restore.sh:167-172`, 223), are left out. `aws s3 cp` leaves a whole object or none.
- **Re-encoding for RESP clients** (`encode_value`). A function of the decoded reply;
  that it may exceed its limit is an outcome in `PublicProxy`. An integer is
  re-encoded from its value, which is not byte for byte when it was sent with a
  sign or zeros (`resp.rs:127-131` says byte for byte).
- **Tester environment, version sync, supersession, ops tags.** Stateful and
  planned.
- **Operator scripts, other workflows.** Straight-line, no state that outlives
  them or that another actor changes.
- **Images, charts, GitOps, Terraform, monitoring, packaging.** Declarative.

## 7 Where comments and code disagree

1. `scripts/tester.sh:354-356` says that recovery claims the exact stale record.
   The `rm` at 357 is by path: of two recoveries that judged the same record the
   slower can remove the record of a third, live invocation.
   `stale_lock_claim` shows it.
2. `scripts/backup.sh:176-177` ends a backup with its message of success and `EXIT_CODE`,
   0 when nothing failed. The rotation before it lists two patterns with one `ls`
   (168), which exits with 2 when either matches nothing; under `pipefail` and `set -e`
   an ordinary backup, all archives of one format, rotates and exits with 2.
   `backup_exit_claim` shows it.

3. `supervisor.rs:76-79` says that any exit of the child the launcher did not ask for is a
   failure. A child that exits by itself just before a signal is observed is found gone by
   `stop_with_timeout` (93-97), which is no error, and `main.rs:125-128` answers `Ok`: the
   exit code is success. `unsolicited_exit_claim` shows it.
4. `proxy.rs:82-85` says that clients can never commit more memory than the byte budget
   allows. `forward` encodes each command into a second buffer (347) that no reservation
   pays for, and holds both until the child has answered. `request_memory_claim` shows
   it, with the encoded copy as the only thing counted besides the arguments; header lines
   (`proxy.rs:483`, at most one short line per client) come on top.

Remarks without a run:

- `resp.rs:26-32` says that the reply budget bounds every header line too. `read_until`
  (281-285) collects a line of any length before it is charged (292); only RESP_TIMEOUT
  ends it. `ReplyWithinBudget` therefore speaks of values, slots and payloads, and not
  of `incoming`.
- `playground-launcher/src/proxy.rs:43-45` says that `CLIENT_IDLE_TIMEOUT` only
  bounds the wait for a new command. It is placed around all of `read_request`
  (192-195), so a command that arrives slowly is cut off as idle. That is what bounds
  `ReservationAgeBounded`.
- `.github/workflows/reconcile-release-tags.yml:10-17` says that every successful
  release triggers reconciliation immediately and that replacing a pending run is
  safe. The completion of a *failed* release run enters the same group, replaces
  the pending run and is then skipped by the job's condition (30-35).
  `FloatingConverges` shows that the weekly run repairs it.
- `policy.rs:566-582` looks for LIMIT in all arguments, so a key of that name is taken
  for the clause: a range over it is judged by its bounds, and its real clause is not
  checked. Without its exclusion of those lines `WindowedDemandBounded` is violated
  (`ZRANGEBYSCORE LIMIT 0 3 LIMIT 0 15` is admitted).
- `resp.rs:561-564` charges a double by the text received and prints its value, which
  can be longer (`1e15`). `ConvertedValueFits` is stated for values without one; the
  serializer's own limit (`http.rs:362`) then answers 413.
- The key detail's total, page and truncation flag come from commands that other
  clients can come between. `DetailFromSeenValues` says what is left of their
  meaning: each was true at some time of the request.

## 8 Plan

Order: the launcher's shared resources first (they serve the public), then its
life cycle, then the lock and the release pipeline, then the decisions on one command
and one reply, then the backups: all are modelled, and their safety is proved. What is
left:

| Next | Modules | Abstract specification or reference | Checks | Theorems |
|---|---|---|---|---|
| 1 | `ReplyEncoder` in `ReplyDecoder` | decode after encode gives the value back | all reply trees within the budgets | the round trip, as for the tokenizer |
| 2 | `ReleaseOrdering` | precedence of SemVer 2.0 | all pre-release identifiers over small alphabets | the order is total |
| 3 | `PublicProxy` as an implementation of `CommandDeadlines` | `CommandDeadlines` | each step of the handler is a step with its deadline | the refinement |
| 4 | `VersionSync`, `TesterEnvironment` | - | concurrent updates; ownership of a compose project | - |

Runs that ask the same kind of question of one module are merged before new ones are added.
