# Pithos: TLA+ models, model checks and proofs

Pithos packs directory trees into verified archives. A CLI runs the engine in
process or talks to a daemon (`pithosd`) over a local socket. The daemon keeps
jobs in a durable registry, queues them fairly, runs them on a blocking pool
under permits, and survives crashes, failed writes and restarts. These modules
model the parts whose correctness depends on order, failure and concurrency.

## 1. Inventory

| Part | Code | State | Operations | Hard because |
|---|---|---|---|---|
| Job registry | `pithos-daemon/src/store.rs` | `jobs.json`, its copy in memory, `healthy`, `closed` | submit, transition, cancel, complete, fail, expire, record publication, close, open | a commit can fail before or after its rename; a crash can hit between any two steps; recovery rewrites the file |
| Job queue | `pithos-daemon/src/scheduler.rs` | lanes, session order, credits, cursor, length | push, pop, drain | redundant state; fairness over two dimensions |
| Daemon service | `pithos-daemon/src/service.rs` | cancellation tokens, permits, queue, `stopping`, `storage_degraded` | requests, drainer, one task per job, deadline timers, shutdown | every one of these is a concurrent task that reads state, awaits and acts |
| Process | `transport.rs`, `main.rs` | socket file, state directory | start, probe, unlink, bind, serve, shut down | two processes share files without a lock |
| Connections | `transport.rs`, `limits.rs`, `service.rs` | connection slots, connection tasks, the service's connection table, one rate limiter each | accept, check the peer, read and write frames, admit, subscribe to events, shut down | clients stall or vanish, the clock steps, a job ends between two reads |
| Sessions | `session_store.rs`, `service.rs` | `sessions.json`, connections | create, resume, expire | token rotation over an unreliable connection |
| CLI client | `pithos-cli/src/daemon_client.rs` | stream, capabilities, counters | submit, poll, reconnect | retry of what may already have been done |
| Task scheduler | `pithos-engine/src/scheduler.rs` | pending tasks, memory left, channel | validate, dispatch, receive | results in any order, bounded channel, budget |
| Engine | `pithos-engine/src/lib.rs`, `pithos-io` | spool or staging directory, output path | scan, pack, verify, unpack, extract, stream, range | inputs change while they are read, archives while they are decoded, output paths are taken, tokens are set late |
| Analysis | `pithos-analysis/src/{chunking,micro_file,fingerprint}.rs` | a reader's position, accumulators, batch slots | chunk, plan packs of micro files, validate their metadata, fingerprint | two implementations of the same result, limits at every step, workers in any order |
| Pure algorithms | planner, codecs, format | none | grouping, encoding | boundaries |

How they interact: a request is authorised against a session, checked against
quotas and handed to the registry, which stores the job before it is answered.
The service pushes the stored job on the queue; the drainer pops it and spawns a
task, which takes permits, moves the job to `running` in the registry, starts a
blocking worker with a cancellation token and stores the outcome. A cancellation,
a deadline and a shutdown each change the registry first and then cancel the
token. A failed commit makes the registry unhealthy and the service fail closed.
Requests reach the service through connection tasks: the accept loop gives a
connection a slot, its task opens an entry in the service's table, serves frames and
closes the entry again. A follower of a job asks for its events with a cursor; the
service answers at once or waits for news. The analysis crate is called by nobody
yet: its results are the inputs of later stages of the engine.

What makes each part correct:

* registry: the file can always be opened again and agrees with memory; a job that
  ended never changes; an acknowledged key keeps its job; events are numbered
  without gaps; a pack is reported completed only if it owns its archive;
* queue: the length, the session order and the lanes agree; no lane and no session
  waits more than its bounded turn;
* service: a cancellation reaches the worker wherever the job is; a published pack
  is not reported cancelled; a shutdown leaves nothing running; every job ends;
* processes: an accepted job and its outcome survive restarts; a stale socket never
  blocks a start;
* connections: a connection that got a slot is served, a limiter forgets no time that
  passed, a follower misses no event, stalled connections and the shutdown end;
* sessions and client: a command has one job however often it is sent, a session
  can be resumed until it expires, one fault per request is survived, a client ends;
* task scheduler: exactly the cyclic graphs are refused, the memory budget is
  respected, the call returns, so no worker blocks for ever;
* engine: a packed file is one version of its input, what is published verifies,
  what is restored is what was packed, nothing that exists is replaced;
* analysis: a call over a reader gives what the call in memory gives, chunks tile
  their object, a pack of micro files gives back its files, metadata that passes
  validation is safe to use, a rolling hash is what its definition says, chunks with
  colliding short fingerprints keep their full hash.

## 2. Modules

| Module | Models | Checked by | Proved in |
|---|---|---|---|
| `JobStore` | records, events, markers and `validate_state` of the job store, as operators | through `JobRegistry` | `JobRegistryProofs` |
| `JobRegistry` | the registry over a file system, with commit failures, crashes and restarts | `MCJobRegistry` | `JobRegistryProofs` |
| `JobLedger` | what the registry promises: jobs appear, move towards an end and stay ended | refined by `JobRegistry` | `JobRegistryProofs` |
| `FairScheduler` | the job queue, one step per iteration of `pop`'s loop | `MCFairScheduler` | `FairSchedulerProofs` |
| `DaemonService` | requests, drainer, tasks, timers, workers, fail-closed and shutdown | `MCDaemonService` | `DaemonServiceProofs` |
| `DaemonInstances` | daemon processes that share one state directory | `MCDaemonInstances` | `EndpointProofs` |
| `Connections` | accept loop, connection tasks, frames, rate limiters, long polls | `MCConnections` | `EndpointProofs` |
| `ClientSession` | a CLI client and the daemon's sessions over a connection that breaks | `MCClientSession` | `ClientSessionProofs` |
| `TaskScheduler` | `execute_scheduled` of the engine and its workers | `MCTaskScheduler` | `TaskSchedulerProofs` |
| `ArchiveCatalog` | the tables of an archive, solid groups, and `read_catalog`'s checks, as operators | through `ArchiveEngine` | `ArchiveEngineProofs` |
| `ArchivePack` | `pack`, raw and compressed, over inputs that others change | through `ArchiveEngine` | `ArchiveEngineProofs` |
| `ArchiveEngine` | `ArchivePack` composed with `unpack`, `extract`, `extract_to_writer`, `read_range` | `MCArchiveEngine` | `ArchiveEngineProofs` |
| `Outcomes` | results with errors, orders and the merge sort of the analysis crate, as operators | through `ContentAnalysis` | `ContentAnalysisProofs` |
| `LogicalChunking` | chunking in memory and over a reader, chunk ids | through `ContentAnalysis` | `ContentAnalysisProofs` |
| `MicroFilePack` | packs of micro files and the validation of their metadata | through `ContentAnalysis` | |
| `Fingerprints` | fingerprints of a chunk, of a stream and of a batch | through `ContentAnalysis` | |
| `ContentAnalysis` | the three as one system: a behaviour is one call of one of them | `MCContentAnalysis` | `ContentAnalysisProofs` |

### JobStore and JobRegistry

A job is a record with the fields of `StoredJob` that decide anything: owner,
idempotency key, parameters, state, result, error, event history, next sequence
number and publication marker. Parameters, errors and archives are model values.
`PersistentState` is the content of `jobs.json`: next job number, jobs and the
idempotency index. The registry has `mem` and `disk`, `up`, `healthy` and
`closed`. Each operation is one action because the registry runs it under its
mutation lock, except `record_pack_publication`, which verifies the archive
before it takes the lock: `RecordVerify` and `RecordCommit`. `Commit(next, io)`
has the outcomes of `commit`: stored; refused before the rename; renamed but the
directory could not be synced. A store that is too large is one of the refusals: like
the others it leaves the file alone and the registry unhealthy. `Open` loads, recovers and stores again.
`Crash` may happen at any time. Other programs may write or remove the output of a
pack.

### FairScheduler

`queue[l][o]` is the queue of session `o` in lane `l`, `order[l]` the rotation of
sessions, `credits`, `cursor` and `len` the fields of the Rust struct. `Skip` and
`Serve` are the two ways through one iteration of `pop`. History variables count
how many pops a nonempty lane and how many turns a session have waited.

### DaemonService

A step is what one task does between two awaits or lock acquisitions. The registry
appears as the state of each job changed by atomic calls that may fail, the queue
as a set from which any job may be popped: this abstracts the order `FairScheduler`
decides. Permits are computed from what the tasks hold. `task[j]` is the program
counter of `execute_scheduled` for job `j`; `submit`, `canceller` and `timer` are
those of the request handlers and of the deadline timer; `closer` is the task
`mark_storage_degraded` spawns; `shutdown` is the server's. A daemon degrades when the
registry is unhealthy, when an output cannot be inspected, and when the session store
fails while the registry is healthy (`OpenSessionFails`).

`CancelReachesWorker` has two parts. A client whose cancel request was answered has a
worker with a cancelled token, in a degraded daemon too. A recorded cancellation is
with the token, or the request, timer or shutdown that recorded it still has to look
the token up; the cancellations that a degraded daemon records for all its jobs are
the exception, and finding 1.

### DaemonInstances

Processes open the store, recover it, write it back, probe the endpoint, remove a
stale socket, bind, accept and finish jobs from their own memory, unlink and leave,
in the order of `main` and `spawn_unix`. The constant `MayStart` says when a
process may be started: `alone`, once no other process runs, or `unanswered`, once
nobody answers at the endpoint.

### Connections

Every await and every lock ends a step. `server` is where the task of `spawn_unix`
is, `task[c]` where the task of connection `c` is: opening its entry in the table,
reading a length, reading a payload, handling, waiting in a long poll, writing,
closing. `slots` are the free permits of the semaphore, `table` the service's map
from connections to limiters; the two are bounded by the same number and changed at
different moments, which is what `AdmittedIsServed` is about. A client sends frames
of size 0, at the limit and above it, stalls in the middle of one, stops reading, or
goes away. A limiter carries a ghost bucket filled at every tick; they agree as long
as the clock was not set back and not read as 0. A followed job appends events,
keeps the last `RetainedEvents` and may end at any time, in particular between the
two reads of `subscribe_events`; `got` is a ghost of what the follower received. An
attempt in `Foreign` belongs to another user and is dropped after the peer check.

### TaskScheduler

The graph and the memory of the tasks are chosen initially, so that one run covers
every graph on the given number of tasks. `validate_dag` takes one task per step.
The loop's phases are dispatching and receiving; a worker looks at the token before
and after its action and then sends its result.

### ClientSession

A client opens a session, submits two commands and polls each; a request is a
message with an answer that may come late, after the client gave up on the
connection. The daemon keeps `sessions` (stored) and `conns` (capabilities of open
connections), and may crash, restart, fail to store a session or a job, or stop
admitting the client's scope. Other clients fill the session table, the session store
and the job store. Any request may meet the rate limit (`RefuseRate`). A submission may
be refused by its own checks: quotas, its deadline, paths outside the scope or that
cannot be inspected (`TurnAway`); by the job store: retention, the session's share, the
store's size; or because the paths under its key changed (`Conflict`). A commit of the
session store is stored, refused, unsynced or too large, and only the last leaves the
daemon healthy. Tokens and ids are numbers never used before.

`FailsWithCause` lists what can make a client with a session fail: two transport
errors, expiry, a daemon that is down or degraded or no longer admits its scope, or an
answer that turns this request away. What it excludes is that a live session is denied
or a submitted command's job is not found, whichever answers were lost.

### ArchiveCatalog, ArchivePack and ArchiveEngine

A file is a sequence of units, a unit being what one read returns. A BLAKE3 hash
is the bytes it was computed from; a CRC32C that should differ may agree
(`CrcPasses`). `Build` is what pack writes to its spool and `CatalogValid`,
`WithinLimits` and `PayloadValid` what `read_catalog` and `verify_open_file` check,
each translated from its own code, so that a disagreement between writer and
reader shows. The compressed codecs are two: `STORE` and one that shrinks repetitive
bytes to one unit and adds one unit to anything else.

`ArchivePack` has one action per system call that another program can come
between: the scan of a path, the check of identity, length and mtime, the open,
each read, the check afterwards. Others write to a file, with or without a change
of its mtime, rename a new file over it (`ReplaceInput`), or rename any file that is
still around over it, the scanned one included (`ReturnInput`). The checks look at
paths, so they cannot see that the scanned file was away while another was read;
`silent` counts these returns and the writes that keep the mtime. In `ArchiveEngine` one reading call runs once pack is over, while others
overwrite units of the payload and take the output path. `PackOver` limits reading
to packs whose inputs were left alone, because a reader sees nothing of the inputs.

### Outcomes, LogicalChunking, MicroFilePack, Fingerprints and ContentAnalysis

The calls on bytes in memory are operators that return a value or the error of the
first check that fails. A call over a reader takes one step per read; the reader
returns any part of what it was asked for, ends early, or fails, and the caller's
checkpoint may refuse. FastCDC belongs to another crate: it cuts after a 1 or at the
maximum, so that content decides where chunks end. A batch of fingerprints fills its
slots by workers in any order. `MicroFilePack` damages the compact metadata of a plan
before it is used, one field per damage. Hashes that the code treats as unique are the
bytes themselves; the short ones (XXH3, CRC32C, half of BLAKE3) collide. Words have
four bits, so that the rolling hashes wrap; `LargestChunk` stands for the greatest
chunk a fingerprint configuration may ask for (4 MiB).

`ChunksTile` compares a refused call with the same call under a limit on the chunks
that no object of its length exceeds (`Roomy`): within all other limits, it is refused
only if that call has more chunks than the limit, so one chunk too few at the exact
count would show.

## 3. Runs

| Run | Instance | Shows |
|---|---|---|
| `registry` | one session, two keys, a pack and a list, one contested output, two retained events, as many jobs as the limits admit | safety of the registry under commit failures, crashes and foreign writes; it implements `JobLedger` |
| `fair_scheduler` | three lanes of weights 2, 1, 1, two sessions, three jobs that may come back for ever | redundant state agrees; a lane waits at most the weights of the others, a session at most one turn; no job starves |
| `service` | a pack with a deadline and a cancellable job, permits for one, one failing commit | safety of cancellation, publication and shutdown |
| `service_live` | the same without failing commits; inspecting an output may fail | every accepted job ends, if operations do; what was asked to end ends |
| `service_fail_closed` | two jobs, the output path cannot be inspected | violation, see findings |
| `instances_alone` | two processes, two jobs, no overlap | accepted jobs survive crashes; a stale socket does not block |
| `instances_handover` | two processes that overlap | violation, see findings |
| `connections` | six workloads: three connections for two permits; two and one of another user, with a failing accept and a shutdown; one client with frames of every size and a service that degrades; one with a clock that moves both ways; a follower over one connection, or over two in turn | an admitted connection is served, limiters forget no time, a follower misses no event, connections and the shutdown end |
| `task_scheduler` | every graph on three tasks, memory below, at and above the budget | cycles, budget, failure, and that the call returns, which a full channel would prevent |
| `client_session` | one client with two commands, one session slot it shares with others, two faults, time enough to expire | one job per command, resumable sessions, failures with a cause, and that the client ends |
| `archive_engine` | eight trees, up to three changes to the inputs, two damaged units, both profiles | snapshots, agreement of writer and reader, restoring, publication; findings 3 to 5 |
| `content_analysis` | every object of up to five bytes over {0, 1} with limits just enough and one too small; up to three of seven micro files in any order, five that fit, one plan damaged twice; fingerprints of up to nine bytes, streams of up to six whose declared length is right or wrong by one, batches of three | streaming equals in-memory, chunks tile, packs restore their files, validation is sound, rolling hashes equal their definition, collisions keep the full hash |

Why the bounds are enough. Two jobs are what it takes for one to hold what the
other waits for, to be popped while the other starts, or to own the output the
other wants; each holds a different position in the code, so all pairs of
positions are covered. One failing commit reaches every state of an unhealthy
registry, because a registry never becomes healthy again before a restart. Two
retained events make every append after the second trim the history. Three lanes
are the least with a lane between two others, and weight 2 the least that serves a
lane twice in a round. Three tasks make chains, joins, forks and cycles of each
length up to three. Two faults reach a fault while the first is being retried. Three
steps are what it takes to deceive pack by its paths: another file comes, is written to
while it is read, and the scanned one returns; one step less leaves each of them
visible. The two trees of three paths, which are there for groups and tables, have one
step. Files of two units are the least that can be torn. Two units of damage can
strike before and after a verification. The trees hold a group of two files, a
hard link met after the file it shares and one met before it, paths out of order, a
directory, a symbolic link, a file that compresses beyond the expansion
limit, a total above its limit, a path met twice and an unsupported file.

Two permits and three clients are the least with one connection leaving while
another holds its slot and a third wants one. Two retained events and three in all
let one be pushed out while the follower waits; three polls are a first answer, an
answer after a wait and the one that reports the end. Four clock values let a bucket
of two tokens empty, refill in part and meet its capacity while the clock goes back.
Frame sizes 0, 1 and 2 with a limit of 1 are empty, at the limit and above it. An
object of five bytes is longer than the greatest chunk (3) and leaves a remainder; a
read buffer of two makes every region take several reads. Three micro files are one
that opens a pack, one that joins it and one that opens the next; the seven include
an isolated one, one too large, an empty one, a repeated id and a repeated path.
Nine bytes in two or four subchunks leave a remainder in each case, and windows of
one to three bytes are shorter than, equal to and longer than a region.

The type invariants of all modules and `LenIsQueued` and `RoundShape` of
`FairScheduler` document the state and serve the proofs; no run lists them.

`CHECK_DEADLOCK FALSE` appears where the system may stop: a daemon that was shut
down, a call that returned, a registry whose every key ended.

### Fairness

* Queue (`fair_scheduler`): `pop`'s loop is synchronous code, so its steps are weakly fair; `pop` is
  called again and again by the drainer, so starting it is weakly fair. Pushes are
  not fair.
* Service: tokio polls every ready task, and no lock is held across an await, so
  each step of each task is weakly fair. A task polling for permits is weakly fair
  in getting them when they are free: with finitely many jobs they become and stay
  free. Clients owe nothing. `CheckpointSpec` adds that a cancelled worker ends,
  which is what the engine's checkpoints give; `JobsEnd` is stated for behaviours in
  which operations that nobody cancels end too (`OperationsEnd`).
* Connections: the runtime polls every task that can go on, and its timers fire: the
  frame timeout, which ends a read or a write that a client stalls, and the deadline
  of a long poll. Nothing is assumed of clients, of the clock or of the job; a client
  makes boundedly many requests, because one that never stops asking keeps its
  connection.
* Client: the client's code runs, the daemon serves what it received, a job ends.
  Nobody has to restart the daemon and time need not pass.
* Task scheduler: the caller's thread runs, and a pool thread with a task runs.

## 4. Proofs

`JobRegistryProofs` proves, for every set of sessions, keys, parameters and
outputs and for all limits, and from `JobStoreAssumption` alone:

* `TypeCorrect`: `Spec => []TypeOK`;
* `MemoryFollowsDisk`, `StoreCanReopen`, `AcknowledgedKeysSurvive`: the invariants
  `MemoryIsDisk`, `StoreAlwaysLoads`, `AckedIsDurable`;
* `TerminalIsImmutable`: the action property `TerminalImmutable`.

They rest on the inductive invariant `StoreInv` (`StoreInvariant`), which conjoins the
types, `ValidState(disk, TRUE)` (the checks of `validate_state`, retention included) and
`MemoryIsDisk` (memory equals the file while the daemon is up). None of the three is
inductive alone: that a candidate passes validation needs the previous file to pass
it, and that memory equals the file needs that validation in `commit` never refuses
a candidate of the code itself. `AckedIsDurable` is inductive relative to it.

The argument has three layers. The first is about one job: each operator of
`JobStore` yields a `Successor` of a well-formed job, that is a well-formed job
with the same owner, key and parameters, and leaves a job that ended alone. The
second is about the store: a state whose jobs are replaced by successors
(`UpdatedFrom`), or to which one new job is added (`SubmittedFrom`), passes
`validate_state` again, and trimming changes nothing in it. The third is about the
steps: each action of the registry commits such a candidate or leaves the file
alone. The theorems about terminal jobs and acknowledged keys follow from the same
classification of steps.

`FairSchedulerProofs` proves, from `FairSchedulerAssumption`, for any number of
lanes with any weights and any sets of sessions and jobs: `SchedulerTyped`,
`OrderAgrees`, `LenIsExact`, `RoundsKeepShape`, `LaneWaitIsBounded` and
`SessionsAlternate`. The bound on a lane's wait is not inductive. `RoundInv` adds the
shape of a round (lanes before the cursor have no credits, lanes after it all of
theirs) and `WaitBudget`: what a lane has waited and the credits still ahead of it
in this round and the next add up to no more than the weights of the other lanes.
A serve moves one unit from the second term to the first, a skip drops credits, and
the refill at the end of a round restores what the lanes before it may still take.
`LenIsExact` needs that a job is queued at most once (`SlotInv`), so that a push and
a serve change the number of queued jobs by one. `SessionsAlternate` needs where in
the rotation a session that was served last stands (`TurnInv`).

`JobRegistryProofs` also proves the refinement and the ownership of archives.
`ImplementsTheLedger` maps a registry state to one ledger line per idempotency key,
taken from the file. The classification of steps above gives each step of the
registry as a step of the ledger on the lines it touches, or as a stutter: a commit
that failed before its rename, a crash and a restart that changes nothing are
stutters, one that failed after its rename is not. `PacksOwnTheirArchives` needs
`OwnInv`, which follows an identity from the worker that published it, through the
call that reads it back before it takes the lock, into the marker and from there to
`completed`; a path somebody tampered with is excluded at each of these places.

`EndpointProofs` proves, of `DaemonInstances`, `AcknowledgedSurvive` and
`StartsSucceed` for any number of processes and jobs. The first has the hypothesis `MayStart = "alone"`,
without which the run `instances_handover` shows it false: in `AloneInv` at most one
process runs and its memory is the file. The second holds for both values of
`MayStart`: in `StartInv` one process starts at most, nobody serves meanwhile,
whoever serves owns the socket file, and what a start found at the endpoint is still
there.

`TaskSchedulerProofs` proves, for every graph, every budget and every number of
workers: `TypeCorrect`, `ValidateExact`, `MemoryIsAccounted`, `FailureStopsWork` and
`NeverStuck`. For `validate_dag` the invariant names the set `V` of visited tasks: it is closed
under dependencies, every nonempty subset of it has a task that depends on none of
the subset, and the in-degree of a task counts its dependencies outside `V`. When
nothing is ready and tasks are left, these are the cycle; when none is left, `V` is
everything and there is none. The memory account is a sum over a set, which the
library defines by a fold over `CHOOSE`; that the order does not matter is proved by
looking at a smallest set for which it would. `NeverStuck` is the safety part of
`CallReturns`: with nothing running the whole budget is free, and a graph without a
cycle has a ready task.

`EndpointProofs` also proves, of `Connections`, from `ConnectionsAssumption`, for any
finite set of connections, any number of permits and all workloads: `AdmittedServed`,
`RateIdeal` and `NothingSkipped`. `ConnInv` has three parts. `SlotInv` counts: permits left and tasks
that hold one add up to `MaxConnections`, and the table knows only tasks among those.
`RateInv` relates each limiter to its ghost. `FollowInv` says of an answer on its way
that it holds everything retained after the point up to which the follower already
has what was retained. The assumption says which kinds of answers a workload may have.

`ClientSessionProofs` proves, from `ClientSessionAssumption`, for any number of
clients, commands, faults and restarts: `OneJobEach`, `TokenResumes` and
`FailuresHaveCauses`. `SessionInv` describes the four things that can disagree: a
client (`ClientInv`), a request and its late answer (`CallInv`), a connection's
attached session (`ConnInv`) and a job (`JobInv`); and that requests, connections,
sessions and keys are not shared (`ApartInv`). The invariants are not inductive
without the answers on their way: a token that a client does not have yet is in the
answer that grants it, stored and known to the connection it came over. An answer that
turns a request away is a cause in `FailsWithCause` wherever it was given; the work is
in the other answers, that an unauthenticated or unknown-job one cannot meet a client
whose session lives.
`RegistryStaysBounded` is inductive by itself: the registry stays finite and within
`MAX_SESSIONS`, because `create` counts after pruning and `resume` maps the stored
sessions onto the rotated ones.

`DaemonServiceProofs` proves, from `DaemonServiceAssumption`, for any set of jobs, any
permits and any number of failing commits: `PublicationWins`, `ShutdownIsFinal` and
`CancellationArrives`. `ServiceInv` is a conjunction over single jobs (`JobInv`: where
its record, submission, task, worker and publication can be at the same time) and
what each stage of a shutdown has put an end to (`CloseInv`); a step of one job's task
leaves every other job's part alone, which is proved once (`KeptJob`).
`CancellationArrives` has the invariant `TokenInv`: a cancel request that was answered
has cancelled the token of every worker its job can still get, because by then the job
has been settled in the registry, and a task whose token was not in the map yet sees
that before it starts. It holds of every daemon, one that fails closed with a healthy
registry included, since it claims nothing of the cancellations which that records
after it cancelled the tokens (finding 1).

`ArchiveEngineProofs` proves, from `ArchiveCatalogAssumption` and
`ArchivePackAssumption` (trees are well formed: a path that is a file leads to one),
for every tree, content and limit and any number of changes and units of damage:

* `PublishedIsVerified`, `RestoresWhatWasPacked`, and the action property
  `NothingIsReplaced`, from `EngineInv`. Nothing is assumed about the tables that
  `Build` writes: an archive is published after `Verifies` held of it, and `DataInv`
  follows the bytes of a reading call from the decoded group to the output and says
  where they have been compared with the entry table.
* `PackedAreSnapshots`, from `SnapInv` relative to `EngineInv`. `ScanInv` relates an
  entry of the scan to the input now: the path may lead elsewhere, but the mtime of the
  scanned file does not go back. `ReadingInv` says that a descriptor of another file
  means that the path leads elsewhere still (`Away`), and that what was read through the
  right one is a prefix of that file unless its mtime moved (`Clean`), in both cases
  unless a step that no look at the path can see came between (`Excused`). `HashedInv` carries this to the sources already read, once or twice:
  a second read with the same hash needs a second such step to be fooled. A hard
  link gets the hash of its source; `SharedOk` says when its own path held those bytes.
* `SpoolsAreAccepted`, from `SpoolInv` relative to both: when the spool is verified
  every source has been read as often as its profile asks, with the same bytes, and the
  spool is what `Build` makes of them. The rest (`BuildAccepted`) is about `Build`
  alone: the planner cuts the sources into groups without a gap (`PlanCuts`), so an
  offset in a group is the sum of the lengths before it, the groups tile the payload,
  and each mapping restores the bytes its source had. Folds and recursive functions
  occur here; each is first shown to exist (`FoldExists`), which makes its defining
  equation usable, and the inductions are made over sets of numbers (`UpTo`), since the
  library's induction theorems cannot be instantiated.

`ContentAnalysisProofs` proves, from `LogicalChunkingAssumption` (the arguments of a
call have their types, a size of fixed blocks that the format accepts is not 0, and
the drafts of other objects are such as the crate's calls return), for every content,
ends, origin, configuration, buffer and order:

* `StreamsMatchMemory`. An in-memory call is a fold, or a recursive function from
  offset to offset. Its value is unrolled once, into a trace: what has been pushed
  after each chunk (`CdcTrace`), what has been collected after each region
  (`RegionsTrace`). `StreamInv` relates a call over a reader to it. The counters of
  the FastCDC stream say which bytes are in its buffer (`CdcInv`), and as long as the
  object fits its limits, what it has pushed is a place of the trace; once a limit is
  passed, both refuse. The cut of a full buffer is the cut of the whole data
  (`CutOnBuffer`), which is why the buffer has to hold the greatest chunk. For
  regions, the stream is compared only while its length can still be what the ends
  say (`Match`); a shorter or longer one is refused by both.
* `ChunksExact`. The tiling is an invariant of the same traces: the chunks so far
  follow each other from the base offset to where the trace is (`Tiles`), and each
  ends where FastCDC is due in its region (`Due`, `RegionChunk`), or is a block of the
  fixed size or what is left. Such a list passes `validate_chunk_coverage` and has no
  more chunks than bytes, so a call whose limit on the chunks is above the bytes is
  never refused for it. Two calls that differ in that limit only cut alike as far as
  both get (`CutAlike`, `SameCount`), region by region where each gets what the regions
  before have left (`RegionCount`); so a limit that is kept refuses nothing.
  For the ids, a pass of the merge sort over runs of one width keeps every draft and
  leaves runs of twice the width, and the sort ends with one run; neighbours of a
  sorted list with different positions make all positions different, and a draft's
  number is the count of those before it. `ExactInv` adds to `StreamInv` that an
  in-memory outcome is the operator's and that ids were assigned in some order.

What is only model-checked, and why:

* liveness under fairness (`NoJobStarves`, `JobsEnd`, `AskedJobsEnd`, `ConnectionsEnd`,
  `CallReturns`, `ClientEnds`): the prover has no rules for `ENABLED`
  and fairness here;
* `PlanRestoresInputs` and `ValidatedIsSound`: the metadata of a pack is written and
  read by nested folds (front coding, dictionaries, deltas), selections and flattened
  sequences; unrolling each of them as above has not been done;
* `FingerprintIsReference`: the rolling hash is compared with a power sum modulo a word,
  and the installed provers have no law of `^` and little about products of variables;
  `CollisionsKeepFullHash` compares the same values.

## 5. Findings

1. `service_fail_closed`: `mark_storage_degraded` cancels the tokens in the map
   before the registry is closed; a task that was popped earlier and inserts its
   token afterwards runs on although the daemon failed closed.
2. `instances_handover`: the socket is removed before the last results are stored;
   a successor that starts meanwhile loses the job it accepted.
3. `archive_engine`, `NothingReplaced`: `atomic_commit` keeps what is at its target and fails; its comment
   and ADR-010 say that it replaces the target. The property states what the code does.
4. `archive_engine`, `NothingReplaced`: unpack's rename replaces an empty directory that appeared at the
   destination after the check; the README says that no destination is overwritten.
   The property holds with this exception and not without it.
5. `archive_engine`, `RestoredIsPacked`: `extract_to_writer` writes an entry to its writer before it
   compares the BLAKE3 (`extract` and `read_range` compare first); what the writer got
   is then followed by an error. The format document says that extraction validates the
   hash before publication. The property speaks of what is reported as good only.

`PROJECT.json` quotes the documentation each one contradicts.

Remarks that contradict no document:

* A second daemon started by mistake rewrites the store before it notices that the
  endpoint is taken, and can turn a completed job into a failed one. Two starts that
  both find a stale socket may unlink each other's.
* Pack verifies its spool with the default expansion limit of 1000, so a compressed
  pack of very repetitive input fails after all the work is done.
* If a write changes a file's length between the scans of two of its hard links, the
  declared total counts each link with the length it had then, and pack may fail with
  a metadata error on its own spool instead of `InputChanged`; nothing is published.
  `SpoolIsAccepted` excludes this case (`LinksAgree`).
* Pack reads a file through the first of its links in path order and compares the
  others by identity at the scan only. A link that the scan met earlier than that one
  may be replaced before the file is read, and is then packed with bytes its path
  never held; `PackedIsSnapshot` says so (`HeldOrEarly`). A link met later holds what
  its path held.
* The second read of the compressed profile detects one write that keeps the mtime, and
  one return of the scanned file. Two can tear both reads the same way. The raw profile
  reads once and detects neither.
* `subscribe_events` reads the events and then the state, so an answer can be marked
  terminal without the last event. The cursor does not move past it: a follower that
  asks once more gets it.
* A rate limiter forgets the time that passed when the clock reads 0 or is set back;
  it never grants more than its burst.
* The read after the last structural region, and the FastCDC stream, give up when a
  read is interrupted; `consume_exact_region` reads again.

## 6. Not modelled, and the plan

Left out because there is no state to go wrong in a way a small instance would show:
argument parsing and output of the CLI, JSON encoding, byte layout of the archive,
compression itself, `QuotaPolicy::validate`, canonicalisation of paths (its verdict is
an input of the other modules), preparation of directories and their permissions.
Windows pipes have code of their own; the Unix path is modelled. The stubs hold no
logic.

Left out, with a hazard that no property covers: power loss between the rename and
the directory sync (`disk` in `JobRegistry` is what the file system shows, not what is
on the medium), and a job that asks for many permits being overtaken for ever by
small ones (the instances have finitely many jobs).

Next modules, most important first:

1. power loss, as a durable view next to `disk` in `JobRegistry`;
2. `list`, `inspect` and the daemon's use of the engine's budgets;
3. the order of checks in decoding an archive's records.

Next theorem: that validated metadata of `MicroFilePack` is sound, by traces like
those of chunking.
