--------------------------- MODULE DaemonService ---------------------------
(***************************************************************************)
(* DaemonService of crates/pithos-daemon/src/service.rs: how a submitted   *)
(* job is admitted, queued, given permits, run, cancelled, expired and     *)
(* ended, and how the daemon shuts down or fails closed, as interleaved    *)
(* tasks.                                                                  *)
(*                                                                         *)
(* A step is what a task does between two awaits or lock acquisitions.     *)
(* The job registry (JobRegistry.tla) appears as the service sees it: the  *)
(* state of a job, changed by atomic calls that may fail and then leave    *)
(* the registry unhealthy.  The queue (FairScheduler.tla) appears as a     *)
(* set: any queued job may be popped.  Job, thread and memory permits are  *)
(* owned by the job's task and freed when it drops them, so the permits    *)
(* left are computed from what the tasks hold.                             *)
(***************************************************************************)
EXTENDS Integers, FiniteSets, FiniteSetsExt

CONSTANTS
    Jobs,            \* submissions clients may make, one idempotency key each
    Packs,           \* the jobs whose operation is Pack
    Deadlines,       \* the jobs submitted with a deadline
    Cancellable,     \* the jobs whose client may send `cancel`
    JobSlots,        \* max_concurrent_jobs
    Threads,         \* permits of thread_slots
    Memory,          \* permits of memory_slots
    ThreadsOf,       \* ThreadsOf[j]: permits the job's limits ask for
    MemoryOf,
    MaxFaults,       \* bound: commits that fail, of jobs.json or of sessions.json
    InspectFails     \* whether inspecting a pack's output path may fail

ASSUME DaemonServiceAssumption ==
    /\ Packs \subseteq Jobs /\ Deadlines \subseteq Jobs /\ Cancellable \subseteq Jobs
    /\ JobSlots \in Nat \ {0} /\ Threads \in Nat \ {0} /\ Memory \in Nat \ {0}
    /\ ThreadsOf \in [Jobs -> 1 .. Threads]     \* limits are admitted within the quota
    /\ MemoryOf \in [Jobs -> 1 .. Memory]
    /\ MaxFaults \in Nat /\ InspectFails \in BOOLEAN

VARIABLES
    state,      \* state of each job in the registry, or "none"
    healthy,    \* JobRegistry.healthy
    closed,     \* JobRegistry.closed
    recorded,   \* packs whose publication is recorded in the registry
    faults,     \* number of failed commits so far
    submit,     \* step of the request that submits each job
    canceller,  \* step of the request that cancels each job
    timer,      \* step of each job's deadline timer
    expired,    \* jobs whose deadline has passed
    queue,      \* SchedulerState.queue
    drainer,    \* step of drain_scheduler, "off" when it does not run
    draining,   \* SchedulerState.draining
    task,       \* step of execute_scheduled for each job
    holds,      \* permits the job's task owns
    running,    \* keys of the map of cancellation tokens
    cancelled,  \* jobs whose token is cancelled
    work,       \* the blocking worker: "none", "busy" or how it ended
    published,  \* packs whose worker put its archive in place
    degraded,   \* storage_degraded
    stopping,
    closer,     \* the close_and_cancel_all that mark_storage_degraded spawns
    shutdown    \* step of the server's shutdown

registryVars == <<state, healthy, closed, recorded, faults>>
requestVars == <<submit, canceller, timer, expired>>
queueVars == <<queue, drainer, draining>>
taskVars == <<task, holds>>
tokenVars == <<running, cancelled>>
workVars == <<work, published>>
stopVars == <<degraded, stopping, closer>>
vars == <<registryVars, requestVars, queueVars, taskVars, tokenVars, workVars, stopVars, shutdown>>

Terminal == {"completed", "failed", "cancelled"}
Ended(j) == state[j] \in Terminal
Live(j) == state[j] \in {"queued", "running", "cancelling"}

Free(kind, total, of) ==
    total - MapThenSumSet(LAMBDA j : of[j], {j \in Jobs : kind \in holds[j]})
FreeSlots == JobSlots - Cardinality({j \in Jobs : "slot" \in holds[j]})
FreeThreads == Free("threads", Threads, ThreadsOf)
FreeMemory == Free("memory", Memory, MemoryOf)

Init ==
    /\ state = [j \in Jobs |-> "none"]
    /\ healthy = TRUE /\ closed = FALSE /\ recorded = {} /\ faults = 0
    /\ submit = [j \in Jobs |-> "idle"]
    /\ canceller = [j \in Jobs |-> "idle"]
    /\ timer = [j \in Jobs |-> "off"]
    /\ expired = {}
    /\ queue = {} /\ drainer = "off" /\ draining = FALSE
    /\ task = [j \in Jobs |-> "none"]
    /\ holds = [j \in Jobs |-> {}]
    /\ running = {} /\ cancelled = {}
    /\ work = [j \in Jobs |-> "none"]
    /\ published = {}
    /\ degraded = FALSE /\ stopping = FALSE /\ closer = "off"
    /\ shutdown = "none"

-----------------------------------------------------------------------------
(* Calls of the registry.  A commit is stored; or refused before the       *)
(* rename; or stored without a synced directory.  The last two leave the   *)
(* registry unhealthy, and every later update fails with Internal.         *)
Outcomes == {"ok", "refused", "unsynced"}

Commit(new, io) ==
    /\ io # "ok" => faults < MaxFaults
    /\ state' = IF io = "refused" THEN state ELSE new
    /\ healthy' = (healthy /\ io = "ok")
    /\ faults' = IF io = "ok" THEN faults ELSE faults + 1

NoCommit(io) == io = "ok" /\ UNCHANGED <<state, healthy, faults>>

\* update_owned, with a closure that refuses the job unless `allowed`.
Update(j, allowed, to, io) ==
    IF healthy /\ allowed THEN Commit([state EXCEPT ![j] = to], io) ELSE NoCommit(io)

\* What the caller of update_owned gets.
Reply(allowed, io) ==
    CASE ~healthy -> "internal"
      [] healthy /\ ~allowed -> "conflict"
      [] healthy /\ allowed -> IF io = "ok" THEN "ok" ELSE "internal"

\* close_and_cancel_all; it runs on an unhealthy registry too.
CloseAndCancelAll(io) ==
    LET new == [j \in Jobs |-> CASE state[j] = "queued"  -> "cancelled"
                                 [] state[j] = "running" -> "cancelling"
                                 [] OTHER -> state[j]]
    IN  /\ closed' = TRUE
        /\ IF new # state THEN Commit(new, io) ELSE NoCommit(io)

\* mark_storage_degraded.  Between its steps nothing can enter the queue
\* (stopping is set first), so it is one step; close_and_cancel_all is spawned.
MarkDegraded ==
    /\ degraded' = TRUE
    /\ stopping' = TRUE
    /\ queue' = {}
    /\ cancelled' = cancelled \cup running
    /\ closer' = IF degraded THEN closer ELSE "spawned"

\* What every caller does with an error: it degrades the daemon when the
\* error is Internal or the registry is unhealthy by now.
Notice(reply) ==
    IF reply = "internal" \/ ~healthy THEN MarkDegraded
    ELSE UNCHANGED <<stopVars, queue, cancelled>>

CloserRuns(io) ==
    /\ closer = "spawned"
    /\ CloseAndCancelAll(io)
    /\ closer' = "done"
    /\ UNCHANGED <<recorded, requestVars, queueVars, taskVars, tokenVars, workVars,
                   degraded, stopping, shutdown>>

-----------------------------------------------------------------------------
(* Requests.  handle_frame turns every frame away once the registry is     *)
(* unhealthy or the daemon is stopping.                                    *)
Connected == shutdown = "none"
Admitted == Connected /\ healthy /\ ~degraded /\ ~stopping

FrameOnUnhealthy ==
    /\ Connected /\ ~healthy
    /\ MarkDegraded
    /\ UNCHANGED <<registryVars, requestVars, drainer, draining, taskVars, running, workVars, shutdown>>

\* open_session: the session store's commit fails, or its blocking task dies.
\* The daemon is degraded while the job registry is healthy.  The request was
\* admitted earlier, so it may return when the daemon is stopping already.
OpenSessionFails ==
    /\ Connected
    /\ faults < MaxFaults
    /\ faults' = faults + 1
    /\ MarkDegraded
    /\ UNCHANGED <<state, healthy, closed, recorded, requestVars, drainer, draining, taskVars,
                   running, workVars, shutdown>>

SubmitReceived(j) ==
    /\ Admitted
    /\ submit[j] = "idle"
    /\ submit' = [submit EXCEPT ![j] = "received"]
    /\ UNCHANGED <<registryVars, canceller, timer, expired, queueVars, taskVars, tokenVars,
                   workVars, stopVars, shutdown>>

\* submit_with_limit, on the blocking pool: it runs to its end even when the
\* connection that asked for it is gone.
SubmitCall(j, io) ==
    /\ submit[j] \in {"received", "orphan"}
    /\ Update(j, ~closed, "queued", io)
    /\ submit' = [submit EXCEPT ![j] =
            IF @ = "orphan" THEN "end"
            ELSE IF closed THEN "conflict"
            ELSE IF Reply(~closed, io) = "ok" THEN "accepted" ELSE "internal"]
    /\ UNCHANGED <<closed, recorded, canceller, timer, expired, queueVars, taskVars, tokenVars,
                   workVars, stopVars, shutdown>>

SubmitNotice(j) ==
    /\ submit[j] \in {"internal", "conflict"}
    /\ Notice(submit[j])
    /\ submit' = [submit EXCEPT ![j] = "end"]
    /\ UNCHANGED <<registryVars, canceller, timer, expired, drainer, draining, taskVars, running,
                   workVars, shutdown>>

\* submit, after the registry accepted: the health is looked at once more.
SubmitChecks(j) ==
    /\ submit[j] = "accepted"
    /\ submit' = [submit EXCEPT ![j] = IF healthy THEN "schedule" ELSE "internal"]
    /\ UNCHANGED <<registryVars, canceller, timer, expired, queueVars, taskVars, tokenVars,
                   workVars, stopVars, shutdown>>

\* schedule, under the scheduler lock; it starts drain_scheduler unless one
\* runs, and the job's deadline timer.
Schedule(j) ==
    /\ submit[j] = "schedule"
    /\ submit' = [submit EXCEPT ![j] = "end"]
    /\ IF stopping THEN UNCHANGED <<queueVars, timer>>
       ELSE /\ queue' = queue \cup {j}
            /\ draining' = TRUE
            /\ drainer' = IF draining THEN drainer ELSE "check"
            /\ timer' = IF j \in Deadlines THEN [timer EXCEPT ![j] = "armed"] ELSE timer
    /\ UNCHANGED <<registryVars, canceller, expired, taskVars, tokenVars, workVars, stopVars, shutdown>>

CancelReceived(j) ==
    /\ Admitted
    /\ j \in Cancellable
    /\ canceller[j] = "idle"
    /\ submit[j] = "end" /\ state[j] # "none"
    /\ canceller' = [canceller EXCEPT ![j] = "call"]
    /\ UNCHANGED <<registryVars, submit, timer, expired, queueVars, taskVars, tokenVars, workVars,
                   stopVars, shutdown>>

\* What request_cancel makes of a job.
CancelTo(j) ==
    CASE state[j] = "queued"  -> "cancelled"
      [] state[j] = "running" -> "cancelling"
      [] OTHER -> state[j]

\* request_cancel, on the blocking pool.
CancelCall(j, io) ==
    LET allowed == state[j] \notin {"completed", "failed"}
    IN  /\ canceller[j] \in {"call", "orphan"}
        /\ Update(j, allowed, CancelTo(j), io)
        /\ canceller' = [canceller EXCEPT ![j] =
                IF @ = "orphan" THEN "end"
                ELSE IF Reply(allowed, io) = "ok" THEN "token" ELSE Reply(allowed, io)]
        /\ UNCHANGED <<closed, recorded, submit, timer, expired, queueVars, taskVars, tokenVars,
                       workVars, stopVars, shutdown>>

\* Mutant: tells the registry only.
CancelTokenNowhere(j) == cancelled' = cancelled

\* A token is reached through the map of running jobs, or not at all.
CancelToken(j) == cancelled' = cancelled \cup ({j} \cap running)

\* The request is answered with the job's new state.
CancelReaches(j) ==
    /\ canceller[j] = "token"
    /\ CancelToken(j)
    /\ canceller' = [canceller EXCEPT ![j] = "answered"]
    /\ UNCHANGED <<registryVars, submit, timer, expired, queueVars, taskVars, running, workVars,
                   stopVars, shutdown>>

CancelNotice(j) ==
    /\ canceller[j] \in {"internal", "conflict"}
    /\ Notice(canceller[j])
    /\ canceller' = [canceller EXCEPT ![j] = "end"]
    /\ UNCHANGED <<registryVars, submit, timer, expired, drainer, draining, taskVars, running,
                   workVars, shutdown>>

-----------------------------------------------------------------------------
(* Deadlines: time passes, the timer of `schedule` fires (expire_job).     *)
Expire(j) ==
    /\ j \in Deadlines \ expired
    /\ Live(j)
    /\ expired' = expired \cup {j}
    /\ UNCHANGED <<registryVars, submit, canceller, timer, queueVars, taskVars, tokenVars, workVars,
                   stopVars, shutdown>>

\* expire_deadline
ExpireTo(j) ==
    CASE state[j] = "queued"  -> "failed"
      [] state[j] = "running" -> "cancelling"
      [] OTHER -> state[j]

TimerCall(j, io) ==
    /\ timer[j] = "armed" /\ j \in expired
    /\ Update(j, state[j] \in {"queued", "running"}, ExpireTo(j), io)
    /\ timer' = [timer EXCEPT ![j] =
            IF ~healthy' THEN "internal"
            ELSE IF state[j] \in {"running", "cancelling"} THEN "token" ELSE "off"]
    /\ UNCHANGED <<closed, recorded, submit, canceller, expired, queueVars, taskVars, tokenVars,
                   workVars, stopVars, shutdown>>

TimerReaches(j) ==
    /\ timer[j] = "token"
    /\ CancelToken(j)
    /\ timer' = [timer EXCEPT ![j] = "off"]
    /\ UNCHANGED <<registryVars, submit, canceller, expired, queueVars, taskVars, running, workVars,
                   stopVars, shutdown>>

TimerNotice(j) ==
    /\ timer[j] = "internal"
    /\ Notice("internal")
    /\ timer' = [timer EXCEPT ![j] = "off"]
    /\ UNCHANGED <<registryVars, submit, canceller, expired, drainer, draining, taskVars, running,
                   workVars, shutdown>>

-----------------------------------------------------------------------------
(* drain_scheduler: look under the lock, wait for a job slot, pop.         *)

\* Mutant: stops without clearing the flag.
DrainerStopsMarked ==
    /\ drainer = "check"
    /\ queue = {}
    /\ drainer' = "off"
    /\ UNCHANGED <<registryVars, requestVars, queue, draining, taskVars, tokenVars, workVars,
                   stopVars, shutdown>>

DrainerStops ==
    /\ drainer = "check"
    /\ queue = {}
    /\ drainer' = "off"
    /\ draining' = FALSE
    /\ UNCHANGED <<registryVars, requestVars, queue, taskVars, tokenVars, workVars, stopVars, shutdown>>

DrainerWaits ==
    /\ drainer = "check"
    /\ queue # {}
    /\ drainer' = "slot"
    /\ UNCHANGED <<registryVars, requestVars, queue, draining, taskVars, tokenVars, workVars,
                   stopVars, shutdown>>

\* The slot is acquired in one step, the job popped in the next; the queue may
\* have been drained meanwhile.
DrainerAcquires ==
    /\ drainer = "slot"
    /\ FreeSlots > 0
    /\ drainer' = "pop"
    /\ UNCHANGED <<registryVars, requestVars, queue, draining, taskVars, tokenVars, workVars,
                   stopVars, shutdown>>

DrainerPops(j) ==
    /\ drainer = "pop"
    /\ j \in queue
    /\ queue' = queue \ {j}
    /\ drainer' = "check"
    /\ task' = [task EXCEPT ![j] = "spawned"]
    /\ holds' = [holds EXCEPT ![j] = {"slot"}]
    /\ UNCHANGED <<registryVars, requestVars, draining, tokenVars, workVars, stopVars, shutdown>>

DrainerFindsNone ==
    /\ drainer = "pop"
    /\ queue = {}
    /\ drainer' = "check"
    /\ UNCHANGED <<registryVars, requestVars, queue, draining, taskVars, tokenVars, workVars,
                   stopVars, shutdown>>

-----------------------------------------------------------------------------
(* execute_scheduled, the task of one job.                                 *)
Goes(j, step) == task' = [task EXCEPT ![j] = step]

\* Mutant: the token never gets into the map.
InsertTokenMissing(j) ==
    /\ task[j] = "spawned"
    /\ Goes(j, "snapshot")
    /\ UNCHANGED <<registryVars, requestVars, queueVars, holds, tokenVars, workVars, stopVars, shutdown>>

\* The token is visible before the job's state is looked at, so that a
\* cancellation is seen one way or the other.
InsertToken(j) ==
    /\ task[j] = "spawned"
    /\ running' = running \cup {j}
    /\ Goes(j, "snapshot")
    /\ UNCHANGED <<registryVars, requestVars, queueVars, holds, cancelled, workVars, stopVars, shutdown>>

SnapshotStep(j) ==
    IF state[j] # "queued" THEN "exit"
    ELSE IF j \in expired THEN "overdue" ELSE "threads"

Snapshot(j) ==
    /\ task[j] = "snapshot"
    /\ Goes(j, SnapshotStep(j))
    /\ UNCHANGED <<registryVars, requestVars, queueVars, holds, tokenVars, workVars, stopVars, shutdown>>

\* acquire_resource_permits polls: cancelled, overdue, enough permits.
Wait(j, kind, free, needed, then) ==
    /\ task[j] = kind
    /\ \/ /\ j \in cancelled
          /\ Goes(j, "wait_cancelled") /\ UNCHANGED holds
       \/ /\ j \notin cancelled /\ j \in expired
          /\ Goes(j, "wait_deadline") /\ UNCHANGED holds
       \/ /\ j \notin cancelled /\ j \notin expired
          /\ needed <= free
          /\ Goes(j, then)
          /\ holds' = [holds EXCEPT ![j] = @ \cup {kind}]
    /\ UNCHANGED <<registryVars, requestVars, queueVars, tokenVars, workVars, stopVars, shutdown>>

WaitThreads(j) == Wait(j, "threads", FreeThreads, ThreadsOf[j], "memory")
WaitMemory(j) == Wait(j, "memory", FreeMemory, MemoryOf[j], "start")

\* A registry call of the task that ends the job, and what follows its reply.
TaskCall(j, allowed, to, io, next) ==
    /\ Update(j, allowed, to, io)
    /\ Goes(j, IF Reply(allowed, io) = "ok" THEN next ELSE Reply(allowed, io))
    /\ UNCHANGED <<closed, requestVars, queueVars, holds, tokenVars, workVars, stopVars, shutdown>>

\* The deadline had passed before the wait.
Overdue(j, io) ==
    /\ task[j] = "overdue"
    /\ TaskCall(j, ~Ended(j), "failed", io, "exit")
    /\ UNCHANGED recorded

\* finish_wait_failure: nothing to do if something ended the job already.
WaitFailure(j, io) ==
    /\ task[j] \in {"wait_cancelled", "wait_deadline"}
    /\ IF Ended(j)
       THEN /\ NoCommit(io) /\ Goes(j, "exit")
            /\ UNCHANGED <<closed, requestVars, queueVars, holds, tokenVars, workVars, stopVars, shutdown>>
       ELSE TaskCall(j, TRUE, IF task[j] = "wait_cancelled" THEN "cancelled" ELSE "failed", io, "exit")
    /\ UNCHANGED recorded

\* transition(Running), which for a pack looks at the output path first; the
\* worker is spawned when it is stored.
Start(j, io) ==
    /\ task[j] = "start"
    /\ TaskCall(j, state[j] = "queued", "running", io, "spawn")
    /\ UNCHANGED recorded

\* The output path of a pack cannot be inspected: an Internal error of a
\* healthy registry, which changes nothing.
StartInspectFails(j) ==
    /\ InspectFails /\ j \in Packs
    /\ task[j] = "start" /\ healthy /\ state[j] = "queued"
    /\ Goes(j, "internal")
    /\ UNCHANGED <<registryVars, requestVars, queueVars, holds, tokenVars, workVars, stopVars, shutdown>>

SpawnWorker(j) ==
    /\ task[j] = "spawn"
    /\ work' = [work EXCEPT ![j] = "busy"]
    /\ Goes(j, "select")
    /\ UNCHANGED <<registryVars, requestVars, queueVars, holds, tokenVars, published, stopVars, shutdown>>

\* select!: the deadline passes while the worker runs; the token is cancelled
\* first, the registry told second, and the worker awaited.
SelectDeadline(j) ==
    /\ task[j] = "select" /\ j \in expired
    /\ cancelled' = cancelled \cup {j}
    /\ Goes(j, "late")
    /\ UNCHANGED <<registryVars, requestVars, queueVars, holds, running, workVars, stopVars, shutdown>>

DeadlineCancel(j, io) ==
    /\ task[j] = "late"
    /\ Update(j, TRUE, CancelTo(j), io)
    /\ Goes(j, IF Reply(TRUE, io) = "ok" THEN "await" ELSE "late_internal")
    /\ UNCHANGED <<closed, recorded, requestVars, queueVars, holds, tokenVars, workVars, stopVars, shutdown>>

DeadlineNotice(j) ==
    /\ task[j] = "late_internal"
    /\ Notice("internal")
    /\ Goes(j, "await")
    /\ UNCHANGED <<registryVars, requestVars, drainer, draining, holds, running, workVars, shutdown>>

\* The worker's result; a worker stopped by the deadline counts as failed.
JoinWorker(j) ==
    /\ task[j] \in {"select", "await"}
    /\ work[j] \in {"ok", "cancelled", "error"}
    /\ Goes(j, IF work[j] = "cancelled" /\ task[j] = "await" THEN "error" ELSE work[j])
    /\ UNCHANGED <<registryVars, requestVars, queueVars, holds, tokenVars, workVars, stopVars, shutdown>>

\* record_pack_publication of a finished pack: verify the archive, then store
\* its identity.  The archive may fail to verify, or the path may not have been
\* free when the job started.
RecordPublication(j, verified, io) ==
    /\ task[j] = "ok" /\ j \in Packs
    /\ IF verified
       THEN /\ TaskCall(j, state[j] \in {"running", "cancelling"}, state[j], io, "recorded")
            /\ recorded' = IF healthy /\ io # "refused" THEN recorded \cup {j} ELSE recorded
       ELSE /\ NoCommit(io)
            /\ Goes(j, IF healthy THEN "unrecorded" ELSE "internal")
            /\ UNCHANGED <<closed, recorded, requestVars, queueVars, holds, tokenVars, workVars,
                           stopVars, shutdown>>

\* Mutant: a job that is being cancelled ends cancelled, whatever its worker did.
CompleteToCancelled(j) == IF state[j] = "cancelling" THEN "cancelled" ELSE "completed"

CompleteTo(j) == "completed"

Complete(j, io) ==
    /\ task[j] = IF j \in Packs THEN "recorded" ELSE "ok"
    /\ TaskCall(j, Live(j) /\ (j \in Packs => j \in recorded), CompleteTo(j), io, "exit")
    /\ UNCHANGED recorded

\* fail, after an error of the worker or of the record.
FailJob(j, io) ==
    /\ task[j] \in {"error", "unrecorded"}
    /\ TaskCall(j, ~Ended(j), "failed", io, "exit")
    /\ UNCHANGED recorded

\* finish_cancelled when the job is cancelling, fail(Cancelled) otherwise.
EndCancelled(j, io) ==
    /\ task[j] = "cancelled"
    /\ TaskCall(j, ~Ended(j), "cancelled", io, "exit")
    /\ UNCHANGED recorded

TaskNotice(j) ==
    /\ task[j] \in {"internal", "conflict"}
    /\ Notice(task[j])
    /\ Goes(j, "exit")
    /\ UNCHANGED <<registryVars, requestVars, drainer, draining, holds, running, workVars, shutdown>>

\* The end of the task: the token leaves the map, the permits are dropped.
Exit(j) ==
    /\ task[j] = "exit"
    /\ Goes(j, "done")
    /\ running' = running \ {j}
    /\ holds' = [holds EXCEPT ![j] = {}]
    /\ UNCHANGED <<registryVars, requestVars, queueVars, cancelled, workVars, stopVars, shutdown>>

-----------------------------------------------------------------------------
(* The blocking worker (execute_operation): a pack checks its token for    *)
(* the last time before it puts the archive in place.                      *)
WorkerPublishes(j) ==
    /\ work[j] = "busy"
    /\ j \in Packs \ published
    /\ published' = published \cup {j}
    /\ UNCHANGED <<registryVars, requestVars, queueVars, taskVars, tokenVars, work, stopVars, shutdown>>

WorkerEnds(j, result) ==
    /\ work[j] = "busy"
    /\ result = "ok" => (j \in Packs => j \in published)
    /\ result = "cancelled" => j \in cancelled /\ j \notin published
    /\ work' = [work EXCEPT ![j] = result]
    /\ UNCHANGED <<registryVars, requestVars, queueVars, taskVars, tokenVars, published, stopVars, shutdown>>

-----------------------------------------------------------------------------
(* The server's shutdown: connection tasks are aborted at their next await *)
(* (a registry call already on the blocking pool goes on), then            *)
(* DaemonService::shutdown runs.                                           *)
AbortConnections ==
    /\ shutdown = "none"
    /\ shutdown' = "aborted"
    /\ submit' = [j \in Jobs |-> IF submit[j] = "received" THEN "orphan" ELSE "end"]
    /\ canceller' = [j \in Jobs |-> CASE canceller[j] = "call" -> "orphan"
                                     [] canceller[j] = "answered" -> "answered"
                                     [] OTHER -> "end"]
    /\ UNCHANGED <<registryVars, timer, expired, queueVars, taskVars, tokenVars, workVars, stopVars>>

ShutdownStops ==
    /\ shutdown = "aborted"
    /\ stopping' = TRUE
    /\ shutdown' = "stopped"
    /\ UNCHANGED <<registryVars, requestVars, queueVars, taskVars, tokenVars, workVars, degraded, closer>>

ShutdownDrains ==
    /\ shutdown = "stopped"
    /\ queue' = {}
    /\ shutdown' = "drained"
    /\ UNCHANGED <<registryVars, requestVars, drainer, draining, taskVars, tokenVars, workVars, stopVars>>

ShutdownCloses(io) ==
    /\ shutdown = "drained"
    /\ CloseAndCancelAll(io)
    /\ shutdown' = IF io = "ok" THEN "closed" ELSE "failed"
    /\ IF io = "ok" THEN UNCHANGED <<stopVars, queue, cancelled>> ELSE MarkDegraded
    /\ UNCHANGED <<recorded, requestVars, drainer, draining, taskVars, running, workVars>>

ShutdownCancels ==
    /\ shutdown = "closed"
    /\ cancelled' = cancelled \cup running
    /\ shutdown' = "waiting"
    /\ UNCHANGED <<registryVars, requestVars, queueVars, taskVars, running, workVars, stopVars>>

\* Mutant: looks at the running workers only.
QuietTokensOnly == running = {}

Quiet == (\A j \in Jobs : ~Live(j)) /\ running = {}

ShutdownReturns ==
    /\ shutdown = "waiting"
    /\ shutdown' = IF Quiet THEN "ok" ELSE "timeout"
    /\ UNCHANGED <<registryVars, requestVars, queueVars, taskVars, tokenVars, workVars, stopVars>>

-----------------------------------------------------------------------------
Calls(io) ==
    \/ \E j \in Jobs :
        \/ SubmitCall(j, io) \/ CancelCall(j, io) \/ TimerCall(j, io)
        \/ Overdue(j, io) \/ WaitFailure(j, io) \/ Start(j, io) \/ DeadlineCancel(j, io)
        \/ \E verified \in BOOLEAN : RecordPublication(j, verified, io)
        \/ Complete(j, io) \/ FailJob(j, io) \/ EndCancelled(j, io)
    \/ CloserRuns(io)
    \/ ShutdownCloses(io)

Next ==
    \/ \E io \in Outcomes : Calls(io)
    \/ FrameOnUnhealthy \/ OpenSessionFails
    \/ DrainerStops \/ DrainerWaits \/ DrainerAcquires \/ DrainerFindsNone
    \/ \E j \in Jobs :
        \/ SubmitReceived(j) \/ SubmitNotice(j) \/ SubmitChecks(j) \/ Schedule(j)
        \/ CancelReceived(j) \/ CancelReaches(j) \/ CancelNotice(j)
        \/ Expire(j) \/ TimerReaches(j) \/ TimerNotice(j)
        \/ DrainerPops(j)
        \/ InsertToken(j) \/ Snapshot(j) \/ WaitThreads(j) \/ WaitMemory(j)
        \/ StartInspectFails(j) \/ SpawnWorker(j)
        \/ SelectDeadline(j) \/ DeadlineNotice(j) \/ JoinWorker(j)
        \/ TaskNotice(j) \/ Exit(j)
        \/ WorkerPublishes(j)
        \/ \E result \in {"ok", "cancelled", "error"} : WorkerEnds(j, result)
    \/ AbortConnections \/ ShutdownStops \/ ShutdownDrains \/ ShutdownCancels \/ ShutdownReturns

Spec == Init /\ [][Next]_vars

(* Every task of the daemon is polled, the blocking pool runs what it is   *)
(* given, and a connection's request is answered.  Clients need not act.   *)
TaskSteps(j) ==
    \/ InsertToken(j) \/ Snapshot(j) \/ WaitThreads(j) \/ WaitMemory(j) \/ SpawnWorker(j)
    \/ SelectDeadline(j) \/ DeadlineNotice(j) \/ JoinWorker(j) \/ TaskNotice(j) \/ Exit(j)
    \/ \E io \in Outcomes :
        \/ Overdue(j, io) \/ WaitFailure(j, io) \/ Start(j, io) \/ DeadlineCancel(j, io)
        \/ \E verified \in BOOLEAN : RecordPublication(j, verified, io)
        \/ Complete(j, io) \/ FailJob(j, io) \/ EndCancelled(j, io)
SubmitSteps(j) ==
    SubmitNotice(j) \/ SubmitChecks(j) \/ Schedule(j) \/ \E io \in Outcomes : SubmitCall(j, io)
CancelSteps(j) ==
    CancelReaches(j) \/ CancelNotice(j) \/ \E io \in Outcomes : CancelCall(j, io)
TimerSteps(j) ==
    TimerReaches(j) \/ TimerNotice(j) \/ \E io \in Outcomes : TimerCall(j, io)
DrainerSteps ==
    \/ DrainerStops \/ DrainerWaits \/ DrainerAcquires \/ DrainerFindsNone
    \/ \E j \in Jobs : DrainerPops(j)
ShutdownSteps ==
    \/ ShutdownStops \/ ShutdownDrains \/ ShutdownCancels
    \/ \E io \in Outcomes : ShutdownCloses(io) \/ CloserRuns(io)
WorkerStops(j) == \E result \in {"ok", "cancelled", "error"} : WorkerEnds(j, result)

DaemonFairness ==
    /\ \A j \in Jobs : /\ WF_vars(TaskSteps(j)) /\ WF_vars(SubmitSteps(j))
                       /\ WF_vars(CancelSteps(j)) /\ WF_vars(TimerSteps(j))
    /\ WF_vars(DrainerSteps)
    /\ WF_vars(ShutdownSteps)

\* Only a cancelled operation is sure to end, at its next checkpoint.
CheckpointSpec ==
    Spec /\ DaemonFairness /\ \A j \in Jobs : WF_vars(j \in cancelled /\ WorkerStops(j))

-----------------------------------------------------------------------------
(* Properties.                                                             *)
SubmitStepNames == {"idle", "received", "orphan", "accepted", "schedule", "internal", "conflict", "end"}
CancelStepNames == {"idle", "call", "orphan", "token", "answered", "internal", "conflict", "end"}
TaskStepNames == {"none", "spawned", "snapshot", "overdue", "threads", "memory", "wait_cancelled",
                  "wait_deadline", "start", "spawn", "select", "late", "late_internal", "await",
                  "ok", "cancelled", "error", "recorded", "unrecorded", "internal", "conflict",
                  "exit", "done"}

\* Types; permits are never handed out beyond the configured totals.
TypeOK ==
    /\ state \in [Jobs -> {"none", "queued", "running", "cancelling"} \cup Terminal]
    /\ healthy \in BOOLEAN /\ closed \in BOOLEAN
    /\ recorded \subseteq Packs /\ published \subseteq Packs
    /\ faults \in 0 .. MaxFaults
    /\ submit \in [Jobs -> SubmitStepNames]
    /\ canceller \in [Jobs -> CancelStepNames]
    /\ timer \in [Jobs -> {"off", "armed", "token", "internal"}]
    /\ expired \subseteq Deadlines
    /\ queue \subseteq Jobs /\ running \subseteq Jobs /\ cancelled \subseteq Jobs
    /\ drainer \in {"off", "check", "slot", "pop"} /\ draining \in BOOLEAN
    /\ task \in [Jobs -> TaskStepNames]
    /\ holds \in [Jobs -> SUBSET {"slot", "threads", "memory"}]
    /\ work \in [Jobs -> {"none", "busy", "ok", "cancelled", "error"}]
    /\ degraded \in BOOLEAN /\ stopping \in BOOLEAN
    /\ closer \in {"off", "spawned", "done"}
    /\ shutdown \in {"none", "aborted", "stopped", "drained", "closed", "waiting", "ok", "timeout", "failed"}
    /\ FreeSlots >= 0 /\ FreeThreads >= 0 /\ FreeMemory >= 0

\* If publication won the race against a cancellation, a deadline or a shutdown,
\* the job is never reported cancelled; and a job cancelled in the queue never
\* gets to publish.
PublishedNotCancelled == \A j \in published : state[j] # "cancelled"

\* A client that was told its job is being cancelled has a worker whose token is
\* cancelled, also in a daemon that has failed closed.  And a cancellation the
\* registry has recorded is never lost: the worker's token is cancelled, or the
\* request, timer or shutdown that recorded it still has to look the token up.  The
\* exception is the close_and_cancel_all that mark_storage_degraded spawns, which
\* records cancellations after the tokens were cancelled (FailClosedCancelsWork).
CancelReachesWorker ==
    \A j \in Jobs : work[j] = "busy" =>
        /\ canceller[j] = "answered" => j \in cancelled
        /\ state[j] = "cancelling" =>
              \/ j \in cancelled
              \/ canceller[j] \in {"token", "internal"}
              \/ timer[j] \in {"token", "internal"}
              \/ shutdown \in {"aborted", "stopped", "drained", "closed"}
              \/ closer = "done"

\* Once shutdown returned Ok, every job the registry knows has ended, no worker
\* runs and none will: nothing is queued and no task is past its snapshot.
ShutdownLeavesNothing ==
    shutdown = "ok" =>
        /\ queue = {}
        /\ \A j \in Jobs : /\ ~Live(j)
                           /\ work[j] # "busy"
                           /\ task[j] \in {"none", "spawned", "snapshot", "exit", "done"}

\* The daemon that failed closed has cancelled all running work once the
\* close_and_cancel_all it spawned is done.
FailClosedCancelsWork ==
    closer = "done" => \A j \in Jobs : work[j] = "busy" => j \in cancelled

\* If operations end (archives and inputs are finite), every job the registry
\* accepted ends, unless persistence failed.
OperationsEnd == \A j \in Jobs : []<>(work[j] # "busy")
JobsEnd == OperationsEnd => \A j \in Jobs : Live(j) ~> Ended(j) \/ ~healthy \/ degraded

\* A job whose deadline passed, whose client cancelled it, or which a shutdown
\* found, ends even if its operation would run for ever.
AskedToEnd(j) ==
    \/ j \in expired /\ timer[j] = "armed"
    \/ canceller[j] = "token"
    \/ shutdown = "closed"
AskedJobsEnd == \A j \in Jobs : Live(j) /\ AskedToEnd(j) ~> Ended(j) \/ ~healthy \/ degraded
=============================================================================
