------------------------- MODULE DaemonServiceProofs -------------------------
(***************************************************************************)
(* Proofs about DaemonService: for any jobs, permits and number of failed  *)
(* commits, a job that published is never reported cancelled, a shutdown   *)
(* that returned Ok leaves nothing running or to run, and a cancellation   *)
(* reaches the worker.                                                     *)
(***************************************************************************)
EXTENDS DaemonService, TLAPS

\* The types the proofs use.
ServiceTypes ==
    /\ state \in [Jobs -> {"none", "queued", "running", "cancelling"} \cup Terminal]
    /\ healthy \in BOOLEAN /\ closed \in BOOLEAN
    /\ submit \in [Jobs -> SubmitStepNames]
    /\ canceller \in [Jobs -> CancelStepNames]
    /\ timer \in [Jobs -> {"off", "armed", "token", "internal"}]
    /\ task \in [Jobs -> TaskStepNames]
    /\ work \in [Jobs -> {"none", "busy", "ok", "cancelled", "error"}]
    /\ running \subseteq Jobs /\ published \subseteq Jobs

\* Steps of execute_scheduled: while its worker has to be reached, after the registry
\* stored Running, and before there is a worker.
Reachable == {"spawn", "select", "late", "late_internal", "await"}
Working == Reachable \cup {"ok", "cancelled", "error", "recorded", "unrecorded"}
Unstarted == {"none", "spawned", "snapshot", "overdue", "threads", "memory",
              "wait_cancelled", "wait_deadline", "start", "spawn"}

\* One job: its submission is over before it is queued, and queued before it has a
\* task; its token is in the map from InsertToken to Exit; while the task is working
\* nobody else ends the job; there is a worker only inside the select; the deadline
\* cancels the token before the registry hears of it; and what a worker published is
\* not undone.
JobInv(j) ==
    /\ submit[j] \in {"idle", "received", "orphan"} => state[j] = "none"
    /\ submit[j] \in {"accepted", "schedule"} => state[j] # "none"
    /\ submit[j] # "end" => j \notin queue /\ task[j] = "none"
    /\ j \in queue => task[j] = "none" /\ state[j] # "none"
    /\ task[j] # "none" => state[j] # "none"
    /\ j \in running => task[j] \notin {"none", "spawned", "done"}
    /\ task[j] \notin {"none", "spawned", "done"} => j \in running
    /\ task[j] \in Working => state[j] \in {"running", "cancelling"}
    /\ task[j] \in Unstarted => work[j] = "none"
    /\ work[j] = "busy" => task[j] \in Reachable \ {"spawn"}
    /\ task[j] = "cancelled" => work[j] = "cancelled"
    /\ j \in published => /\ work[j] \notin {"none", "cancelled"}
                          /\ state[j] \in {"running", "cancelling", "completed", "failed"}
    /\ task[j] \in {"late", "late_internal", "await"} => j \in cancelled

\* No job is queued or running.
NoneStarts == \A j \in Jobs : state[j] \notin {"queued", "running"}

\* The shutdown: after the connections are aborted nothing is submitted, after the
\* queue is drained nothing enters it, and after the registry is closed nothing starts.
CloseInv ==
    /\ closed /\ healthy => NoneStarts
    /\ shutdown \in {"closed", "waiting", "ok", "timeout"} => closed /\ NoneStarts
    /\ shutdown # "none" =>
          \A j \in Jobs : submit[j] \in {"orphan", "end"} /\ canceller[j] \in {"orphan", "answered", "end"}
    /\ \A j \in Jobs : submit[j] = "orphan" \/ canceller[j] = "orphan" => shutdown # "none"
    /\ shutdown \in {"drained", "closed", "waiting", "ok", "timeout", "failed"} => queue = {}
    /\ shutdown = "ok" =>
          \A j \in Jobs : ~Live(j) /\ task[j] \in {"none", "spawned", "snapshot", "exit", "done"}

ServiceInv == ServiceTypes /\ (\A j \in Jobs : JobInv(j)) /\ CloseInv

\* Somebody still has to look the job's token up, or the daemon has failed closed.
Pursued(j) ==
    \/ j \in cancelled
    \/ canceller[j] \in {"token", "internal"}
    \/ timer[j] \in {"token", "internal"}
    \/ shutdown \in {"aborted", "stopped", "drained", "closed"}
    \/ closer = "done"

ShutdownNames == {"none", "aborted", "stopped", "drained", "closed", "waiting", "ok", "timeout", "failed"}

\* A job that can no longer be started.
Settled(j) == state[j] \notin {"none", "queued", "running"}

\* A cancel request that goes on to the token, or was answered, has settled its job, and
\* the answered one has cancelled the token of every worker the job can still have; a
\* recorded cancellation is pursued.
TokenInv ==
    /\ shutdown \in ShutdownNames
    /\ closer # "off" => degraded
    /\ shutdown = "failed" => ~healthy
    /\ \A j \in Jobs :
          /\ canceller[j] \in {"call", "orphan"} => state[j] # "none"
          /\ canceller[j] \in {"token", "answered"} => Settled(j)
          /\ canceller[j] = "answered" /\ task[j] \in Reachable => j \in cancelled
          /\ state[j] = "cancelling" /\ task[j] \in Reachable => Pursued(j)
-----------------------------------------------------------------------------
(* What a step leaves alone.                                               *)

\* Everybody but the job's own task only moves the job from queued to an end, or from
\* running to cancelling; everybody but its own submission only ends that.
JobKept(k) ==
    /\ \/ state'[k] = state[k]
       \/ state[k] = "queued" /\ state'[k] \in {"cancelled", "failed"}
       \/ state[k] = "running" /\ state'[k] = "cancelling"
    /\ \/ submit'[k] = submit[k] \/ submit'[k] = "end"
       \/ submit[k] # "end" /\ submit'[k] \in {"internal", "conflict"}
       \/ submit[k] = "idle" /\ submit'[k] = "received"
       \/ submit[k] = "received" /\ submit'[k] = "orphan"
       \/ submit[k] = "accepted" /\ submit'[k] = "schedule"
    /\ task'[k] = task[k] /\ work'[k] = work[k]
    /\ k \in queue' => k \in queue
    /\ k \in running' <=> k \in running
    /\ k \in published' => k \in published
    /\ k \in cancelled => k \in cancelled'

LEMMA KeptJob ==
  ASSUME NEW k \in Jobs, JobInv(k), JobKept(k)
  PROVE  JobInv(k)'
<1>1. /\ submit'[k] \in {"idle", "received", "orphan"} => state'[k] = "none"
      /\ submit'[k] \in {"accepted", "schedule"} => state'[k] # "none"
      /\ submit'[k] # "end" => k \notin queue' /\ task'[k] = "none"
  BY DEF JobInv, JobKept
<1>2. /\ k \in queue' => task'[k] = "none" /\ state'[k] # "none"
      /\ task'[k] # "none" => state'[k] # "none"
      /\ k \in running' => task'[k] \notin {"none", "spawned", "done"}
      /\ task'[k] \notin {"none", "spawned", "done"} => k \in running'
  BY DEF JobInv, JobKept
<1>3. /\ task'[k] \in Working => state'[k] \in {"running", "cancelling"}
      /\ task'[k] \in Unstarted => work'[k] = "none"
      /\ work'[k] = "busy" => task'[k] \in Reachable \ {"spawn"}
      /\ task'[k] = "cancelled" => work'[k] = "cancelled"
      /\ task'[k] \in {"late", "late_internal", "await"} => k \in cancelled'
  BY DEF JobInv, JobKept
<1>4. k \in published' => /\ work'[k] \notin {"none", "cancelled"}
                          /\ state'[k] \in {"running", "cancelling", "completed", "failed"}
  BY DEF JobInv, JobKept
<1> QED BY <1>1, <1>2, <1>3, <1>4 DEF JobInv

\* Steps that are neither the shutdown's nor a submission's.
AtRest == {"none", "spawned", "snapshot", "exit", "done"}
CloseKept ==
    /\ closed' = closed /\ (healthy' => healthy) /\ shutdown' = shutdown
    /\ queue' \subseteq queue
    /\ \A k \in Jobs :
          /\ state'[k] \in {"queued", "running"} => state[k] \in {"queued", "running"}
          /\ state'[k] \in {"queued", "running", "cancelling"} => Live(k)
          /\ submit'[k] = submit[k] \/ submit'[k] = "end" \/ (shutdown = "none" /\ submit'[k] # "orphan")
          /\ canceller'[k] = canceller[k] \/ canceller'[k] = "end" \/ (shutdown = "none" /\ canceller'[k] # "orphan")
          /\ task'[k] = task[k] \/ (shutdown = "ok" => task'[k] \in AtRest)

LEMMA KeptClosed ==
  ASSUME CloseInv, CloseKept
  PROVE  CloseInv'
<1>1. \A k \in Jobs : Live(k)' => Live(k)
  BY DEF CloseKept, Live
<1>2. NoneStarts => NoneStarts'
  BY DEF CloseKept, NoneStarts
<1>3. closed' /\ healthy' => NoneStarts'
  BY <1>2 DEF CloseKept, CloseInv
<1>4. shutdown' \in {"closed", "waiting", "ok", "timeout"} => closed' /\ NoneStarts'
  BY <1>2 DEF CloseKept, CloseInv
<1>5. shutdown' # "none" =>
        \A j \in Jobs : submit'[j] \in {"orphan", "end"} /\ canceller'[j] \in {"orphan", "answered", "end"}
  BY DEF CloseKept, CloseInv
<1>6. \A j \in Jobs : submit'[j] = "orphan" \/ canceller'[j] = "orphan" => shutdown' # "none"
  BY DEF CloseKept, CloseInv
<1>7. shutdown' \in {"drained", "closed", "waiting", "ok", "timeout", "failed"} => queue' = {}
  BY DEF CloseKept, CloseInv
<1>8. shutdown' = "ok" => \A j \in Jobs : ~Live(j)' /\ task'[j] \in AtRest
  BY <1>1 DEF CloseKept, CloseInv, AtRest
<1> QED BY <1>3, <1>4, <1>5, <1>6, <1>7, <1>8 DEF CloseInv, AtRest

\* What update_owned does.
LEMMA UpdateEffect ==
  ASSUME NEW j \in Jobs, NEW allowed \in BOOLEAN, NEW to, NEW io \in Outcomes,
         healthy \in BOOLEAN, Update(j, allowed, to, io)
  PROVE  /\ healthy' \in BOOLEAN
         /\ healthy' => healthy
         /\ state' = state \/ state' = [state EXCEPT ![j] = to]
         /\ state' # state => healthy /\ allowed
         /\ io # "ok" => ~healthy'
         /\ io = "ok" => healthy' = healthy
         /\ healthy /\ allowed /\ io = "ok" => state' = [state EXCEPT ![j] = to]
<1>1. CASE healthy /\ allowed
  <2>1. Commit([state EXCEPT ![j] = to], io)
    BY <1>1, Zenon DEF Update
  <2>2. /\ state' = IF io = "refused" THEN state ELSE [state EXCEPT ![j] = to]
        /\ healthy' = (healthy /\ io = "ok")
    BY <2>1, Zenon DEF Commit
  <2> QED BY <1>1, <2>2
<1>2. CASE ~(healthy /\ allowed)
  <2>1. NoCommit(io)
    BY <1>2, Zenon DEF Update
  <2>2. io = "ok" /\ state' = state /\ healthy' = healthy
    BY <2>1, Zenon DEF NoCommit
  <2> QED BY <1>2, <2>2
<1> QED BY <1>1, <1>2

\* mark_storage_degraded empties the queue and only cancels tokens.
LEMMA NoticeEffect ==
  ASSUME NEW reply, Notice(reply) \/ MarkDegraded
  PROVE  queue' \subseteq queue /\ cancelled \subseteq cancelled'
  BY DEF Notice, MarkDegraded

-----------------------------------------------------------------------------
(* Steps that leave the registry, the tasks and the workers alone.         *)

Quietly ==
    /\ UNCHANGED <<state, healthy, closed, task, work, published, running, shutdown>>
    /\ queue' \subseteq queue /\ cancelled \subseteq cancelled'

SubmitMoves(k) ==
    \/ submit'[k] = submit[k] \/ submit'[k] = "end"
    \/ submit[k] # "end" /\ submit'[k] \in {"internal", "conflict"} /\ shutdown = "none"
    \/ submit[k] = "idle" /\ submit'[k] = "received" /\ shutdown = "none"
    \/ submit[k] = "accepted" /\ submit'[k] = "schedule" /\ shutdown = "none"

CancellerMoves(k) ==
    canceller'[k] = canceller[k] \/ canceller'[k] = "end" \/ (shutdown = "none" /\ canceller'[k] # "orphan")

LEMMA MovesKept ==
  ASSUME NEW k, SubmitMoves(k), CancellerMoves(k)
  PROVE  /\ submit'[k] = submit[k] \/ submit'[k] = "end" \/ (shutdown = "none" /\ submit'[k] # "orphan")
         /\ canceller'[k] = canceller[k] \/ canceller'[k] = "end" \/ (shutdown = "none" /\ canceller'[k] # "orphan")
  BY DEF SubmitMoves, CancellerMoves

LEMMA QuietInv ==
  ASSUME ServiceInv, Quietly, submit' \in [Jobs -> SubmitStepNames],
         canceller' \in [Jobs -> CancelStepNames],
         timer' \in [Jobs -> {"off", "armed", "token", "internal"}],
         \A k \in Jobs : SubmitMoves(k) /\ CancellerMoves(k)
  PROVE  ServiceInv'
<1>1. ServiceTypes'
  BY DEF ServiceInv, ServiceTypes, Quietly
<1>2. \A k \in Jobs : JobKept(k)
  BY DEF Quietly, JobKept, SubmitMoves
<1>3. \A k \in Jobs : JobInv(k)'
  BY <1>2, KeptJob DEF ServiceInv
<1>4. CloseKept
  <2>1. closed' = closed /\ healthy' = healthy /\ shutdown' = shutdown /\ state' = state
        /\ task' = task /\ queue' \subseteq queue
    BY Zenon DEF Quietly
  <2>2. healthy' => healthy
    BY <2>1, Zenon
  <2>3. \A k \in Jobs :
          /\ state'[k] \in {"queued", "running"} => state[k] \in {"queued", "running"}
          /\ state'[k] \in {"queued", "running", "cancelling"} => Live(k)
    <3>1. state' = state
      BY <2>1
    <3> QED BY <3>1 DEF Live
  <2>4. \A k \in Jobs :
          /\ submit'[k] = submit[k] \/ submit'[k] = "end" \/ (shutdown = "none" /\ submit'[k] # "orphan")
          /\ canceller'[k] = canceller[k] \/ canceller'[k] = "end" \/ (shutdown = "none" /\ canceller'[k] # "orphan")
    BY MovesKept, Zenon
  <2> QED BY <2>1, <2>2, <2>3, <2>4 DEF CloseKept
<1>5. CloseInv'
  BY <1>4, KeptClosed DEF ServiceInv
<1> QED BY <1>1, <1>3, <1>5 DEF ServiceInv

LEMMA QuietSteps ==
  ASSUME ServiceInv, NEW j \in Jobs,
         \/ SubmitReceived(j) \/ SubmitNotice(j) \/ SubmitChecks(j)
         \/ CancelReceived(j) \/ CancelReaches(j) \/ CancelNotice(j)
         \/ Expire(j) \/ TimerReaches(j) \/ TimerNotice(j)
  PROVE  ServiceInv'
<1>1. /\ submit \in [Jobs -> SubmitStepNames] /\ canceller \in [Jobs -> CancelStepNames]
      /\ timer \in [Jobs -> {"off", "armed", "token", "internal"}]
  BY DEF ServiceInv, ServiceTypes
<1>2. shutdown # "none" => submit[j] \in {"orphan", "end"}
  BY DEF ServiceInv, CloseInv
<1>3. canceller[j] = "token" => shutdown = "none"
  BY DEF ServiceInv, CloseInv
<1>4. CASE SubmitReceived(j)
  <2>1. Quietly
    BY <1>4 DEF SubmitReceived, Quietly, registryVars, taskVars, workVars, tokenVars, queueVars
  <2>2. submit[j] = "idle" /\ submit' = [submit EXCEPT ![j] = "received"] /\ shutdown = "none"
        /\ UNCHANGED <<canceller, timer>>
    BY <1>4 DEF SubmitReceived, Admitted, Connected
  <2>3. submit' \in [Jobs -> SubmitStepNames]
    BY <1>1, <2>2 DEF SubmitStepNames
  <2>4. \A k \in Jobs : SubmitMoves(k) /\ CancellerMoves(k)
    BY <1>1, <2>1, <2>2, <2>3 DEF SubmitMoves, CancellerMoves
  <2> QED BY <1>1, <2>1, <2>2, <2>3, <2>4, QuietInv
<1>5. CASE SubmitNotice(j)
  <2>1. Quietly
    BY <1>5, NoticeEffect DEF SubmitNotice, Quietly, registryVars, taskVars, workVars
  <2>2. submit' = [submit EXCEPT ![j] = "end"] /\ UNCHANGED <<canceller, timer>>
    BY <1>5 DEF SubmitNotice
  <2>3. submit' \in [Jobs -> SubmitStepNames]
    BY <1>1, <2>2 DEF SubmitStepNames
  <2>4. \A k \in Jobs : SubmitMoves(k) /\ CancellerMoves(k)
    BY <1>1, <2>1, <2>2, <2>3 DEF SubmitMoves, CancellerMoves
  <2> QED BY <1>1, <2>1, <2>2, <2>3, <2>4, QuietInv
<1>6. CASE SubmitChecks(j)
  <2>1. Quietly
    BY <1>6 DEF SubmitChecks, Quietly, registryVars, taskVars, workVars, tokenVars, queueVars
  <2>2. submit[j] = "accepted" /\ UNCHANGED <<canceller, timer>>
        /\ \E n \in {"schedule", "internal"} : submit' = [submit EXCEPT ![j] = n]
    BY <1>6 DEF SubmitChecks
  <2>3. submit' \in [Jobs -> SubmitStepNames]
    BY <1>1, <2>2 DEF SubmitStepNames
  <2>4. \A k \in Jobs : SubmitMoves(k) /\ CancellerMoves(k)
    BY <1>1, <1>2, <2>1, <2>2, <2>3 DEF SubmitMoves, CancellerMoves
  <2> QED BY <1>1, <1>2, <2>1, <2>2, <2>3, <2>4, QuietInv
<1>7. CASE CancelReceived(j)
  <2>1. Quietly
    BY <1>7 DEF CancelReceived, Quietly, registryVars, taskVars, workVars, tokenVars, queueVars
  <2>2. canceller' = [canceller EXCEPT ![j] = "call"] /\ UNCHANGED <<submit, timer>>
        /\ shutdown = "none"
    BY <1>7 DEF CancelReceived, Admitted, Connected
  <2>3. canceller' \in [Jobs -> CancelStepNames]
    BY <1>1, <2>2 DEF CancelStepNames
  <2>4. \A k \in Jobs : SubmitMoves(k) /\ CancellerMoves(k)
    BY <1>1, <2>1, <2>2, <2>3 DEF SubmitMoves, CancellerMoves
  <2> QED BY <1>1, <2>1, <2>2, <2>3, <2>4, QuietInv
<1>8. CASE CancelReaches(j) \/ CancelNotice(j)
  <2>1. Quietly
    BY <1>8, NoticeEffect DEF CancelReaches, CancelNotice, CancelToken, Quietly, registryVars,
       taskVars, workVars, queueVars
  <2>2. /\ UNCHANGED <<submit, timer>>
        /\ \E n \in {"answered", "end"} : /\ canceller' = [canceller EXCEPT ![j] = n]
                                          /\ n = "answered" => shutdown = "none"
    BY <1>3, <1>8 DEF CancelReaches, CancelNotice
  <2>3. canceller' \in [Jobs -> CancelStepNames]
    BY <1>1, <2>2 DEF CancelStepNames
  <2>4. \A k \in Jobs : SubmitMoves(k) /\ CancellerMoves(k)
    BY <1>1, <2>1, <2>2, <2>3 DEF SubmitMoves, CancellerMoves
  <2> QED BY <1>1, <2>1, <2>2, <2>3, <2>4, QuietInv
<1>9. CASE TimerReaches(j) \/ TimerNotice(j)
  <2>1. Quietly
    BY <1>9, NoticeEffect DEF TimerReaches, TimerNotice, CancelToken, Quietly, registryVars,
       taskVars, workVars, queueVars
  <2>2. timer' = [timer EXCEPT ![j] = "off"] /\ UNCHANGED <<submit, canceller>>
    BY <1>9 DEF TimerReaches, TimerNotice
  <2>3. timer' \in [Jobs -> {"off", "armed", "token", "internal"}]
    BY <1>1, <2>2
  <2>4. \A k \in Jobs : SubmitMoves(k) /\ CancellerMoves(k)
    BY <1>1, <2>1, <2>2, <2>3 DEF SubmitMoves, CancellerMoves
  <2> QED BY <1>1, <2>1, <2>2, <2>3, <2>4, QuietInv
<1>10. CASE Expire(j)
  <2>1. Quietly /\ UNCHANGED <<submit, canceller, timer>>
    BY <1>10 DEF Expire, Quietly, registryVars, requestVars, taskVars, workVars, tokenVars, queueVars
  <2>4. \A k \in Jobs : SubmitMoves(k) /\ CancellerMoves(k)
    BY <2>1 DEF SubmitMoves, CancellerMoves
  <2> QED BY <1>1, <2>1, <2>4, QuietInv
<1> QED BY <1>4, <1>5, <1>6, <1>7, <1>8, <1>9, <1>10

LEMMA QuietGlobalSteps ==
  ASSUME ServiceInv,
         \/ FrameOnUnhealthy \/ OpenSessionFails \/ DrainerStops \/ DrainerWaits \/ DrainerAcquires \/ DrainerFindsNone
         \/ UNCHANGED vars
  PROVE  ServiceInv'
<1>1. /\ submit \in [Jobs -> SubmitStepNames] /\ canceller \in [Jobs -> CancelStepNames]
      /\ timer \in [Jobs -> {"off", "armed", "token", "internal"}]
  BY DEF ServiceInv, ServiceTypes
<1>2. Quietly
  BY NoticeEffect DEF FrameOnUnhealthy, OpenSessionFails, DrainerStops, DrainerWaits, DrainerAcquires,
     DrainerFindsNone, vars, Quietly, registryVars, requestVars, taskVars, workVars, tokenVars, queueVars
<1>3. UNCHANGED <<submit, canceller, timer>>
  BY DEF FrameOnUnhealthy, OpenSessionFails, DrainerStops, DrainerWaits, DrainerAcquires, DrainerFindsNone, vars,
     requestVars
<1>4. \A k \in Jobs : SubmitMoves(k) /\ CancellerMoves(k)
  BY <1>3 DEF SubmitMoves, CancellerMoves
<1> QED BY <1>1, <1>2, <1>3, <1>4, QuietInv

-----------------------------------------------------------------------------
(* Requests and timers that change the registry.                           *)

\* request_cancel and expire_deadline only end a queued job, or begin to cancel a
\* running one.
LEMMA OutsideTo ==
  ASSUME NEW j \in Jobs
  PROVE  /\ \/ CancelTo(j) = state[j]
            \/ state[j] = "queued" /\ CancelTo(j) = "cancelled"
            \/ state[j] = "running" /\ CancelTo(j) = "cancelling"
         /\ \/ ExpireTo(j) = state[j]
            \/ state[j] = "queued" /\ ExpireTo(j) = "failed"
            \/ state[j] = "running" /\ ExpireTo(j) = "cancelling"
  BY DEF CancelTo, ExpireTo

\* A step outside the job's task that changes the registry by update_owned.
LEMMA OutsideUpdate ==
  ASSUME ServiceInv, NEW j \in Jobs, NEW allowed \in BOOLEAN, NEW to, NEW io \in Outcomes,
         Update(j, allowed, to, io),
         \/ to = state[j]
         \/ state[j] = "queued" /\ to \in {"cancelled", "failed"}
         \/ state[j] = "running" /\ to = "cancelling",
         UNCHANGED <<closed, submit, queue, task, running, cancelled, work, published, shutdown>>,
         canceller' \in [Jobs -> CancelStepNames],
         timer' \in [Jobs -> {"off", "armed", "token", "internal"}],
         \A k \in Jobs : CancellerMoves(k)
  PROVE  ServiceInv'
<1>1. /\ state \in [Jobs -> {"none", "queued", "running", "cancelling"} \cup Terminal]
      /\ healthy \in BOOLEAN
  BY DEF ServiceInv, ServiceTypes
<1>2. state' = state \/ state' = [state EXCEPT ![j] = to]
  BY <1>1, UpdateEffect, Zenon
<1>3. healthy' \in BOOLEAN /\ (healthy' => healthy)
  BY <1>1, UpdateEffect, Zenon
<1>4. \A k \in Jobs :
         \/ state'[k] = state[k]
         \/ state[k] = "queued" /\ state'[k] \in {"cancelled", "failed"}
         \/ state[k] = "running" /\ state'[k] = "cancelling"
  BY <1>1, <1>2
<1>5. state' \in [Jobs -> {"none", "queued", "running", "cancelling"} \cup Terminal]
  BY <1>1, <1>2 DEF Terminal
<1>6. ServiceTypes'
  BY <1>3, <1>5 DEF ServiceInv, ServiceTypes
<1>7. \A k \in Jobs : JobKept(k)
  BY <1>4 DEF JobKept
<1>8. \A k \in Jobs : JobInv(k)'
  BY <1>7, KeptJob DEF ServiceInv
<1>9. CloseKept
  <2>1. \A k \in Jobs :
          /\ state'[k] \in {"queued", "running"} => state[k] \in {"queued", "running"}
          /\ state'[k] \in {"queued", "running", "cancelling"} => Live(k)
    BY <1>4 DEF Live
  <2> QED BY <1>3, <2>1 DEF CloseKept, CancellerMoves
<1>10. CloseInv'
  BY <1>9, KeptClosed DEF ServiceInv
<1> QED BY <1>6, <1>8, <1>10 DEF ServiceInv

LEMMA CancelCallInv ==
  ASSUME ServiceInv, NEW j \in Jobs, NEW io \in Outcomes, CancelCall(j, io)
  PROVE  ServiceInv'
<1> DEFINE allowed == state[j] \notin {"completed", "failed"}
<1>1. Update(j, allowed, CancelTo(j), io) /\ allowed \in BOOLEAN
  BY DEF CancelCall
<1>2. UNCHANGED <<closed, submit, queue, task, running, cancelled, work, published, shutdown, timer>>
  BY DEF CancelCall, queueVars, taskVars, tokenVars, workVars
<1>3. /\ canceller \in [Jobs -> CancelStepNames]
      /\ timer \in [Jobs -> {"off", "armed", "token", "internal"}]
      /\ healthy \in BOOLEAN
  BY DEF ServiceInv, ServiceTypes
<1>4. PICK n \in {"token", "internal", "conflict", "end"} :
         /\ canceller' = [canceller EXCEPT ![j] = n]
         /\ canceller[j] = "orphan" => n = "end"
  <2>1. (IF Reply(allowed, io) = "ok" THEN "token" ELSE Reply(allowed, io))
            \in {"token", "internal", "conflict"}
    BY <1>3 DEF Reply
  <2> QED BY <2>1 DEF CancelCall
<1>5. canceller' \in [Jobs -> CancelStepNames]
  BY <1>3, <1>4 DEF CancelStepNames
<1>6. canceller[j] \in {"call", "orphan"}
  BY DEF CancelCall
<1>7. \A k \in Jobs : CancellerMoves(k)
  <2>1. shutdown # "none" => canceller[j] \in {"orphan", "answered", "end"}
    BY DEF ServiceInv, CloseInv
  <2> QED BY <1>3, <1>4, <1>6, <2>1 DEF CancellerMoves
<1> HIDE DEF allowed
<1> QED BY <1>1, <1>2, <1>3, <1>5, <1>7, OutsideUpdate, OutsideTo

LEMMA TimerCallInv ==
  ASSUME ServiceInv, NEW j \in Jobs, NEW io \in Outcomes, TimerCall(j, io)
  PROVE  ServiceInv'
<1> DEFINE allowed == state[j] \in {"queued", "running"}
<1>1. Update(j, allowed, ExpireTo(j), io) /\ allowed \in BOOLEAN
  BY DEF TimerCall
<1>2. /\ UNCHANGED <<closed, submit, queue, task, running, cancelled, work, published, shutdown>>
      /\ canceller' = canceller
  BY DEF TimerCall, queueVars, taskVars, tokenVars, workVars
<1>3. /\ canceller \in [Jobs -> CancelStepNames]
      /\ timer \in [Jobs -> {"off", "armed", "token", "internal"}]
  BY DEF ServiceInv, ServiceTypes
<1>4. timer' \in [Jobs -> {"off", "armed", "token", "internal"}]
  BY <1>3 DEF TimerCall
<1>5. \A k \in Jobs : CancellerMoves(k)
  BY <1>2 DEF CancellerMoves
<1> HIDE DEF allowed
<1> QED BY <1>1, <1>2, <1>3, <1>4, <1>5, OutsideUpdate, OutsideTo

\* close_and_cancel_all does to every job what request_cancel does to one, and when it
\* succeeds no job is left that could start.
LEMMA CloseEffect ==
  ASSUME NEW io \in Outcomes, healthy \in BOOLEAN, closed \in BOOLEAN,
         state \in [Jobs -> {"none", "queued", "running", "cancelling"} \cup Terminal],
         CloseAndCancelAll(io)
  PROVE  /\ closed' = TRUE /\ healthy' \in BOOLEAN /\ (healthy' => healthy)
         /\ state' \in [Jobs -> {"none", "queued", "running", "cancelling"} \cup Terminal]
         /\ \A k \in Jobs :
              \/ state'[k] = state[k]
              \/ state[k] = "queued" /\ state'[k] = "cancelled"
              \/ state[k] = "running" /\ state'[k] = "cancelling"
         /\ io = "ok" \/ healthy' => NoneStarts'
         /\ io # "ok" => ~healthy'
<1> DEFINE new == [j \in Jobs |-> CASE state[j] = "queued"  -> "cancelled"
                                    [] state[j] = "running" -> "cancelling"
                                    [] OTHER -> state[j]]
<1>1. /\ new \in [Jobs -> {"none", "queued", "running", "cancelling"} \cup Terminal]
      /\ \A k \in Jobs : /\ \/ new[k] = state[k]
                            \/ state[k] = "queued" /\ new[k] = "cancelled"
                            \/ state[k] = "running" /\ new[k] = "cancelling"
                         /\ new[k] \notin {"queued", "running"}
  BY DEF Terminal
<1>2. closed' = TRUE /\ (IF new # state THEN Commit(new, io) ELSE NoCommit(io))
  BY DEF CloseAndCancelAll
<1> HIDE DEF new
<1>3. CASE new = state
  <2>1. io = "ok" /\ state' = new /\ healthy' = healthy /\ state' = state
    BY <1>2, <1>3 DEF NoCommit
  <2>2. NoneStarts'
    BY <1>1, <2>1 DEF NoneStarts
  <2> QED BY <1>1, <1>2, <2>1, <2>2
<1>4. CASE new # state
  <2>1. /\ state' = IF io = "refused" THEN state ELSE new
        /\ healthy' = (healthy /\ io = "ok")
    BY <1>2, <1>4 DEF Commit
  <2>2. io # "refused" => NoneStarts'
    BY <1>1, <2>1 DEF NoneStarts
  <2>3. io = "ok" \/ healthy' => NoneStarts'
    BY <2>1, <2>2 DEF Outcomes
  <2>4. healthy' \in BOOLEAN /\ (healthy' => healthy) /\ (io # "ok" => ~healthy')
    BY <2>1
  <2>5. \A k \in Jobs :
              \/ state'[k] = state[k]
              \/ state[k] = "queued" /\ state'[k] = "cancelled"
              \/ state[k] = "running" /\ state'[k] = "cancelling"
    BY <1>1, <2>1
  <2>6. state' \in [Jobs -> {"none", "queued", "running", "cancelling"} \cup Terminal]
    BY <1>1, <2>1
  <2> QED BY <1>2, <2>3, <2>4, <2>5, <2>6
<1> QED BY <1>3, <1>4

\* A step that closes the registry, or only lets the shutdown go on.
LEMMA ClosingInv ==
  ASSUME ServiceInv, NEW io \in Outcomes, CloseAndCancelAll(io),
         UNCHANGED <<submit, canceller, timer, task, running, work, published>>,
         queue' \subseteq queue, cancelled \subseteq cancelled',
         \/ shutdown' = shutdown
         \/ shutdown = "drained" /\ shutdown' = (IF io = "ok" THEN "closed" ELSE "failed")
  PROVE  ServiceInv'
<1>1. /\ state \in [Jobs -> {"none", "queued", "running", "cancelling"} \cup Terminal]
      /\ healthy \in BOOLEAN /\ closed \in BOOLEAN
  BY DEF ServiceInv, ServiceTypes
<1>2. /\ closed' = TRUE /\ healthy' \in BOOLEAN /\ (healthy' => healthy)
      /\ state' \in [Jobs -> {"none", "queued", "running", "cancelling"} \cup Terminal]
      /\ io = "ok" \/ healthy' => NoneStarts'
  BY <1>1, CloseEffect
<1>3. \A k \in Jobs :
              \/ state'[k] = state[k]
              \/ state[k] = "queued" /\ state'[k] = "cancelled"
              \/ state[k] = "running" /\ state'[k] = "cancelling"
  BY <1>1, CloseEffect
<1>4. ServiceTypes'
  BY <1>2 DEF ServiceInv, ServiceTypes
<1>5. \A k \in Jobs : JobKept(k)
  BY <1>3 DEF JobKept
<1>6. \A k \in Jobs : JobInv(k)'
  BY <1>5, KeptJob DEF ServiceInv
<1>7. NoneStarts => NoneStarts'
  BY <1>3 DEF NoneStarts
<1>8. \A k \in Jobs : Live(k)' => Live(k)
  BY <1>3 DEF Live
<1>9. CloseInv'
  <2>1. closed' /\ healthy' => NoneStarts'
    BY <1>2
  <2>2. shutdown' \in {"closed", "waiting", "ok", "timeout"} => closed' /\ NoneStarts'
    <3>1. CASE shutdown' = shutdown
      BY <3>1, <1>2, <1>7 DEF ServiceInv, CloseInv
    <3>2. CASE shutdown' = (IF io = "ok" THEN "closed" ELSE "failed")
      BY <3>2, <1>2
    <3> QED BY <3>1, <3>2
  <2>3. shutdown' # "none" =>
          \A j \in Jobs : submit'[j] \in {"orphan", "end"} /\ canceller'[j] \in {"orphan", "answered", "end"}
    BY DEF ServiceInv, CloseInv
  <2>4. \A j \in Jobs : submit'[j] = "orphan" \/ canceller'[j] = "orphan" => shutdown' # "none"
    BY DEF ServiceInv, CloseInv
  <2>5. shutdown' \in {"drained", "closed", "waiting", "ok", "timeout", "failed"} => queue' = {}
    BY DEF ServiceInv, CloseInv
  <2>6. shutdown' = "ok" => \A j \in Jobs : ~Live(j)' /\ task'[j] \in AtRest
    BY <1>8 DEF ServiceInv, CloseInv, AtRest
  <2> QED BY <2>1, <2>2, <2>3, <2>4, <2>5, <2>6 DEF CloseInv, AtRest
<1> QED BY <1>4, <1>6, <1>9 DEF ServiceInv

LEMMA ClosingSteps ==
  ASSUME ServiceInv, NEW io \in Outcomes, CloserRuns(io) \/ ShutdownCloses(io)
  PROVE  ServiceInv'
<1>1. CASE CloserRuns(io)
  BY <1>1, ClosingInv DEF CloserRuns, requestVars, queueVars, taskVars, tokenVars, workVars
<1>2. CASE ShutdownCloses(io)
  <2>1. queue' \subseteq queue /\ cancelled \subseteq cancelled'
    BY <1>2, NoticeEffect DEF ShutdownCloses
  <2> QED BY <1>2, <2>1, ClosingInv DEF ShutdownCloses, requestVars, taskVars, workVars
<1> QED BY <1>1, <1>2

\* submit_with_limit: it is refused once the registry is closed, also for a request
\* whose connection is gone.
LEMMA SubmitCallInv ==
  ASSUME ServiceInv, NEW j \in Jobs, NEW io \in Outcomes, SubmitCall(j, io)
  PROVE  ServiceInv'
<1>1. /\ state \in [Jobs -> {"none", "queued", "running", "cancelling"} \cup Terminal]
      /\ submit \in [Jobs -> SubmitStepNames]
      /\ healthy \in BOOLEAN /\ closed \in BOOLEAN /\ (~closed) \in BOOLEAN
  BY DEF ServiceInv, ServiceTypes
<1>2. /\ submit[j] \in {"received", "orphan"}
      /\ Update(j, ~closed, "queued", io)
      /\ UNCHANGED <<closed, canceller, timer, queue, task, running, cancelled, work, published, shutdown>>
  BY DEF SubmitCall, queueVars, taskVars, tokenVars, workVars
<1>3. /\ healthy' \in BOOLEAN /\ (healthy' => healthy)
      /\ state' = state \/ state' = [state EXCEPT ![j] = "queued"]
      /\ state' # state => ~closed
      /\ healthy /\ ~closed /\ io = "ok" => state' = [state EXCEPT ![j] = "queued"]
  BY <1>1, <1>2, UpdateEffect, Zenon
<1>4. PICK n \in {"end", "conflict", "accepted", "internal"} :
         /\ submit' = [submit EXCEPT ![j] = n]
         /\ submit[j] = "orphan" => n = "end"
         /\ n = "accepted" => healthy /\ ~closed /\ io = "ok"
  <2>1. submit' = [submit EXCEPT ![j] =
            IF submit[j] = "orphan" THEN "end"
            ELSE IF closed THEN "conflict"
            ELSE IF Reply(~closed, io) = "ok" THEN "accepted" ELSE "internal"]
    BY DEF SubmitCall
  <2>2. Reply(~closed, io) = "ok" => healthy /\ ~closed /\ io = "ok"
    BY <1>1 DEF Reply
  <2> QED BY <1>1, <2>1, <2>2
<1>5. JobInv(j) /\ (shutdown # "none" => submit[j] = "orphan") /\ CloseInv
  BY <1>2 DEF ServiceInv, CloseInv
<1>6. ServiceTypes'
  <2>1. submit' \in [Jobs -> SubmitStepNames]
    BY <1>1, <1>4 DEF SubmitStepNames
  <2>2. state' \in [Jobs -> {"none", "queued", "running", "cancelling"} \cup Terminal]
    BY <1>1, <1>3
  <2> QED BY <1>1, <1>2, <1>3, <2>1, <2>2 DEF ServiceInv, ServiceTypes
<1>7. JobInv(j)'
  <2>1. state'[j] \in {"none", "queued"} /\ (submit'[j] = "accepted" => state'[j] = "queued")
    BY <1>1, <1>2, <1>3, <1>4, <1>5 DEF JobInv
  <2>2. /\ task'[j] = "none" /\ j \notin queue' /\ work'[j] = "none" /\ j \notin published'
        /\ j \notin running'
    BY <1>2, <1>5 DEF JobInv, Unstarted
  <2>3. submit'[j] \in {"end", "conflict", "accepted", "internal"}
    BY <1>1, <1>4
  <2> QED BY <2>1, <2>2, <2>3 DEF JobInv, Working, Reachable
<1>8. ASSUME NEW k \in Jobs, k # j PROVE JobInv(k)'
  <2>1. JobKept(k)
    BY <1>1, <1>2, <1>3, <1>4, <1>8 DEF JobKept
  <2> QED BY <2>1, KeptJob DEF ServiceInv
<1>9. CloseInv'
  <2>1. CASE closed
    <3>1. state' = state
      BY <2>1, <1>3
    <3>2. \A k \in Jobs :
            /\ submit'[k] = submit[k] \/ submit'[k] = "end" \/ (shutdown = "none" /\ submit'[k] # "orphan")
            /\ canceller'[k] = canceller[k]
      BY <1>1, <1>2, <1>4, <1>5
    <3>3. CloseKept
      BY <1>2, <1>3, <3>1, <3>2 DEF CloseKept, Live
    <3> QED BY <3>3, <1>5, KeptClosed
  <2>2. CASE ~closed
    <3>1. shutdown' \notin {"closed", "waiting", "ok", "timeout"} /\ ~closed'
      BY <2>2, <1>2, <1>5 DEF CloseInv
    <3>2. shutdown' # "none" =>
            \A k \in Jobs : submit'[k] \in {"orphan", "end"} /\ canceller'[k] \in {"orphan", "answered", "end"}
      BY <1>1, <1>2, <1>4, <1>5 DEF CloseInv
    <3>3. \A k \in Jobs : submit'[k] = "orphan" \/ canceller'[k] = "orphan" => shutdown' # "none"
      BY <1>1, <1>2, <1>4, <1>5 DEF CloseInv
    <3>4. shutdown' \in {"drained", "closed", "waiting", "ok", "timeout", "failed"} => queue' = {}
      BY <1>2, <1>5 DEF CloseInv
    <3> QED BY <3>1, <3>2, <3>3, <3>4 DEF CloseInv
  <2> QED BY <2>1, <2>2
<1> QED BY <1>6, <1>7, <1>8, <1>9 DEF ServiceInv

\* A job enters the queue only before the connections are aborted, and never twice.
LEMMA ScheduleInv ==
  ASSUME ServiceInv, NEW j \in Jobs, Schedule(j)
  PROVE  ServiceInv'
<1>1. /\ submit \in [Jobs -> SubmitStepNames] /\ JobInv(j) /\ CloseInv
      /\ timer \in [Jobs -> {"off", "armed", "token", "internal"}]
  BY DEF ServiceInv, ServiceTypes
<1>2. /\ submit[j] = "schedule" /\ submit' = [submit EXCEPT ![j] = "end"]
      /\ queue' \subseteq queue \cup {j}
      /\ timer' = timer \/ timer' = [timer EXCEPT ![j] = "armed"]
      /\ UNCHANGED <<state, healthy, closed, canceller, task, running, cancelled, work, published, shutdown>>
  BY DEF Schedule, queueVars, registryVars, taskVars, tokenVars, workVars
<1>3. shutdown = "none"
  BY <1>1, <1>2 DEF CloseInv
<1>4. ServiceTypes'
  <2>1. submit' \in [Jobs -> SubmitStepNames]
    BY <1>1, <1>2 DEF SubmitStepNames
  <2>2. timer' \in [Jobs -> {"off", "armed", "token", "internal"}]
    BY <1>1, <1>2
  <2> QED BY <1>2, <2>1, <2>2 DEF ServiceInv, ServiceTypes
<1>5. JobInv(j)'
  <2>1. submit'[j] = "end" /\ task'[j] = "none" /\ state'[j] # "none"
    BY <1>1, <1>2 DEF JobInv
  <2>2. work'[j] = "none" /\ j \notin published' /\ j \notin running'
    BY <1>1, <1>2 DEF JobInv, Unstarted
  <2> QED BY <2>1, <2>2 DEF JobInv, Working, Reachable
<1>6. ASSUME NEW k \in Jobs, k # j PROVE JobInv(k)'
  <2>1. JobKept(k)
    BY <1>1, <1>2, <1>6 DEF JobKept
  <2> QED BY <2>1, KeptJob DEF ServiceInv
<1>7. CloseInv'
  <2>1. NoneStarts' = NoneStarts
    BY <1>2 DEF NoneStarts
  <2>2. closed' /\ healthy' => NoneStarts'
    BY <1>1, <1>2, <2>1, Zenon DEF CloseInv
  <2>3. \A k \in Jobs : submit'[k] # "orphan" /\ canceller'[k] # "orphan"
    BY <1>1, <1>2, <1>3 DEF CloseInv
  <2> QED BY <1>2, <1>3, <2>2, <2>3 DEF CloseInv
<1> QED BY <1>4, <1>5, <1>6, <1>7 DEF ServiceInv

-----------------------------------------------------------------------------
(* The shutdown.                                                           *)

\* The connections are aborted at any of their steps: what is on the blocking pool is
\* an orphan, everything else is over.
LEMMA AbortInv ==
  ASSUME ServiceInv, AbortConnections
  PROVE  ServiceInv'
<1>1. /\ submit \in [Jobs -> SubmitStepNames] /\ canceller \in [Jobs -> CancelStepNames] /\ CloseInv
  BY DEF ServiceInv, ServiceTypes
<1>2. /\ shutdown = "none" /\ shutdown' = "aborted"
      /\ submit' = [j \in Jobs |-> IF submit[j] = "received" THEN "orphan" ELSE "end"]
      /\ canceller' = [j \in Jobs |-> CASE canceller[j] = "call" -> "orphan"
                                       [] canceller[j] = "answered" -> "answered"
                                       [] OTHER -> "end"]
      /\ UNCHANGED <<state, healthy, closed, timer, queue, task, running, cancelled, work, published>>
  BY DEF AbortConnections, registryVars, queueVars, taskVars, tokenVars, workVars
<1>3. ServiceTypes'
  <2>1. submit' \in [Jobs -> SubmitStepNames]
    BY <1>2 DEF SubmitStepNames
  <2>2. canceller' \in [Jobs -> CancelStepNames]
    BY <1>2 DEF CancelStepNames
  <2> QED BY <1>2, <2>1, <2>2 DEF ServiceInv, ServiceTypes
<1>4. \A k \in Jobs : JobKept(k)
  BY <1>2 DEF JobKept
<1>5. \A k \in Jobs : JobInv(k)'
  BY <1>4, KeptJob DEF ServiceInv
<1>6. CloseInv'
  <2>1. NoneStarts' = NoneStarts
    BY <1>2 DEF NoneStarts
  <2>2. closed' /\ healthy' => NoneStarts'
    BY <1>1, <1>2, <2>1, Zenon DEF CloseInv
  <2>3. \A k \in Jobs : submit'[k] \in {"orphan", "end"} /\ canceller'[k] \in {"orphan", "answered", "end"}
    BY <1>2
  <2> QED BY <1>2, <2>2, <2>3 DEF CloseInv
<1> QED BY <1>3, <1>5, <1>6 DEF ServiceInv

\* A Quiet registry and no token in the map: no task is between InsertToken and Exit.
LEMMA QuietAtRest ==
  ASSUME ServiceInv, Quiet, NEW j \in Jobs
  PROVE  ~Live(j) /\ task[j] \in AtRest
<1>1. ~Live(j) /\ j \notin running /\ JobInv(j)
  BY DEF Quiet, ServiceInv
<1> QED BY <1>1 DEF JobInv, AtRest

LEMMA ShutdownInv ==
  ASSUME ServiceInv, ShutdownStops \/ ShutdownDrains \/ ShutdownCancels \/ ShutdownReturns
  PROVE  ServiceInv'
<1>1. /\ UNCHANGED <<state, healthy, closed, submit, canceller, timer, task, running, work, published>>
      /\ queue' \subseteq queue /\ cancelled \subseteq cancelled'
  BY DEF ShutdownStops, ShutdownDrains, ShutdownCancels, ShutdownReturns, registryVars,
     requestVars, queueVars, taskVars, tokenVars, workVars
<1>2. /\ \/ shutdown = "aborted" /\ shutdown' = "stopped"
         \/ shutdown = "stopped" /\ shutdown' = "drained" /\ queue' = {}
         \/ shutdown = "closed" /\ shutdown' = "waiting"
         \/ shutdown = "waiting" /\ shutdown' = "ok" /\ Quiet
         \/ shutdown = "waiting" /\ shutdown' = "timeout"
  BY DEF ShutdownStops, ShutdownDrains, ShutdownCancels, ShutdownReturns
<1>3. ServiceTypes'
  BY <1>1 DEF ServiceInv, ServiceTypes
<1>4. \A k \in Jobs : JobKept(k)
  BY <1>1 DEF JobKept
<1>5. \A k \in Jobs : JobInv(k)'
  BY <1>4, KeptJob DEF ServiceInv
<1>6. CloseInv'
  <2>1. NoneStarts' = NoneStarts /\ CloseInv
    BY <1>1 DEF NoneStarts, ServiceInv
  <2>2. closed' /\ healthy' => NoneStarts'
    BY <1>1, <2>1, Zenon DEF CloseInv
  <2>3. shutdown' \in {"closed", "waiting", "ok", "timeout"} => closed' /\ NoneStarts'
    BY <1>1, <1>2, <2>1 DEF CloseInv
  <2>4. \A k \in Jobs : submit'[k] \in {"orphan", "end"} /\ canceller'[k] \in {"orphan", "answered", "end"}
    BY <1>1, <1>2, <2>1 DEF CloseInv
  <2>5. shutdown' # "none"
    BY <1>2
  <2>6. shutdown' \in {"drained", "closed", "waiting", "ok", "timeout", "failed"} => queue' = {}
    BY <1>1, <1>2, <2>1 DEF CloseInv
  <2>7. shutdown' = "ok" => \A j \in Jobs : ~Live(j)' /\ task'[j] \in AtRest
    <3>1. shutdown' = "ok" => Quiet
      BY <1>2
    <3>2. shutdown' = "ok" => \A j \in Jobs : ~Live(j) /\ task[j] \in AtRest
      BY <3>1, QuietAtRest
    <3> QED BY <3>2, <1>1 DEF Live
  <2> QED BY <2>2, <2>3, <2>4, <2>5, <2>6, <2>7 DEF CloseInv, AtRest
<1> QED BY <1>3, <1>5, <1>6 DEF ServiceInv

-----------------------------------------------------------------------------
(* The drainer's pop, and the blocking worker.                             *)

LEMMA PopInv ==
  ASSUME ServiceInv, NEW j \in Jobs, DrainerPops(j)
  PROVE  ServiceInv'
<1>1. task \in [Jobs -> TaskStepNames] /\ JobInv(j) /\ CloseInv
  BY DEF ServiceInv, ServiceTypes
<1>2. /\ j \in queue /\ queue' = queue \ {j} /\ task' = [task EXCEPT ![j] = "spawned"]
      /\ UNCHANGED <<state, healthy, closed, submit, canceller, timer, running, cancelled, work,
                     published, shutdown>>
  BY DEF DrainerPops, registryVars, requestVars, tokenVars, workVars
<1>3. shutdown # "ok"
  BY <1>1, <1>2 DEF CloseInv
<1>4. ServiceTypes'
  <2>1. task' \in [Jobs -> TaskStepNames]
    BY <1>1, <1>2 DEF TaskStepNames
  <2> QED BY <1>2, <2>1 DEF ServiceInv, ServiceTypes
<1>5. JobInv(j)'
  <2>1. task'[j] = "spawned" /\ state'[j] # "none" /\ submit'[j] = "end" /\ j \notin queue'
    BY <1>1, <1>2 DEF JobInv
  <2>2. work'[j] = "none" /\ j \notin published' /\ j \notin running'
    BY <1>1, <1>2 DEF JobInv, Unstarted
  <2> QED BY <2>1, <2>2 DEF JobInv, Working, Reachable
<1>6. ASSUME NEW k \in Jobs, k # j PROVE JobInv(k)'
  <2>1. JobKept(k)
    BY <1>1, <1>2, <1>6 DEF JobKept
  <2> QED BY <2>1, KeptJob DEF ServiceInv
<1>7. CloseKept
  <2>1. healthy' => healthy
    BY <1>2, Zenon
  <2> QED BY <1>2, <1>3, <2>1 DEF CloseKept, Live
<1>8. CloseInv'
  BY <1>1, <1>7, KeptClosed
<1> QED BY <1>4, <1>5, <1>6, <1>8 DEF ServiceInv

LEMMA WorkerInv ==
  ASSUME ServiceInv, NEW j \in Jobs,
         WorkerPublishes(j) \/ \E result \in {"ok", "cancelled", "error"} : WorkerEnds(j, result)
  PROVE  ServiceInv'
<1>1. work \in [Jobs -> {"none", "busy", "ok", "cancelled", "error"}] /\ JobInv(j) /\ CloseInv
  BY DEF ServiceInv, ServiceTypes
<1>2. UNCHANGED <<state, healthy, closed, submit, canceller, timer, queue, task, running, cancelled,
                  shutdown>>
  BY DEF WorkerPublishes, WorkerEnds, registryVars, requestVars, queueVars, taskVars, tokenVars
<1>3. /\ work[j] = "busy" /\ published' \subseteq published \cup {j}
      /\ \/ work' = work
         \/ /\ published' = published
            /\ \E result \in {"ok", "cancelled", "error"} :
                  /\ work' = [work EXCEPT ![j] = result]
                  /\ result = "cancelled" => j \notin published
  BY DEF WorkerPublishes, WorkerEnds
<1>4. ServiceTypes'
  <2>1. work' \in [Jobs -> {"none", "busy", "ok", "cancelled", "error"}]
    BY <1>1, <1>3
  <2>2. published' \subseteq Jobs
    BY <1>3 DEF ServiceInv, ServiceTypes
  <2> QED BY <1>2, <2>1, <2>2 DEF ServiceInv, ServiceTypes
<1>5. JobInv(j)'
  <2>1. task[j] \in Reachable \ {"spawn"} /\ state[j] \in {"running", "cancelling"}
    BY <1>1, <1>3 DEF JobInv, Working
  <2>2. /\ work'[j] \in {"busy", "ok", "cancelled", "error"}
        /\ work'[j] = "cancelled" => j \notin published'
    BY <1>1, <1>3
  <2>3. task'[j] \notin Unstarted /\ task'[j] # "cancelled"
    BY <1>2, <2>1 DEF Unstarted, Reachable
  <2>4. /\ task'[j] \in Reachable \ {"spawn"}
        /\ j \in published' => work'[j] \notin {"none", "cancelled"} /\ state'[j] \in {"running", "cancelling"}
    BY <1>2, <2>1, <2>2
  <2> QED BY <1>1, <1>2, <2>3, <2>4 DEF JobInv
<1>6. ASSUME NEW k \in Jobs, k # j PROVE JobInv(k)'
  <2>1. JobKept(k)
    BY <1>1, <1>2, <1>3, <1>6 DEF JobKept
  <2> QED BY <2>1, KeptJob DEF ServiceInv
<1>7. CloseKept
  <2>1. healthy' => healthy
    BY <1>2, Zenon
  <2> QED BY <1>2, <2>1 DEF CloseKept, Live
<1>8. CloseInv'
  BY <1>1, <1>7, KeptClosed
<1> QED BY <1>4, <1>5, <1>6, <1>8 DEF ServiceInv

-----------------------------------------------------------------------------
(* The job's own task.                                                     *)
StateNames == {"none", "queued", "running", "cancelling"} \cup Terminal

\* A step of execute_scheduled for job j to `next`.
TaskMoves(j, next) ==
    /\ next \in TaskStepNames /\ task' = [task EXCEPT ![j] = next]
    /\ UNCHANGED <<closed, submit, canceller, timer, published, shutdown>>
    /\ state' \in [Jobs -> StateNames] /\ healthy' \in BOOLEAN /\ (healthy' => healthy)
    /\ queue' \subseteq queue /\ cancelled \subseteq cancelled' /\ running' \subseteq Jobs
    /\ work' \in [Jobs -> {"none", "busy", "ok", "cancelled", "error"}]
    /\ \A k \in Jobs : k # j => /\ state'[k] = state[k] /\ work'[k] = work[k]
                                /\ k \in running' <=> k \in running
    /\ state'[j] \in {"queued", "running"} => state[j] \in {"queued", "running"}
    /\ state'[j] \in {"queued", "running", "cancelling"} => Live(j)

LEMMA TaskInv ==
  ASSUME ServiceInv, NEW j \in Jobs, NEW next, TaskMoves(j, next), JobInv(j)',
         shutdown = "ok" => next \in AtRest
  PROVE  ServiceInv'
<1>1. task \in [Jobs -> TaskStepNames] /\ task' \in [Jobs -> TaskStepNames]
  BY DEF ServiceInv, ServiceTypes, TaskMoves
<1>2. \A k \in Jobs : task'[k] = IF k = j THEN next ELSE task[k]
  BY <1>1 DEF TaskMoves
<1>3. ServiceTypes'
  <2>1. UNCHANGED <<closed, submit, canceller, timer, published>>
    BY DEF TaskMoves
  <2>2. /\ state' \in [Jobs -> StateNames] /\ healthy' \in BOOLEAN /\ running' \subseteq Jobs
        /\ work' \in [Jobs -> {"none", "busy", "ok", "cancelled", "error"}]
    BY DEF TaskMoves
  <2> QED BY <1>1, <2>1, <2>2 DEF ServiceInv, ServiceTypes, StateNames
<1>4. ASSUME NEW k \in Jobs, k # j PROVE JobInv(k)'
  <2>1. JobKept(k)
    BY <1>2, <1>4 DEF JobKept, TaskMoves
  <2> QED BY <2>1, KeptJob DEF ServiceInv
<1>5. CloseKept
  <2>1. closed' = closed /\ (healthy' => healthy) /\ shutdown' = shutdown /\ queue' \subseteq queue
    BY Zenon DEF TaskMoves
  <2>2. \A k \in Jobs :
          /\ state'[k] \in {"queued", "running"} => state[k] \in {"queued", "running"}
          /\ state'[k] \in {"queued", "running", "cancelling"} => Live(k)
    BY DEF TaskMoves, Live
  <2>3. \A k \in Jobs : submit'[k] = submit[k] /\ canceller'[k] = canceller[k]
    BY DEF TaskMoves
  <2>4. \A k \in Jobs : task'[k] = task[k] \/ (shutdown = "ok" => task'[k] \in AtRest)
    BY <1>2
  <2> QED BY <2>1, <2>2, <2>3, <2>4 DEF CloseKept
<1>6. CloseInv'
  BY <1>5, KeptClosed DEF ServiceInv
<1> QED BY <1>3, <1>4, <1>6 DEF ServiceInv

\* The registry call of a task, and the step it goes to.
LEMMA TaskCallEffect ==
  ASSUME ServiceInv, NEW j \in Jobs, NEW allowed \in BOOLEAN, NEW to \in StateNames,
         NEW io \in Outcomes, NEW next \in TaskStepNames, TaskCall(j, allowed, to, io, next),
         allowed /\ to \in {"queued", "running"} => state[j] \in {"queued", "running"},
         allowed /\ to \in {"queued", "running", "cancelling"} => Live(j)
  PROVE  \E n \in {next, "internal", "conflict"} :
            /\ TaskMoves(j, n) /\ UNCHANGED <<work, running, cancelled, queue>>
            /\ state'[j] = state[j] \/ (allowed /\ state'[j] = to)
            /\ n = next => n \in {"internal", "conflict"} \/ state'[j] = to
            /\ n = "internal" => n = next \/ ~healthy'
<1>1. /\ state \in [Jobs -> StateNames] /\ healthy \in BOOLEAN /\ running \subseteq Jobs
      /\ work \in [Jobs -> {"none", "busy", "ok", "cancelled", "error"}]
  BY DEF ServiceInv, ServiceTypes, StateNames
<1>2. /\ Update(j, allowed, to, io)
      /\ task' = [task EXCEPT ![j] = IF Reply(allowed, io) = "ok" THEN next ELSE Reply(allowed, io)]
      /\ UNCHANGED <<closed, submit, canceller, timer, published, shutdown>>
      /\ UNCHANGED <<work, running, cancelled, queue>>
  BY DEF TaskCall, Goes, requestVars, queueVars, tokenVars, workVars
<1>3. /\ healthy' \in BOOLEAN
      /\ healthy' => healthy
      /\ state' = state \/ state' = [state EXCEPT ![j] = to]
      /\ state' # state => healthy /\ allowed
      /\ io # "ok" => ~healthy'
      /\ io = "ok" => healthy' = healthy
      /\ healthy /\ allowed /\ io = "ok" => state' = [state EXCEPT ![j] = to]
  BY <1>1, <1>2, UpdateEffect, Zenon
<1>4. /\ Reply(allowed, io) \in {"ok", "internal", "conflict"}
      /\ Reply(allowed, io) = "ok" => healthy /\ allowed /\ io = "ok"
      /\ Reply(allowed, io) = "internal" => ~healthy \/ io # "ok"
  BY <1>1 DEF Reply
<1> DEFINE n == IF Reply(allowed, io) = "ok" THEN next ELSE Reply(allowed, io)
<1>5. n \in {next, "internal", "conflict"} /\ n \in TaskStepNames
  BY <1>4 DEF TaskStepNames
<1>6. state' \in [Jobs -> StateNames] /\ \A k \in Jobs : k # j => state'[k] = state[k]
  BY <1>1, <1>3
<1>7. state'[j] = state[j] \/ (allowed /\ state'[j] = to)
  BY <1>1, <1>3
<1>8. /\ state'[j] \in {"queued", "running"} => state[j] \in {"queued", "running"}
      /\ state'[j] \in {"queued", "running", "cancelling"} => Live(j)
  BY <1>7 DEF Live
<1>9. n = next => n \in {"internal", "conflict"} \/ state'[j] = to
  BY <1>1, <1>3, <1>4
<1>10. n = "internal" => n = next \/ ~healthy'
  BY <1>3, <1>4
<1>11. task' = [task EXCEPT ![j] = n]
  BY <1>2
<1> HIDE DEF n
<1>12. TaskMoves(j, n)
  BY <1>1, <1>2, <1>3, <1>5, <1>6, <1>8, <1>11 DEF TaskMoves
<1> QED BY <1>2, <1>5, <1>7, <1>9, <1>10, <1>12

\* Before there is a worker.
LEMMA EarlyJob ==
  ASSUME ServiceInv, NEW j \in Jobs, NEW next, TaskMoves(j, next),
         task[j] \in Unstarted \ {"none", "spawned", "spawn"},
         next \in (Unstarted \ {"none", "spawned"}) \cup {"exit", "internal", "conflict"},
         next = "spawn" => state'[j] \in {"running", "cancelling"},
         state'[j] # "none", work' = work, running' = running
  PROVE  JobInv(j)'
<1>1. JobInv(j) /\ task'[j] = next
  BY DEF ServiceInv, ServiceTypes, TaskMoves
<1>2. submit'[j] = "end" /\ j \notin queue' /\ work'[j] = "none" /\ j \notin published' /\ j \in running'
  BY <1>1 DEF JobInv, TaskMoves, Unstarted
<1>3. /\ next \notin {"none", "spawned", "done", "cancelled", "late", "late_internal", "await"}
      /\ next \in Working => next = "spawn"
  BY DEF Unstarted, Working, Reachable
<1> QED BY <1>1, <1>2, <1>3 DEF JobInv

\* From the select on.
LEMMA LateJob ==
  ASSUME ServiceInv, NEW j \in Jobs, NEW next, TaskMoves(j, next),
         task[j] \in (Working \ {"spawn"}) \cup {"internal", "conflict"},
         next \in (Working \ {"spawn"}) \cup {"exit", "internal", "conflict"},
         next \in Working => state'[j] \in {"running", "cancelling"},
         work[j] = "busy" => next \in Reachable,
         next = "cancelled" => work[j] = "cancelled",
         next \in {"late", "late_internal", "await"} => j \in cancelled',
         state'[j] # "none",
         j \in published => state'[j] \in {"running", "cancelling", "completed", "failed"},
         work' = work, running' = running
  PROVE  JobInv(j)'
<1>1. JobInv(j) /\ task'[j] = next
  BY DEF ServiceInv, ServiceTypes, TaskMoves
<1>2. submit'[j] = "end" /\ j \notin queue' /\ j \in running'
  BY <1>1 DEF JobInv, TaskMoves, Working, Reachable
<1>3. next \notin {"none", "spawned", "done"} /\ next \notin Unstarted
  BY DEF Unstarted, Working, Reachable
<1>4. j \in published' => work'[j] \notin {"none", "cancelled"}
  BY <1>1 DEF JobInv, TaskMoves
<1>5. work'[j] = "busy" => next \in Reachable \ {"spawn"}
  BY <1>3 DEF Unstarted
<1>6. j \in published' => j \in published
  BY DEF TaskMoves
<1> QED BY <1>1, <1>2, <1>3, <1>4, <1>5, <1>6 DEF JobInv

\* After a shutdown that returned Ok a task makes no step but the ones of a job that
\* does not start.
LEMMA BusyNotOk ==
  ASSUME ServiceInv, NEW j \in Jobs, task[j] \notin AtRest
  PROVE  shutdown # "ok"
  BY DEF ServiceInv, CloseInv, AtRest

LEMMA TokenSteps ==
  ASSUME ServiceInv, NEW j \in Jobs, InsertToken(j) \/ Exit(j)
  PROVE  ServiceInv'
<1>1. /\ state \in [Jobs -> StateNames] /\ healthy \in BOOLEAN /\ running \subseteq Jobs
      /\ work \in [Jobs -> {"none", "busy", "ok", "cancelled", "error"}]
      /\ task \in [Jobs -> TaskStepNames] /\ JobInv(j)
  BY DEF ServiceInv, ServiceTypes, StateNames
<1>2. /\ UNCHANGED <<closed, submit, canceller, timer, published, shutdown>>
      /\ UNCHANGED <<state, healthy, work, queue, cancelled>>
  BY DEF InsertToken, Exit, registryVars, requestVars, queueVars, workVars
<1>3. CASE InsertToken(j)
  <2>1. task[j] = "spawned" /\ task' = [task EXCEPT ![j] = "snapshot"] /\ running' = running \cup {j}
    BY <1>3 DEF InsertToken, Goes
  <2>2. TaskMoves(j, "snapshot")
    BY <1>1, <1>2, <2>1 DEF TaskMoves, TaskStepNames, Live
  <2>3. /\ task'[j] = "snapshot" /\ submit'[j] = "end" /\ j \notin queue' /\ state'[j] # "none"
        /\ j \in running' /\ work'[j] = "none" /\ j \notin published'
    BY <1>1, <1>2, <2>1 DEF JobInv, Unstarted
  <2>4. JobInv(j)'
    BY <2>3 DEF JobInv, Working, Reachable
  <2> QED BY <2>2, <2>4, TaskInv DEF AtRest
<1>4. CASE Exit(j)
  <2>1. task[j] = "exit" /\ task' = [task EXCEPT ![j] = "done"] /\ running' = running \ {j}
    BY <1>4 DEF Exit, Goes
  <2>2. TaskMoves(j, "done")
    BY <1>1, <1>2, <2>1 DEF TaskMoves, TaskStepNames, Live
  <2>3. /\ task'[j] = "done" /\ submit'[j] = "end" /\ j \notin queue' /\ state'[j] # "none"
        /\ j \notin running' /\ work'[j] # "busy"
    BY <1>1, <1>2, <2>1 DEF JobInv, Reachable
  <2>4. j \in published' => /\ work'[j] \notin {"none", "cancelled"}
                            /\ state'[j] \in {"running", "cancelling", "completed", "failed"}
    BY <1>1, <1>2 DEF JobInv
  <2>5. JobInv(j)'
    BY <2>3, <2>4 DEF JobInv, Working, Reachable, Unstarted
  <2> QED BY <2>2, <2>5, TaskInv DEF AtRest
<1> QED BY <1>3, <1>4

\* Steps of the task that leave the registry alone.
LEMMA SilentMoves ==
  ASSUME ServiceInv, NEW j \in Jobs, NEW next \in TaskStepNames, Goes(j, next),
         UNCHANGED <<registryVars, requestVars, running, workVars, shutdown>>,
         queue' \subseteq queue, cancelled \subseteq cancelled'
  PROVE  TaskMoves(j, next) /\ work' = work /\ running' = running /\ state' = state
<1>1. /\ state \in [Jobs -> StateNames] /\ healthy \in BOOLEAN /\ running \subseteq Jobs
      /\ work \in [Jobs -> {"none", "busy", "ok", "cancelled", "error"}]
  BY DEF ServiceInv, ServiceTypes, StateNames
<1>2. /\ UNCHANGED <<closed, submit, canceller, timer, published, shutdown>>
      /\ UNCHANGED <<state, healthy, work, running>>
  BY DEF registryVars, requestVars, workVars
<1>3. healthy' => healthy
  BY <1>2, Zenon
<1> QED BY <1>1, <1>2, <1>3 DEF TaskMoves, Goes, Live

LEMMA WaitSteps ==
  ASSUME ServiceInv, NEW j \in Jobs, Snapshot(j) \/ WaitThreads(j) \/ WaitMemory(j) \/ StartInspectFails(j)
  PROVE  ServiceInv'
<1>1. JobInv(j) /\ CloseInv
  BY DEF ServiceInv
<1>2. /\ UNCHANGED <<registryVars, requestVars, running, workVars, shutdown>>
      /\ queue' = queue /\ cancelled' = cancelled
  BY DEF Snapshot, WaitThreads, WaitMemory, Wait, StartInspectFails, queueVars, tokenVars
<1>3. PICK next \in {"exit", "overdue", "threads", "memory", "start", "wait_cancelled",
                     "wait_deadline", "internal"} :
         /\ Goes(j, next)
         /\ task[j] \in {"snapshot", "threads", "memory", "start"}
         /\ task[j] = "snapshot" => next = "exit" \/ state[j] = "queued"
  BY DEF Snapshot, SnapshotStep, WaitThreads, WaitMemory, Wait, StartInspectFails
<1>4. next \in TaskStepNames
  BY DEF TaskStepNames
<1>5. TaskMoves(j, next) /\ work' = work /\ running' = running /\ state' = state
  BY <1>2, <1>3, <1>4, SilentMoves
<1>6. JobInv(j)'
  <2>1. /\ task[j] \in Unstarted \ {"none", "spawned", "spawn"}
        /\ next \in (Unstarted \ {"none", "spawned"}) \cup {"exit", "internal", "conflict"}
        /\ next # "spawn"
    BY <1>3 DEF Unstarted
  <2>2. state'[j] # "none"
    BY <1>1, <1>3, <1>5 DEF JobInv
  <2> QED BY <1>5, <2>1, <2>2, EarlyJob
<1>7. shutdown = "ok" => next \in AtRest
  <2>1. CASE task[j] = "snapshot"
    <3>1. shutdown = "ok" => state[j] # "queued"
      BY <1>1 DEF CloseInv, Live
    <3> QED BY <1>3, <2>1, <3>1 DEF AtRest
  <2>2. CASE task[j] # "snapshot"
    BY <1>3, <2>2, BusyNotOk DEF AtRest
  <2> QED BY <2>1, <2>2
<1> QED BY <1>5, <1>6, <1>7, TaskInv

LEMMA SpawnInv ==
  ASSUME ServiceInv, NEW j \in Jobs, SpawnWorker(j)
  PROVE  ServiceInv'
<1>1. /\ state \in [Jobs -> StateNames] /\ healthy \in BOOLEAN /\ running \subseteq Jobs
      /\ work \in [Jobs -> {"none", "busy", "ok", "cancelled", "error"}]
      /\ task \in [Jobs -> TaskStepNames] /\ JobInv(j)
  BY DEF ServiceInv, ServiceTypes, StateNames
<1>2. /\ UNCHANGED <<closed, submit, canceller, timer, published, shutdown>>
      /\ UNCHANGED <<state, healthy, queue, cancelled, running>>
      /\ task[j] = "spawn" /\ task' = [task EXCEPT ![j] = "select"]
      /\ work' = [work EXCEPT ![j] = "busy"]
  BY DEF SpawnWorker, Goes, registryVars, requestVars, queueVars, tokenVars
<1>3. TaskMoves(j, "select")
  <2>1. healthy' => healthy
    BY <1>2, Zenon
  <2> QED BY <1>1, <1>2, <2>1 DEF TaskMoves, TaskStepNames, Live
<1>4. /\ task'[j] = "select" /\ work'[j] = "busy" /\ state'[j] \in {"running", "cancelling"}
      /\ submit'[j] = "end" /\ j \notin queue' /\ j \in running' /\ j \notin published'
  BY <1>1, <1>2 DEF JobInv, Working, Reachable, Unstarted
<1>5. JobInv(j)'
  BY <1>4 DEF JobInv, Reachable, Unstarted
<1>6. shutdown # "ok"
  BY <1>2, BusyNotOk DEF AtRest
<1> QED BY <1>3, <1>5, <1>6, TaskInv

\* The registry calls before there is a worker.
LEMMA EarlyCalls ==
  ASSUME ServiceInv, NEW j \in Jobs, NEW io \in Outcomes,
         Overdue(j, io) \/ WaitFailure(j, io) \/ Start(j, io)
  PROVE  ServiceInv'
<1>1. JobInv(j) /\ task[j] \in {"overdue", "wait_cancelled", "wait_deadline", "start"}
  BY DEF ServiceInv, Overdue, WaitFailure, Start
<1>2. shutdown # "ok" /\ state[j] # "none" /\ task[j] \in Unstarted \ {"none", "spawned", "spawn"}
  BY <1>1, BusyNotOk DEF AtRest, JobInv, Unstarted
<1>3. CASE WaitFailure(j, io) /\ Ended(j)
  <2>1. /\ Goes(j, "exit") /\ UNCHANGED <<state, healthy, faults, recorded>>
        /\ UNCHANGED <<closed, requestVars, queueVars, tokenVars, workVars, shutdown>>
    BY <1>3 DEF WaitFailure, NoCommit
  <2>2. TaskMoves(j, "exit") /\ work' = work /\ running' = running /\ state' = state
    BY <2>1, SilentMoves DEF TaskStepNames, registryVars, queueVars, tokenVars
  <2>3. JobInv(j)'
    BY <1>2, <2>2, EarlyJob
  <2> QED BY <1>2, <2>2, <2>3, TaskInv
<1>4. CASE ~(WaitFailure(j, io) /\ Ended(j))
  <2>1. PICK allowed \in BOOLEAN, to \in {"failed", "cancelled", "running"}, next \in {"exit", "spawn"} :
           /\ TaskCall(j, allowed, to, io, next)
           /\ allowed /\ to = "running" => state[j] = "queued"
           /\ next = "spawn" => to = "running"
    <3>1. CASE Overdue(j, io)
      <4>1. TaskCall(j, ~Ended(j), "failed", io, "exit") /\ (~Ended(j)) \in BOOLEAN
        BY <3>1 DEF Overdue
      <4> QED BY <4>1
    <3>2. CASE WaitFailure(j, io)
      <4> DEFINE to == IF task[j] = "wait_cancelled" THEN "cancelled" ELSE "failed"
      <4>1. TaskCall(j, TRUE, to, io, "exit") /\ to \in {"failed", "cancelled"}
        BY <3>2, <1>4 DEF WaitFailure
      <4> QED BY <4>1
    <3>3. CASE Start(j, io)
      <4>1. TaskCall(j, state[j] = "queued", "running", io, "spawn") /\ (state[j] = "queued") \in BOOLEAN
        BY <3>3 DEF Start
      <4> QED BY <4>1
    <3> QED BY <3>1, <3>2, <3>3
  <2>2. to \in StateNames /\ next \in TaskStepNames
    BY DEF StateNames, Terminal, TaskStepNames
  <2>3. /\ allowed /\ to \in {"queued", "running"} => state[j] \in {"queued", "running"}
        /\ allowed /\ to \in {"queued", "running", "cancelling"} => Live(j)
    BY <2>1 DEF Live
  <2>4. PICK n \in {next, "internal", "conflict"} :
            /\ TaskMoves(j, n) /\ UNCHANGED <<work, running, cancelled, queue>>
            /\ state'[j] = state[j] \/ (allowed /\ state'[j] = to)
            /\ n = next => n \in {"internal", "conflict"} \/ state'[j] = to
            /\ n = "internal" => n = next \/ ~healthy'
    BY <2>1, <2>2, <2>3, TaskCallEffect
  <2>5. /\ state'[j] # "none"
        /\ n \in (Unstarted \ {"none", "spawned"}) \cup {"exit", "internal", "conflict"}
        /\ n = "spawn" => state'[j] \in {"running", "cancelling"}
    BY <1>2, <2>1, <2>4 DEF Unstarted
  <2>6. JobInv(j)'
    BY <1>2, <2>4, <2>5, EarlyJob
  <2> QED BY <1>2, <2>4, <2>6, TaskInv
<1> QED BY <1>3, <1>4

\* The steps from the select on that leave the registry alone.
LEMMA LateSteps ==
  ASSUME ServiceInv, NEW j \in Jobs,
         SelectDeadline(j) \/ DeadlineNotice(j) \/ JoinWorker(j) \/ TaskNotice(j)
  PROVE  ServiceInv'
<1>1. JobInv(j)
  BY DEF ServiceInv
<1>2. /\ UNCHANGED <<registryVars, requestVars, running, workVars, shutdown>>
      /\ queue' \subseteq queue /\ cancelled \subseteq cancelled'
  BY NoticeEffect DEF SelectDeadline, DeadlineNotice, JoinWorker, TaskNotice, queueVars, tokenVars
<1>3. PICK next \in {"late", "await", "ok", "error", "cancelled", "exit"} :
         /\ Goes(j, next)
         /\ \/ task[j] = "select" /\ next = "late" /\ j \in cancelled'
            \/ task[j] = "late_internal" /\ next = "await"
            \/ /\ task[j] \in {"select", "await"} /\ next \in {"ok", "error", "cancelled"}
               /\ work[j] # "busy" /\ (next = "cancelled" => work[j] = "cancelled")
            \/ task[j] \in {"internal", "conflict"} /\ next = "exit"
  <2>1. CASE SelectDeadline(j) \/ DeadlineNotice(j) \/ TaskNotice(j)
    BY <2>1 DEF SelectDeadline, DeadlineNotice, TaskNotice
  <2>2. CASE JoinWorker(j)
    <3> DEFINE next == IF work[j] = "cancelled" /\ task[j] = "await" THEN "error" ELSE work[j]
    <3>1. /\ Goes(j, next) /\ task[j] \in {"select", "await"}
          /\ work[j] \in {"ok", "cancelled", "error"}
      BY <2>2 DEF JoinWorker
    <3>2. next \in {"ok", "error", "cancelled"} /\ (next = "cancelled" => work[j] = "cancelled")
      BY <3>1
    <3> HIDE DEF next
    <3> QED BY <3>1, <3>2
  <2> QED BY <2>1, <2>2
<1>4. next \in TaskStepNames
  BY DEF TaskStepNames
<1>5. TaskMoves(j, next) /\ work' = work /\ running' = running /\ state' = state
  BY <1>2, <1>3, <1>4, SilentMoves
<1>6. JobInv(j)'
  <2>1. /\ task[j] \in (Working \ {"spawn"}) \cup {"internal", "conflict"}
        /\ next \in (Working \ {"spawn"}) \cup {"exit", "internal", "conflict"}
        /\ next \in Working => task[j] \in Working
    BY <1>3 DEF Working, Reachable
  <2>2. next \in Working => state'[j] \in {"running", "cancelling"}
    BY <1>1, <1>5, <2>1 DEF JobInv
  <2>3. work[j] = "busy" => next \in Reachable
    BY <1>1, <1>3 DEF JobInv, Reachable
  <2>4. next \in {"late", "late_internal", "await"} => j \in cancelled'
    BY <1>1, <1>2, <1>3 DEF JobInv
  <2>5. /\ state'[j] # "none"
        /\ j \in published => state'[j] \in {"running", "cancelling", "completed", "failed"}
    BY <1>1, <1>3, <1>5 DEF JobInv
  <2>6. next = "cancelled" => work[j] = "cancelled"
    BY <1>3
  <2> QED BY <1>5, <2>1, <2>2, <2>3, <2>4, <2>5, <2>6, LateJob
<1>7. shutdown = "ok" => next \in AtRest
  <2>1. shutdown # "ok"
    BY <1>3, BusyNotOk DEF AtRest
  <2> QED BY <2>1
<1> QED BY <1>5, <1>6, <1>7, TaskInv

\* request_cancel of the deadline, after the token was cancelled.
LEMMA DeadlineCancelInv ==
  ASSUME ServiceInv, NEW j \in Jobs, NEW io \in Outcomes, DeadlineCancel(j, io)
  PROVE  ServiceInv'
<1>1. /\ state \in [Jobs -> StateNames] /\ healthy \in BOOLEAN /\ running \subseteq Jobs
      /\ work \in [Jobs -> {"none", "busy", "ok", "cancelled", "error"}] /\ JobInv(j)
  BY DEF ServiceInv, ServiceTypes, StateNames
<1>2. /\ task[j] = "late" /\ Update(j, TRUE, CancelTo(j), io)
      /\ UNCHANGED <<closed, submit, canceller, timer, published, shutdown>>
      /\ UNCHANGED <<work, running, queue, cancelled>>
  BY DEF DeadlineCancel, requestVars, queueVars, tokenVars, workVars
<1>3. /\ healthy' \in BOOLEAN
      /\ healthy' => healthy
      /\ state' = state \/ state' = [state EXCEPT ![j] = CancelTo(j)]
  BY <1>1, <1>2, UpdateEffect, Zenon
<1>4. state[j] \in {"running", "cancelling"} /\ j \in cancelled
  BY <1>1, <1>2 DEF JobInv, Working, Reachable
<1>5. CancelTo(j) = "cancelling"
  BY <1>4 DEF CancelTo
<1>6. /\ state' \in [Jobs -> StateNames] /\ state'[j] \in {"running", "cancelling"}
      /\ \A k \in Jobs : k # j => state'[k] = state[k]
      /\ state'[j] = "running" => state[j] = "running"
  BY <1>1, <1>3, <1>4, <1>5 DEF StateNames
<1>7. PICK next \in {"await", "late_internal"} : task' = [task EXCEPT ![j] = next]
  BY DEF DeadlineCancel, Goes
<1>8. TaskMoves(j, next)
  <2>1. /\ state'[j] \in {"queued", "running"} => state[j] \in {"queued", "running"}
        /\ Live(j) /\ next \in TaskStepNames
    BY <1>4, <1>6 DEF Live, TaskStepNames
  <2> QED BY <1>1, <1>2, <1>3, <1>6, <1>7, <2>1 DEF TaskMoves
<1>9. JobInv(j)'
  <2>1. /\ task[j] \in (Working \ {"spawn"}) \cup {"internal", "conflict"}
        /\ next \in (Working \ {"spawn"}) \cup {"exit", "internal", "conflict"}
        /\ next \in Reachable /\ next # "cancelled"
    BY <1>2 DEF Working, Reachable
  <2>2. j \in cancelled'
    BY <1>2, <1>4
  <2> QED BY <1>2, <1>6, <1>8, <2>1, <2>2, LateJob
<1>10. shutdown # "ok"
  BY <1>2, BusyNotOk DEF AtRest
<1> QED BY <1>8, <1>9, <1>10, TaskInv

\* A verified record that is refused leaves the job to `fail`.
LEMMA UnrecordedInv ==
  ASSUME ServiceInv, NEW j \in Jobs, NEW io \in Outcomes, task[j] = "ok",
         NoCommit(io), Goes(j, IF healthy THEN "unrecorded" ELSE "internal"),
         UNCHANGED <<closed, recorded, requestVars, queueVars, tokenVars, workVars, shutdown>>
  PROVE  ServiceInv'
<1>1. PICK next \in {"unrecorded", "internal"} : Goes(j, next)
  OBVIOUS
<1>2. JobInv(j) /\ next \in TaskStepNames
  BY DEF ServiceInv, TaskStepNames
<1>3. TaskMoves(j, next) /\ work' = work /\ running' = running /\ state' = state
  BY <1>1, <1>2, SilentMoves DEF NoCommit, registryVars, queueVars, tokenVars
<1>4. JobInv(j)'
  <2>1. /\ task[j] \in (Working \ {"spawn"}) \cup {"internal", "conflict"}
        /\ next \in (Working \ {"spawn"}) \cup {"exit", "internal", "conflict"}
        /\ next \notin {"cancelled", "late", "late_internal", "await"}
    BY DEF Working, Reachable
  <2>2. state'[j] \in {"running", "cancelling"} /\ work[j] # "busy"
    BY <1>2, <1>3 DEF JobInv, Working, Reachable
  <2> QED BY <1>3, <2>1, <2>2, LateJob
<1>5. shutdown # "ok"
  BY BusyNotOk DEF AtRest
<1> QED BY <1>3, <1>4, <1>5, TaskInv

\* The registry calls that end a job with a worker's result: only a worker that was
\* stopped before it published ends its job as cancelled.
LEMMA LateCalls ==
  ASSUME ServiceInv, NEW j \in Jobs, NEW io \in Outcomes,
         \/ \E verified \in BOOLEAN : RecordPublication(j, verified, io)
         \/ Complete(j, io) \/ FailJob(j, io) \/ EndCancelled(j, io)
  PROVE  ServiceInv'
<1>1. JobInv(j)
  BY DEF ServiceInv
<1>2. CASE RecordPublication(j, FALSE, io)
  BY <1>2, UnrecordedInv DEF RecordPublication
<1>3. CASE ~RecordPublication(j, FALSE, io)
  <2>1. PICK allowed \in BOOLEAN, to \in {state[j], "completed", "failed", "cancelled"},
             next \in {"recorded", "exit"} :
           /\ TaskCall(j, allowed, to, io, next)
           /\ task[j] \in {"ok", "recorded", "error", "unrecorded", "cancelled"}
           /\ to = "cancelled" => to = state[j] \/ task[j] = "cancelled"
           /\ next = "recorded" => to = state[j]
    <3>1. CASE RecordPublication(j, TRUE, io)
      <4>1. /\ TaskCall(j, state[j] \in {"running", "cancelling"}, state[j], io, "recorded")
            /\ (state[j] \in {"running", "cancelling"}) \in BOOLEAN /\ task[j] = "ok"
        BY <3>1 DEF RecordPublication
      <4> QED BY <4>1
    <3>2. CASE Complete(j, io)
      <4> DEFINE allowed == Live(j) /\ (j \in Packs => j \in recorded)
      <4>1. /\ TaskCall(j, allowed, "completed", io, "exit")
            /\ allowed \in BOOLEAN /\ task[j] \in {"ok", "recorded"}
        BY <3>2 DEF Complete, CompleteTo
      <4> HIDE DEF allowed
      <4> QED BY <4>1
    <3>3. CASE FailJob(j, io)
      <4>1. TaskCall(j, ~Ended(j), "failed", io, "exit") /\ (~Ended(j)) \in BOOLEAN
            /\ task[j] \in {"error", "unrecorded"}
        BY <3>3 DEF FailJob
      <4> QED BY <4>1
    <3>4. CASE EndCancelled(j, io)
      <4>1. TaskCall(j, ~Ended(j), "cancelled", io, "exit") /\ (~Ended(j)) \in BOOLEAN
            /\ task[j] = "cancelled"
        BY <3>4 DEF EndCancelled
      <4> QED BY <4>1
    <3> QED BY <1>3, <3>1, <3>2, <3>3, <3>4
  <2>2. state[j] \in {"running", "cancelling"} /\ work[j] # "busy"
    BY <1>1, <2>1 DEF JobInv, Working, Reachable
  <2>3. to \in StateNames /\ next \in TaskStepNames
    BY <2>2 DEF StateNames, Terminal, TaskStepNames
  <2>4. /\ allowed /\ to \in {"queued", "running"} => state[j] \in {"queued", "running"}
        /\ allowed /\ to \in {"queued", "running", "cancelling"} => Live(j)
    BY <2>2 DEF Live
  <2>5. PICK n \in {next, "internal", "conflict"} :
            /\ TaskMoves(j, n) /\ UNCHANGED <<work, running, cancelled, queue>>
            /\ state'[j] = state[j] \/ (allowed /\ state'[j] = to)
            /\ n = next => n \in {"internal", "conflict"} \/ state'[j] = to
            /\ n = "internal" => n = next \/ ~healthy'
    BY <2>1, <2>3, <2>4, TaskCallEffect
  <2>6. /\ task[j] \in (Working \ {"spawn"}) \cup {"internal", "conflict"}
        /\ n \in (Working \ {"spawn"}) \cup {"exit", "internal", "conflict"}
        /\ n \notin {"cancelled", "late", "late_internal", "await"}
    BY <2>1, <2>5 DEF Working, Reachable
  <2>7. n \in Working => state'[j] \in {"running", "cancelling"}
    BY <2>1, <2>2, <2>5 DEF Working, Reachable
  <2>8. j \in published => state'[j] \in {"running", "cancelling", "completed", "failed"}
    <3>1. j \in published => task[j] # "cancelled"
      BY <1>1 DEF JobInv
    <3> QED BY <2>1, <2>2, <2>5, <3>1
  <2>9. state'[j] # "none"
    BY <2>1, <2>2, <2>5
  <2>10. JobInv(j)'
    BY <2>2, <2>5, <2>6, <2>7, <2>8, <2>9, LateJob
  <2>11. shutdown # "ok"
    BY <2>1, BusyNotOk DEF AtRest
  <2> QED BY <2>5, <2>10, <2>11, TaskInv
<1> QED BY <1>2, <1>3

-----------------------------------------------------------------------------
(* The invariant, and what it says.                                        *)

LEMMA InitServiceInv == Init => ServiceInv
<1> SUFFICES ASSUME Init PROVE ServiceInv
  OBVIOUS
<1>1. ServiceTypes
  BY DEF Init, ServiceTypes, SubmitStepNames, CancelStepNames, TaskStepNames
<1>2. \A j \in Jobs : JobInv(j)
  BY DEF Init, JobInv, Working, Reachable
<1>3. CloseInv
  BY DEF Init, CloseInv, NoneStarts
<1> QED BY <1>1, <1>2, <1>3 DEF ServiceInv

LEMMA ServiceNext ==
  ASSUME ServiceInv, [Next]_vars
  PROVE  ServiceInv'
<1>1. CASE \E io \in Outcomes : Calls(io)
  <2> PICK io \in Outcomes : Calls(io)
    BY <1>1
  <2>1. CASE CloserRuns(io) \/ ShutdownCloses(io)
    BY <2>1, ClosingSteps
  <2>2. CASE \E j \in Jobs :
              \/ SubmitCall(j, io) \/ CancelCall(j, io) \/ TimerCall(j, io)
              \/ Overdue(j, io) \/ WaitFailure(j, io) \/ Start(j, io) \/ DeadlineCancel(j, io)
              \/ \E verified \in BOOLEAN : RecordPublication(j, verified, io)
              \/ Complete(j, io) \/ FailJob(j, io) \/ EndCancelled(j, io)
    BY <2>2, SubmitCallInv, CancelCallInv, TimerCallInv, EarlyCalls, DeadlineCancelInv, LateCalls
  <2> QED BY <2>1, <2>2 DEF Calls
<1>2. CASE \/ FrameOnUnhealthy \/ OpenSessionFails \/ DrainerStops \/ DrainerWaits \/ DrainerAcquires \/ DrainerFindsNone
           \/ UNCHANGED vars
  BY <1>2, QuietGlobalSteps
<1>3. CASE \E j \in Jobs :
        \/ SubmitReceived(j) \/ SubmitNotice(j) \/ SubmitChecks(j) \/ Schedule(j)
        \/ CancelReceived(j) \/ CancelReaches(j) \/ CancelNotice(j)
        \/ Expire(j) \/ TimerReaches(j) \/ TimerNotice(j)
        \/ DrainerPops(j)
        \/ InsertToken(j) \/ Snapshot(j) \/ WaitThreads(j) \/ WaitMemory(j)
        \/ StartInspectFails(j) \/ SpawnWorker(j)
        \/ SelectDeadline(j) \/ DeadlineNotice(j) \/ JoinWorker(j)
        \/ TaskNotice(j) \/ Exit(j)
        \/ WorkerPublishes(j)
        \/ \E result \in {"ok", "cancelled", "error"} : WorkerEnds(j, result)
  BY <1>3, QuietSteps, ScheduleInv, PopInv, TokenSteps, WaitSteps, SpawnInv, LateSteps, WorkerInv
<1>4. CASE AbortConnections \/ ShutdownStops \/ ShutdownDrains \/ ShutdownCancels \/ ShutdownReturns
  BY <1>4, AbortInv, ShutdownInv
<1> QED BY <1>1, <1>2, <1>3, <1>4 DEF Next

\* The invariant of jobs, tokens and shutdown, for any number of failed commits and
\* whether or not output paths can be inspected.
THEOREM ServiceInvariant == Spec => []ServiceInv
<1>1. ServiceInv /\ [Next]_vars => ServiceInv'
  BY ServiceNext
<1> QED BY <1>1, InitServiceInv, PTL DEF Spec

\* A job whose worker published its archive is never reported cancelled, whatever a
\* cancellation, a deadline, a shutdown or a failed commit does meanwhile.
THEOREM PublicationWins == Spec => []PublishedNotCancelled
<1>1. ServiceInv => PublishedNotCancelled
  BY DEF ServiceInv, ServiceTypes, JobInv, PublishedNotCancelled
<1> QED BY <1>1, ServiceInvariant, PTL

\* Once shutdown returned Ok nothing is queued, every job has ended, and no task is or
\* gets past the snapshot.
THEOREM ShutdownIsFinal == Spec => []ShutdownLeavesNothing
<1>1. ServiceInv => ShutdownLeavesNothing
  <2> SUFFICES ASSUME ServiceInv, shutdown = "ok", NEW j \in Jobs
               PROVE  /\ queue = {} /\ ~Live(j) /\ work[j] # "busy"
                      /\ task[j] \in {"none", "spawned", "snapshot", "exit", "done"}
    BY DEF ShutdownLeavesNothing, ServiceInv, CloseInv
  <2>1. queue = {} /\ ~Live(j) /\ task[j] \in {"none", "spawned", "snapshot", "exit", "done"}
    BY DEF ServiceInv, CloseInv
  <2>2. work[j] # "busy"
    BY <2>1 DEF ServiceInv, JobInv, Reachable
  <2> QED BY <2>1, <2>2
<1> QED BY <1>1, ServiceInvariant, PTL

-----------------------------------------------------------------------------
(* A recorded cancellation reaches the worker.                             *)

\* The job is stored, and settled, for good.
Onward(k) == (state[k] # "none" => state'[k] # "none") /\ (Settled(k) => Settled(k)')

\* A step that unsettles no job, answers no cancel request without its token, starts only
\* a queued job, and loses no pursuit of a token.
TokenKept ==
    /\ shutdown' \in ShutdownNames
    /\ closer' # "off" => degraded'
    /\ shutdown' = "failed" => shutdown = "failed" \/ ~healthy'
    /\ healthy' => healthy
    /\ cancelled \subseteq cancelled'
    /\ \A k \in Jobs :
          /\ Onward(k)
          /\ canceller'[k] \in {"call", "orphan"} => canceller[k] \in {"call", "orphan"} \/ state'[k] # "none"
          /\ \/ canceller'[k] = canceller[k]
             \/ canceller'[k] \notin {"token", "answered"}
             \/ canceller'[k] = "token" /\ Settled(k)'
             \/ /\ canceller'[k] = "answered" /\ canceller[k] = "token"
                /\ task'[k] \in Reachable => k \in cancelled'
          /\ task'[k] \in Reachable =>
                \/ task[k] \in Reachable
                \/ ~Settled(k) /\ state'[k] # "cancelling" /\ canceller'[k] = canceller[k]
          /\ task[k] \in Reachable /\ state'[k] = "cancelling" => state[k] = "cancelling" \/ Pursued(k)'
          /\ task[k] \in Reachable /\ Pursued(k) => Pursued(k)'

LEMMA KeptToken ==
  ASSUME TokenInv, TokenKept
  PROVE  TokenInv'
<1>1. shutdown' \in ShutdownNames /\ (closer' # "off" => degraded') /\ (shutdown' = "failed" => ~healthy')
  BY Zenon DEF TokenInv, TokenKept
<1>2. ASSUME NEW j \in Jobs
      PROVE  /\ canceller'[j] \in {"call", "orphan"} => state'[j] # "none"
             /\ canceller'[j] \in {"token", "answered"} => Settled(j)'
             /\ canceller'[j] = "answered" /\ task'[j] \in Reachable => j \in cancelled'
             /\ state'[j] = "cancelling" /\ task'[j] \in Reachable => Pursued(j)'
  <2>1. /\ canceller[j] \in {"token", "answered"} => Settled(j)
        /\ canceller[j] = "answered" /\ task[j] \in Reachable => j \in cancelled
        /\ state[j] = "cancelling" /\ task[j] \in Reachable => Pursued(j)
    BY Zenon DEF TokenInv
  <2>2. /\ Settled(j) => Settled(j)'
        /\ \/ canceller'[j] = canceller[j]
           \/ canceller'[j] \notin {"token", "answered"}
           \/ canceller'[j] = "token" /\ Settled(j)'
           \/ /\ canceller'[j] = "answered" /\ canceller[j] = "token"
              /\ task'[j] \in Reachable => j \in cancelled'
        /\ task'[j] \in Reachable =>
              \/ task[j] \in Reachable
              \/ ~Settled(j) /\ state'[j] # "cancelling" /\ canceller'[j] = canceller[j]
        /\ task[j] \in Reachable /\ state'[j] = "cancelling" => state[j] = "cancelling" \/ Pursued(j)'
        /\ task[j] \in Reachable /\ Pursued(j) => Pursued(j)'
        /\ cancelled \subseteq cancelled'
    BY Zenon DEF TokenKept, Onward
  <2>6. canceller'[j] \in {"call", "orphan"} => state'[j] # "none"
    BY Zenon DEF TokenInv, TokenKept, Onward
  <2> HIDE DEF Settled, Pursued, Reachable
  <2>3. canceller'[j] \in {"token", "answered"} => Settled(j)'
    BY <2>1, <2>2
  <2>4. canceller'[j] = "answered" /\ task'[j] \in Reachable => j \in cancelled'
    BY <2>1, <2>2
  <2>5. state'[j] = "cancelling" /\ task'[j] \in Reachable => Pursued(j)'
    BY <2>1, <2>2
  <2> QED BY <2>3, <2>4, <2>5, <2>6
<1> QED BY <1>1, <1>2 DEF TokenInv

\* mark_storage_degraded cancels every token a worker can have by now.
LEMMA DegradedToken ==
  ASSUME ServiceInv, TokenInv, MarkDegraded, shutdown' \in ShutdownNames, healthy' => healthy,
         shutdown' = "failed" => shutdown = "failed" \/ ~healthy',
         \A k \in Jobs : /\ task'[k] \in Reachable => task[k] \in Reachable
                         /\ canceller'[k] = canceller[k] \/ canceller'[k] = "end"
                         /\ Onward(k)
  PROVE  TokenInv'
<1>1. degraded' = TRUE /\ cancelled' = cancelled \cup running
  BY DEF MarkDegraded
<1>2. \A k \in Jobs : task[k] \in Reachable => k \in cancelled'
  BY <1>1 DEF ServiceInv, JobInv, Reachable
<1>3. \A k \in Jobs : k \in cancelled' => Pursued(k)'
  BY DEF Pursued
<1>4. TokenKept
  BY <1>1, <1>2, <1>3 DEF TokenKept
<1> QED BY <1>4, KeptToken

\* A caller that notices an error of update_owned: an Internal one degrades the daemon.
LEMMA NoticeToken ==
  ASSUME ServiceInv, TokenInv, NEW reply, Notice(reply), UNCHANGED <<state, healthy, shutdown>>,
         \A k \in Jobs :
            /\ task'[k] \in Reachable => task[k] \in Reachable
            /\ canceller'[k] = canceller[k] \/ canceller'[k] = "end"
            /\ canceller'[k] = canceller[k] \/ canceller[k] = "conflict" \/ reply = "internal"
            /\ timer'[k] = timer[k] \/ reply = "internal"
  PROVE  TokenInv'
<1>1. healthy \in BOOLEAN /\ shutdown' \in ShutdownNames /\ (closer # "off" => degraded)
  BY DEF ServiceInv, ServiceTypes, TokenInv
<1>2. /\ healthy' => healthy
      /\ \A k \in Jobs : Onward(k)
      /\ shutdown' = "failed" => shutdown = "failed" \/ ~healthy'
  BY <1>1, Zenon DEF Settled, Onward
<1>3. CASE reply = "internal" \/ ~healthy
  <2>1. MarkDegraded
    BY <1>3, Zenon DEF Notice
  <2> QED BY <1>1, <1>2, <2>1, DegradedToken
<1>4. CASE reply # "internal" /\ healthy
  <2>1. UNCHANGED <<stopVars, queue, cancelled>>
    BY <1>4, Zenon DEF Notice
  <2>2. degraded' = degraded /\ closer' = closer /\ cancelled' = cancelled
    BY <2>1 DEF stopVars
  <2>3. \A k \in Jobs : Pursued(k) => Pursued(k)'
    BY <1>4, <2>2 DEF Pursued
  <2>4. TokenKept
    BY <1>1, <1>2, <1>4, <2>2, <2>3 DEF TokenKept
  <2> QED BY <2>4, KeptToken
<1> QED BY <1>1, <1>3, <1>4

\* Every caller that notices an error of update_owned.
LEMMA NoticeSteps ==
  ASSUME ServiceInv, TokenInv, NEW j \in Jobs,
         SubmitNotice(j) \/ CancelNotice(j) \/ TimerNotice(j) \/ DeadlineNotice(j) \/ TaskNotice(j)
  PROVE  TokenInv'
<1>1. /\ canceller \in [Jobs -> CancelStepNames]
      /\ timer \in [Jobs -> {"off", "armed", "token", "internal"}] /\ task \in [Jobs -> TaskStepNames]
  BY DEF ServiceInv, ServiceTypes
<1>2. UNCHANGED <<state, healthy, shutdown>>
  BY DEF SubmitNotice, CancelNotice, TimerNotice, DeadlineNotice, TaskNotice, registryVars
<1>3. CASE SubmitNotice(j)
  <2>1. Notice(submit[j]) /\ UNCHANGED <<canceller, timer, task>>
    BY <1>3 DEF SubmitNotice, taskVars
  <2> QED BY <1>2, <2>1, NoticeToken
<1>4. CASE CancelNotice(j)
  <2>1. /\ Notice(canceller[j]) /\ canceller' = [canceller EXCEPT ![j] = "end"]
        /\ UNCHANGED <<timer, task>> /\ canceller[j] \in {"internal", "conflict"}
    BY <1>4 DEF CancelNotice, taskVars
  <2>2. \A k \in Jobs :
          /\ canceller'[k] = canceller[k] \/ canceller'[k] = "end"
          /\ canceller'[k] = canceller[k] \/ canceller[k] = "conflict" \/ canceller[j] = "internal"
    BY <1>1, <2>1
  <2> QED BY <1>2, <2>1, <2>2, NoticeToken
<1>5. CASE TimerNotice(j)
  <2>1. Notice("internal") /\ UNCHANGED <<canceller, task>>
    BY <1>5 DEF TimerNotice, taskVars
  <2> QED BY <1>2, <2>1, NoticeToken
<1>6. CASE DeadlineNotice(j) \/ TaskNotice(j)
  <2>1. PICK reply \in {"internal", "conflict"}, n \in {"await", "exit"} :
           /\ Notice(reply) /\ task' = [task EXCEPT ![j] = n]
           /\ n = "await" => task[j] = "late_internal"
    BY <1>6 DEF DeadlineNotice, TaskNotice, Goes
  <2>2. UNCHANGED <<canceller, timer>>
    BY <1>6 DEF DeadlineNotice, TaskNotice, requestVars
  <2>3. \A k \in Jobs : task'[k] \in Reachable => task[k] \in Reachable
    BY <1>1, <2>1 DEF Reachable
  <2> QED BY <1>2, <2>1, <2>2, <2>3, NoticeToken
<1> QED BY <1>3, <1>4, <1>5, <1>6

\* Steps that neither change the registry nor degrade the daemon.
LEMMA SilentToken ==
  ASSUME TokenInv,
         UNCHANGED <<state, healthy, degraded, closer, shutdown>>, cancelled \subseteq cancelled',
         \A k \in Jobs :
            /\ \/ canceller'[k] = canceller[k]
               \/ canceller[k] = "idle" /\ canceller'[k] = "call" /\ state[k] # "none"
               \/ /\ canceller'[k] = "answered" /\ canceller[k] = "token"
                  /\ task[k] \in Reachable => k \in cancelled'
            /\ \/ timer'[k] = timer[k]
               \/ timer[k] \notin {"token", "internal"}
               \/ task[k] \in Reachable => k \in cancelled'
            /\ task'[k] \in Reachable => task[k] \in Reachable
  PROVE  TokenInv'
<1>1. healthy' => healthy
  BY Zenon
<1>2. /\ shutdown' \in ShutdownNames /\ (closer' # "off" => degraded')
      /\ shutdown' = "failed" => shutdown = "failed"
  BY DEF TokenInv
<1>3. \A k \in Jobs : task[k] \in Reachable /\ Pursued(k) => Pursued(k)'
  BY DEF Pursued
<1>4. \A k \in Jobs : Onward(k)
  BY DEF Settled, Onward
<1>5. TokenKept
  BY <1>1, <1>2, <1>3, <1>4 DEF TokenKept
<1> QED BY <1>5, KeptToken

\* Requests, timers and workers that do not call the registry.
LEMMA SilentRequests ==
  ASSUME ServiceInv, TokenInv, NEW j \in Jobs,
         \/ SubmitReceived(j) \/ SubmitChecks(j) \/ Schedule(j)
         \/ CancelReceived(j) \/ CancelReaches(j)
         \/ Expire(j) \/ TimerReaches(j)
         \/ WorkerPublishes(j)
         \/ \E result \in {"ok", "cancelled", "error"} : WorkerEnds(j, result)
  PROVE  TokenInv'
<1>1. /\ submit \in [Jobs -> SubmitStepNames] /\ canceller \in [Jobs -> CancelStepNames]
      /\ timer \in [Jobs -> {"off", "armed", "token", "internal"}]
      /\ healthy \in BOOLEAN
  BY DEF ServiceInv, ServiceTypes
<1>2. JobInv(j)
  BY DEF ServiceInv
<1>3. UNCHANGED <<state, healthy, degraded, closer, shutdown, task>>
  BY DEF SubmitReceived, SubmitChecks, Schedule, CancelReceived, CancelReaches, Expire, TimerReaches,
     WorkerPublishes, WorkerEnds, registryVars, taskVars, stopVars
<1>4. CASE SubmitReceived(j) \/ SubmitChecks(j) \/ Schedule(j)
  <2>1. UNCHANGED <<canceller, cancelled>>
    BY <1>4 DEF SubmitReceived, SubmitChecks, Schedule, tokenVars
  <2>2. \A k \in Jobs : timer'[k] = timer[k] \/ (task[k] \in Reachable => k \in cancelled')
    <3>1. CASE Schedule(j)
      <4>1. /\ submit[j] = "schedule"
            /\ timer' = timer \/ timer' = [timer EXCEPT ![j] = "armed"]
        BY <3>1 DEF Schedule
      <4>2. task[j] \notin Reachable
        BY <1>2, <4>1 DEF JobInv, Reachable
      <4> QED BY <1>1, <4>1, <4>2
    <3>2. CASE SubmitReceived(j) \/ SubmitChecks(j)
      BY <3>2 DEF SubmitReceived, SubmitChecks
    <3> QED BY <1>4, <3>1, <3>2
  <2> QED BY <1>3, <2>1, <2>2, SilentToken
<1>5. CASE CancelReceived(j)
  <2>1. /\ UNCHANGED <<timer, cancelled>>
        /\ canceller[j] = "idle" /\ canceller' = [canceller EXCEPT ![j] = "call"] /\ state[j] # "none"
    BY <1>5 DEF CancelReceived, tokenVars
  <2>2. \A k \in Jobs :
          \/ canceller'[k] = canceller[k]
          \/ canceller[k] = "idle" /\ canceller'[k] = "call" /\ state[k] # "none"
    BY <1>1, <2>1
  <2> QED BY <1>3, <2>1, <2>2, SilentToken
<1>6. CASE CancelReaches(j) \/ TimerReaches(j)
  <2>1. /\ cancelled \subseteq cancelled'
        /\ j \in running => j \in cancelled'
        /\ \/ canceller' = canceller
           \/ canceller[j] = "token" /\ canceller' = [canceller EXCEPT ![j] = "answered"]
        /\ timer' = timer \/ timer' = [timer EXCEPT ![j] = "off"]
    BY <1>6 DEF CancelReaches, TimerReaches, CancelToken
  <2>2. task[j] \in Reachable => j \in cancelled'
    BY <1>2, <2>1 DEF JobInv, Reachable
  <2>3. \A k \in Jobs :
          /\ \/ canceller'[k] = canceller[k]
             \/ /\ canceller'[k] = "answered" /\ canceller[k] = "token"
                /\ task[k] \in Reachable => k \in cancelled'
          /\ timer'[k] = timer[k] \/ (task[k] \in Reachable => k \in cancelled')
    BY <1>1, <2>1, <2>2
  <2> QED BY <1>3, <2>1, <2>3, SilentToken
<1>7. CASE \/ Expire(j) \/ WorkerPublishes(j)
           \/ \E result \in {"ok", "cancelled", "error"} : WorkerEnds(j, result)
  <2>1. UNCHANGED <<canceller, timer, cancelled>>
    BY <1>7 DEF Expire, WorkerPublishes, WorkerEnds, requestVars, tokenVars
  <2> QED BY <1>3, <2>1, SilentToken
<1> QED BY <1>4, <1>5, <1>6, <1>7

\* Steps of a job's task that do not call the registry.
LEMMA SilentTasks ==
  ASSUME ServiceInv, TokenInv, NEW j \in Jobs,
         \/ DrainerPops(j) \/ InsertToken(j) \/ Snapshot(j) \/ WaitThreads(j) \/ WaitMemory(j)
         \/ StartInspectFails(j) \/ SpawnWorker(j)
         \/ SelectDeadline(j) \/ JoinWorker(j) \/ Exit(j)
  PROVE  TokenInv'
<1>1. /\ task \in [Jobs -> TaskStepNames]
      /\ work \in [Jobs -> {"none", "busy", "ok", "cancelled", "error"}]
  BY DEF ServiceInv, ServiceTypes
<1>3. /\ UNCHANGED <<state, healthy, degraded, closer, shutdown, canceller, timer>>
      /\ cancelled \subseteq cancelled'
  BY DEF DrainerPops, InsertToken, Snapshot, WaitThreads, WaitMemory, Wait, StartInspectFails,
     SpawnWorker, SelectDeadline, JoinWorker, Exit, registryVars, requestVars, stopVars, tokenVars
<1>4. PICK next : /\ task' = [task EXCEPT ![j] = next]
                  /\ next \in Reachable => task[j] \in Reachable
  <2>1. CASE DrainerPops(j) \/ InsertToken(j)
    <3>1. \E next \in {"spawned", "snapshot"} : task' = [task EXCEPT ![j] = next]
      BY <2>1 DEF DrainerPops, InsertToken, Goes
    <3> QED BY <3>1 DEF Reachable
  <2>2. CASE Snapshot(j)
    <3>1. \E next \in {"exit", "overdue", "threads"} : task' = [task EXCEPT ![j] = next]
      BY <2>2 DEF Snapshot, SnapshotStep, Goes
    <3> QED BY <3>1 DEF Reachable
  <2>3. CASE WaitThreads(j) \/ WaitMemory(j) \/ StartInspectFails(j)
    <3>1. \E next \in {"wait_cancelled", "wait_deadline", "memory", "start", "internal"} :
              task' = [task EXCEPT ![j] = next]
      BY <2>3 DEF WaitThreads, WaitMemory, Wait, StartInspectFails, Goes
    <3> QED BY <3>1 DEF Reachable
  <2>4. CASE SpawnWorker(j) \/ SelectDeadline(j)
    <3>1. /\ task[j] \in Reachable
          /\ \E next \in {"select", "late"} : task' = [task EXCEPT ![j] = next]
      BY <2>4 DEF SpawnWorker, SelectDeadline, Goes, Reachable
    <3> QED BY <3>1
  <2>5. CASE JoinWorker(j) \/ Exit(j)
    <3>1. \E next \in {"ok", "cancelled", "error", "done"} : task' = [task EXCEPT ![j] = next]
      BY <2>5 DEF JoinWorker, Exit, Goes
    <3> QED BY <3>1 DEF Reachable
  <2> QED BY <2>1, <2>2, <2>3, <2>4, <2>5
<1>5. \A k \in Jobs : task'[k] \in Reachable => task[k] \in Reachable
  BY <1>1, <1>4
<1> QED BY <1>3, <1>5, SilentToken

\* What the caller of update_owned gets: Internal only from a registry that is, or
\* becomes, unhealthy.
LEMMA ReplyEffect ==
  ASSUME NEW j \in Jobs, NEW allowed \in BOOLEAN, NEW to, NEW io \in Outcomes,
         healthy \in BOOLEAN, Update(j, allowed, to, io)
  PROVE  /\ Reply(allowed, io) \in {"ok", "internal", "conflict"}
         /\ Reply(allowed, io) = "ok" => /\ healthy /\ allowed /\ io = "ok"
                                         /\ state' = [state EXCEPT ![j] = to]
         /\ Reply(allowed, io) = "internal" => ~healthy'
         /\ Reply(allowed, io) = "conflict" => healthy /\ ~allowed /\ state' = state
<1>1. /\ healthy' \in BOOLEAN
      /\ healthy' => healthy
      /\ state' = state \/ state' = [state EXCEPT ![j] = to]
      /\ state' # state => healthy /\ allowed
      /\ io # "ok" => ~healthy'
      /\ io = "ok" => healthy' = healthy
      /\ healthy /\ allowed /\ io = "ok" => state' = [state EXCEPT ![j] = to]
  BY UpdateEffect, Zenon
<1>2. /\ Reply(allowed, io) \in {"ok", "internal", "conflict"}
      /\ Reply(allowed, io) = "ok" => healthy /\ allowed /\ io = "ok"
      /\ Reply(allowed, io) = "internal" => ~healthy \/ io # "ok"
      /\ Reply(allowed, io) = "conflict" => healthy /\ ~allowed
  BY DEF Reply
<1> QED BY <1>1, <1>2

\* A registry call of a job's task: it starts only a queued job, and records a
\* cancellation of its own only once the token is cancelled.
LEMMA CallToken ==
  ASSUME ServiceInv, TokenInv, NEW j \in Jobs, NEW allowed \in BOOLEAN, NEW to, NEW io \in Outcomes,
         NEW n, Update(j, allowed, to, io), task' = [task EXCEPT ![j] = n],
         UNCHANGED <<degraded, closer, shutdown, cancelled, canceller, timer>>,
         n \in Reachable => task[j] \in Reachable \/ (~Settled(j) /\ state'[j] # "cancelling"),
         to # "none", allowed => ~Settled(j) \/ to \notin {"queued", "running"},
         task[j] \in Reachable /\ to = "cancelling" => state[j] = "cancelling" \/ j \in cancelled
  PROVE  TokenInv'
<1>1. state \in [Jobs -> StateNames] /\ task \in [Jobs -> TaskStepNames] /\ healthy \in BOOLEAN
  BY DEF ServiceInv, ServiceTypes, StateNames
<1>2. /\ healthy' \in BOOLEAN
      /\ healthy' => healthy
      /\ state' = state \/ state' = [state EXCEPT ![j] = to]
      /\ state' # state => healthy /\ allowed
  BY <1>1, UpdateEffect, Zenon
<1>3. \A k \in Jobs : task'[k] \in Reachable => task[k] \in Reachable \/ (~Settled(k) /\ state'[k] # "cancelling")
  BY <1>1
<1>4. \A k \in Jobs : Pursued(k) => Pursued(k)'
  BY DEF Pursued
<1>5. \A k \in Jobs : task[k] \in Reachable /\ state'[k] = "cancelling" =>
                         state[k] = "cancelling" \/ Pursued(k)'
  <2>1. j \in cancelled => Pursued(j)'
    BY DEF Pursued
  <2> QED BY <1>1, <1>2, <2>1
<1>6. \A k \in Jobs : Onward(k)
  BY <1>1, <1>2 DEF Settled, Onward
<1>7. /\ shutdown' \in ShutdownNames /\ (closer' # "off" => degraded')
      /\ shutdown' = "failed" => shutdown = "failed"
  BY DEF TokenInv
<1>8. TokenKept
  BY <1>2, <1>3, <1>4, <1>5, <1>6, <1>7 DEF TokenKept
<1> QED BY <1>8, KeptToken

LEMMA TaskCallToken ==
  ASSUME ServiceInv, TokenInv, NEW j \in Jobs, NEW allowed \in BOOLEAN, NEW to \in StateNames,
         NEW io \in Outcomes, NEW next, TaskCall(j, allowed, to, io, next),
         task[j] \notin Reachable,
         next \in Reachable => to # "cancelling" /\ (allowed => ~Settled(j)),
         to # "none", allowed => ~Settled(j) \/ to \notin {"queued", "running"}
  PROVE  TokenInv'
<1> DEFINE n == IF Reply(allowed, io) = "ok" THEN next ELSE Reply(allowed, io)
<1>1. /\ Update(j, allowed, to, io) /\ task' = [task EXCEPT ![j] = n]
      /\ UNCHANGED <<degraded, closer, shutdown, cancelled, canceller, timer>>
  BY DEF TaskCall, Goes, requestVars, tokenVars, stopVars
<1>2. healthy \in BOOLEAN /\ state \in [Jobs -> StateNames]
  BY DEF ServiceInv, ServiceTypes, StateNames
<1>3. /\ Reply(allowed, io) \in {"ok", "internal", "conflict"}
      /\ Reply(allowed, io) = "ok" => /\ healthy /\ allowed /\ io = "ok"
                                      /\ state' = [state EXCEPT ![j] = to]
      /\ Reply(allowed, io) = "internal" => ~healthy'
      /\ Reply(allowed, io) = "conflict" => healthy /\ ~allowed /\ state' = state
  BY <1>1, <1>2, ReplyEffect, Zenon
<1>4. n \in Reachable => ~Settled(j) /\ state'[j] # "cancelling"
  BY <1>2, <1>3 DEF Reachable
<1> HIDE DEF n
<1> QED BY <1>1, <1>4, CallToken

LEMMA TaskCallsToken ==
  ASSUME ServiceInv, TokenInv, NEW j \in Jobs, NEW io \in Outcomes,
         \/ Overdue(j, io) \/ WaitFailure(j, io) \/ Start(j, io) \/ DeadlineCancel(j, io)
         \/ \E verified \in BOOLEAN : RecordPublication(j, verified, io)
         \/ Complete(j, io) \/ FailJob(j, io) \/ EndCancelled(j, io)
  PROVE  TokenInv'
<1>1. /\ state[j] \in StateNames /\ {"failed", "cancelled", "completed", "running"} \subseteq StateNames
      /\ "exit" \notin Reachable /\ "recorded" \notin Reachable
  BY DEF ServiceInv, ServiceTypes, StateNames, Terminal, Reachable
<1>2. CASE Overdue(j, io)
  <2> DEFINE allowed == ~Ended(j)
  <2>1. TaskCall(j, allowed, "failed", io, "exit") /\ allowed \in BOOLEAN /\ task[j] \notin Reachable
    BY <1>2 DEF Overdue, Reachable
  <2> HIDE DEF allowed
  <2> QED BY <1>1, <2>1, TaskCallToken
<1>3. CASE WaitFailure(j, io) /\ Ended(j)
  <2>1. /\ Goes(j, "exit") /\ UNCHANGED <<state, healthy, degraded, closer, shutdown>>
        /\ UNCHANGED <<canceller, timer, cancelled>>
    BY <1>3 DEF WaitFailure, NoCommit, requestVars, tokenVars, stopVars
  <2>2. \A k \in Jobs : task'[k] \in Reachable => task[k] \in Reachable
    BY <2>1 DEF Goes, Reachable, ServiceInv, ServiceTypes
  <2> QED BY <2>1, <2>2, SilentToken
<1>4. CASE WaitFailure(j, io) /\ ~Ended(j)
  <2> DEFINE to == IF task[j] = "wait_cancelled" THEN "cancelled" ELSE "failed"
  <2> DEFINE allowed == TRUE
  <2>1. /\ TaskCall(j, allowed, to, io, "exit") /\ allowed \in BOOLEAN
        /\ to \in {"cancelled", "failed"} /\ task[j] \notin Reachable
    BY <1>1, <1>4 DEF WaitFailure, Reachable
  <2> HIDE DEF to, allowed
  <2> QED BY <1>1, <2>1, TaskCallToken
<1>5. CASE Start(j, io)
  <2> DEFINE allowed == state[j] = "queued"
  <2>1. /\ TaskCall(j, allowed, "running", io, "spawn") /\ allowed \in BOOLEAN
        /\ task[j] \notin Reachable /\ (allowed => ~Settled(j))
    BY <1>5 DEF Start, Reachable, Settled, Onward
  <2> HIDE DEF allowed
  <2> QED BY <1>1, <2>1, TaskCallToken
<1>6. CASE DeadlineCancel(j, io)
  <2> DEFINE n == IF Reply(TRUE, io) = "ok" THEN "await" ELSE "late_internal"
  <2>1. /\ task[j] = "late" /\ Update(j, TRUE, CancelTo(j), io) /\ task' = [task EXCEPT ![j] = n]
        /\ UNCHANGED <<degraded, closer, shutdown, cancelled, canceller, timer>>
    BY <1>6 DEF DeadlineCancel, Goes, requestVars, tokenVars, stopVars
  <2>2. j \in cancelled /\ task[j] \in Reachable
    BY <2>1 DEF ServiceInv, JobInv, Reachable
  <2>3. state[j] \in {"running", "cancelling"}
    BY <2>1 DEF ServiceInv, JobInv, Working, Reachable
  <2>4. CancelTo(j) = "cancelling"
    BY <2>3 DEF CancelTo
  <2> HIDE DEF n
  <2> QED BY <2>1, <2>2, <2>4, CallToken
<1>7. CASE RecordPublication(j, TRUE, io)
  <2> DEFINE allowed == state[j] \in {"running", "cancelling"}
  <2>1. /\ TaskCall(j, allowed, state[j], io, "recorded")
        /\ allowed \in BOOLEAN /\ task[j] \notin Reachable
        /\ state[j] # "none" /\ (allowed => ~Settled(j) \/ state[j] \notin {"queued", "running"})
    BY <1>7 DEF RecordPublication, Reachable, Settled, ServiceInv, JobInv
  <2> HIDE DEF allowed
  <2> QED BY <1>1, <2>1, TaskCallToken
<1>8. CASE RecordPublication(j, FALSE, io)
  <2>1. /\ task' = [task EXCEPT ![j] = IF healthy THEN "unrecorded" ELSE "internal"]
        /\ UNCHANGED <<state, healthy, degraded, closer, shutdown>>
        /\ UNCHANGED <<canceller, timer, cancelled>>
    BY <1>8 DEF RecordPublication, NoCommit, Goes, requestVars, tokenVars, stopVars
  <2>2. task \in [Jobs -> TaskStepNames] /\ healthy \in BOOLEAN
    BY DEF ServiceInv, ServiceTypes
  <2>3. \A k \in Jobs : task'[k] \in Reachable => task[k] \in Reachable
    BY <2>1, <2>2 DEF Reachable
  <2> QED BY <2>1, <2>3, SilentToken
<1>9. CASE Complete(j, io)
  <2> DEFINE allowed == Live(j) /\ (j \in Packs => j \in recorded)
  <2>1. /\ TaskCall(j, allowed, "completed", io, "exit") /\ allowed \in BOOLEAN
        /\ task[j] \notin Reachable
    BY <1>9 DEF Complete, CompleteTo, Reachable
  <2> HIDE DEF allowed
  <2> QED BY <1>1, <2>1, TaskCallToken
<1>10. CASE FailJob(j, io)
  <2> DEFINE allowed == ~Ended(j)
  <2>1. TaskCall(j, allowed, "failed", io, "exit") /\ allowed \in BOOLEAN /\ task[j] \notin Reachable
    BY <1>10 DEF FailJob, Reachable
  <2> HIDE DEF allowed
  <2> QED BY <1>1, <2>1, TaskCallToken
<1>11. CASE EndCancelled(j, io)
  <2> DEFINE allowed == ~Ended(j)
  <2>1. /\ TaskCall(j, allowed, "cancelled", io, "exit") /\ allowed \in BOOLEAN
        /\ task[j] \notin Reachable
    BY <1>11 DEF EndCancelled, Reachable
  <2> HIDE DEF allowed
  <2> QED BY <1>1, <2>1, TaskCallToken
<1> QED BY <1>2, <1>3, <1>4, <1>5, <1>6, <1>7, <1>8, <1>9, <1>10, <1>11

\* submit_with_limit: a job that is being submitted has no worker.
LEMMA SubmitCallToken ==
  ASSUME ServiceInv, TokenInv, NEW j \in Jobs, NEW io \in Outcomes, SubmitCall(j, io)
  PROVE  TokenInv'
<1> DEFINE allowed == ~closed
<1>1. /\ healthy \in BOOLEAN /\ closed \in BOOLEAN /\ state \in [Jobs -> StateNames] /\ JobInv(j)
  BY DEF ServiceInv, ServiceTypes, StateNames
<1>2. /\ Update(j, allowed, "queued", io) /\ allowed \in BOOLEAN /\ submit[j] \in {"received", "orphan"}
      /\ UNCHANGED <<canceller, timer, task, cancelled, degraded, closer, shutdown>>
  BY <1>1 DEF SubmitCall, taskVars, tokenVars, stopVars
<1>3. /\ healthy' \in BOOLEAN
      /\ healthy' => healthy
      /\ state' = state \/ state' = [state EXCEPT ![j] = "queued"]
  BY <1>1, <1>2, UpdateEffect, Zenon
<1>4. state[j] = "none"
  BY <1>1, <1>2 DEF JobInv
<1>5. \A k \in Jobs : /\ state'[k] = "cancelling" => state[k] = "cancelling"
                      /\ Onward(k)
  BY <1>1, <1>3, <1>4 DEF Settled, Onward
<1>6. \A k \in Jobs : Pursued(k) => Pursued(k)'
  BY <1>2 DEF Pursued
<1>7. /\ shutdown' \in ShutdownNames /\ (closer' # "off" => degraded')
      /\ shutdown' = "failed" => shutdown = "failed"
  BY <1>2 DEF TokenInv
<1>8. TokenKept
  BY <1>2, <1>3, <1>5, <1>6, <1>7 DEF TokenKept
<1> QED BY <1>8, KeptToken

\* request_cancel for a client: the request that records the cancellation goes on to the
\* token, or dies with its connection, and then the shutdown cancels every token.
LEMMA CancelCallToken ==
  ASSUME ServiceInv, TokenInv, NEW j \in Jobs, NEW io \in Outcomes, CancelCall(j, io)
  PROVE  TokenInv'
<1> DEFINE allowed == state[j] \notin {"completed", "failed"}
<1>1. /\ canceller \in [Jobs -> CancelStepNames] /\ healthy \in BOOLEAN
      /\ state \in [Jobs -> StateNames]
  BY DEF ServiceInv, ServiceTypes, StateNames
<1>2. /\ Update(j, allowed, CancelTo(j), io) /\ allowed \in BOOLEAN
      /\ canceller[j] \in {"call", "orphan"}
      /\ UNCHANGED <<timer, task, cancelled, degraded, closer, shutdown>>
  BY <1>1 DEF CancelCall, taskVars, tokenVars, stopVars
<1>3. canceller' = [canceller EXCEPT ![j] =
                IF @ = "orphan" THEN "end"
                ELSE IF Reply(allowed, io) = "ok" THEN "token" ELSE Reply(allowed, io)]
  BY DEF CancelCall
<1>4. state[j] = "cancelling" => allowed
  OBVIOUS
<1>5. /\ CancelTo(j) = "cancelling" => state[j] \in {"running", "cancelling"}
      /\ state[j] # "none" => CancelTo(j) \notin {"none", "queued", "running"}
  BY DEF CancelTo
<1> HIDE DEF allowed
<1>6. /\ Reply(allowed, io) \in {"ok", "internal", "conflict"}
      /\ Reply(allowed, io) = "ok" => /\ healthy /\ allowed /\ io = "ok"
                                      /\ state' = [state EXCEPT ![j] = CancelTo(j)]
      /\ Reply(allowed, io) = "internal" => ~healthy'
      /\ Reply(allowed, io) = "conflict" => healthy /\ ~allowed /\ state' = state
  BY <1>1, <1>2, ReplyEffect, Zenon
<1>7. /\ healthy' \in BOOLEAN
      /\ healthy' => healthy
      /\ state' = state \/ state' = [state EXCEPT ![j] = CancelTo(j)]
      /\ state' # state => healthy /\ allowed
      /\ io # "ok" => ~healthy'
      /\ io = "ok" => healthy' = healthy
      /\ healthy /\ allowed /\ io = "ok" => state' = [state EXCEPT ![j] = CancelTo(j)]
  BY <1>1, <1>2, UpdateEffect, Zenon
<1>8. /\ \A k \in Jobs : Onward(k)
      /\ \A k \in Jobs : \/ canceller'[k] = canceller[k]
                         \/ canceller'[k] \notin {"token", "answered"}
                         \/ canceller'[k] = "token" /\ Settled(k)'
      /\ \A k \in Jobs : canceller'[k] \in {"call", "orphan"} => canceller[k] \in {"call", "orphan"}
  <2>1. state[j] # "none"
    BY <1>2 DEF TokenInv
  <2>2. \A k \in Jobs : Onward(k)
    BY <1>1, <1>5, <1>7, <2>1 DEF Settled, Onward
  <2>3. canceller'[j] \in {"token", "answered"} => canceller'[j] = "token" /\ Settled(j)'
    BY <1>1, <1>2, <1>3, <1>5, <1>6, <2>1 DEF Settled, Onward
  <2>4. canceller'[j] \notin {"call", "orphan"}
    BY <1>1, <1>2, <1>3, <1>6
  <2>5. \A k \in Jobs : k # j => canceller'[k] = canceller[k]
    BY <1>1, <1>3
  <2> QED BY <2>2, <2>3, <2>4, <2>5
<1>9. \A k \in Jobs : k # j => state'[k] = state[k] /\ (Pursued(k) => Pursued(k)')
  BY <1>1, <1>2, <1>3, <1>7 DEF Pursued
<1>10. Pursued(j) => Pursued(j)'
  BY <1>2 DEF Pursued
<1>11. state'[j] = "cancelling" => state[j] = "cancelling" \/ Pursued(j)'
  <2> SUFFICES ASSUME state'[j] = "cancelling", state[j] # "cancelling" PROVE Pursued(j)'
    OBVIOUS
  <2>1. state' # state /\ healthy /\ allowed /\ state[j] = "running"
    BY <1>1, <1>5, <1>7
  <2>2. CASE canceller[j] = "orphan"
    <3>1. shutdown # "none"
      BY <2>2 DEF ServiceInv, CloseInv
    <3>2. shutdown \notin {"closed", "waiting", "ok", "timeout"}
      BY <2>1 DEF ServiceInv, CloseInv, NoneStarts
    <3>3. shutdown # "failed"
      BY <2>1, Zenon DEF TokenInv
    <3>4. shutdown \in ShutdownNames
      BY DEF TokenInv
    <3> QED BY <1>2, <3>1, <3>2, <3>3, <3>4 DEF Pursued, ShutdownNames
  <2>3. CASE canceller[j] = "call"
    <3>1. canceller'[j] \in {"token", "internal"}
      BY <1>1, <1>3, <1>6, <2>1, <2>3
    <3> QED BY <3>1 DEF Pursued
  <2> QED BY <1>2, <2>2, <2>3
<1>12. /\ shutdown' \in ShutdownNames /\ (closer' # "off" => degraded')
       /\ shutdown' = "failed" => shutdown = "failed"
  BY <1>2 DEF TokenInv
<1>13. TokenKept
  BY <1>2, <1>7, <1>8, <1>9, <1>10, <1>11, <1>12 DEF TokenKept
<1> QED BY <1>13, KeptToken

\* expire_deadline: the timer that records the expiry goes on to the token.
LEMMA TimerCallToken ==
  ASSUME ServiceInv, TokenInv, NEW j \in Jobs, NEW io \in Outcomes, TimerCall(j, io)
  PROVE  TokenInv'
<1> DEFINE allowed == state[j] \in {"queued", "running"}
<1>1. /\ timer \in [Jobs -> {"off", "armed", "token", "internal"}] /\ healthy \in BOOLEAN
      /\ state \in [Jobs -> StateNames]
  BY DEF ServiceInv, ServiceTypes, StateNames
<1>2. /\ Update(j, allowed, ExpireTo(j), io) /\ allowed \in BOOLEAN
      /\ timer[j] = "armed"
      /\ UNCHANGED <<canceller, task, cancelled, degraded, closer, shutdown>>
  BY <1>1 DEF TimerCall, taskVars, tokenVars, stopVars
<1>3. timer' = [timer EXCEPT ![j] =
            IF ~healthy' THEN "internal"
            ELSE IF state[j] \in {"running", "cancelling"} THEN "token" ELSE "off"]
  BY DEF TimerCall
<1>4. /\ ExpireTo(j) = "cancelling" => state[j] \in {"running", "cancelling"}
      /\ Settled(j) => ExpireTo(j) = state[j]
      /\ state[j] # "none" => ExpireTo(j) # "none"
  BY DEF ExpireTo, Settled, Onward
<1> HIDE DEF allowed
<1>5. /\ healthy' \in BOOLEAN
      /\ healthy' => healthy
      /\ state' = state \/ state' = [state EXCEPT ![j] = ExpireTo(j)]
  BY <1>1, <1>2, UpdateEffect, Zenon
<1>6. /\ \A k \in Jobs : Onward(k)
      /\ shutdown' \in ShutdownNames /\ (closer' # "off" => degraded')
      /\ shutdown' = "failed" => shutdown = "failed"
  <2>1. \A k \in Jobs : Onward(k)
    BY <1>1, <1>4, <1>5 DEF Settled, Onward
  <2> QED BY <1>2, <2>1 DEF TokenInv
<1>7. \A k \in Jobs : k # j => state'[k] = state[k] /\ (Pursued(k) => Pursued(k)')
  BY <1>1, <1>2, <1>3, <1>5 DEF Pursued
<1>8. Pursued(j) => Pursued(j)'
  BY <1>2 DEF Pursued
<1>9. state'[j] = "cancelling" => state[j] = "cancelling" \/ Pursued(j)'
  <2> SUFFICES ASSUME state'[j] = "cancelling", state[j] # "cancelling" PROVE Pursued(j)'
    OBVIOUS
  <2>1. state[j] = "running"
    BY <1>1, <1>4, <1>5
  <2>2. timer'[j] \in {"token", "internal"}
    BY <1>1, <1>3, <2>1
  <2> QED BY <2>2 DEF Pursued
<1>10. TokenKept
  BY <1>2, <1>5, <1>6, <1>7, <1>8, <1>9 DEF TokenKept
<1> QED BY <1>10, KeptToken

\* close_and_cancel_all: after the one that was spawned the daemon has failed closed; the
\* shutdown's goes on to cancel the tokens, or degrades the daemon.
LEMMA CloseToken ==
  ASSUME ServiceInv, TokenInv, NEW io \in Outcomes, CloserRuns(io) \/ ShutdownCloses(io)
  PROVE  TokenInv'
<1>1. /\ state \in [Jobs -> {"none", "queued", "running", "cancelling"} \cup Terminal]
      /\ healthy \in BOOLEAN /\ closed \in BOOLEAN /\ (closer # "off" => degraded)
      /\ shutdown \in ShutdownNames
  BY DEF ServiceInv, ServiceTypes, TokenInv
<1>2. CloseAndCancelAll(io) /\ UNCHANGED <<canceller, timer, task>>
  BY DEF CloserRuns, ShutdownCloses, requestVars, taskVars
<1>3. (healthy' => healthy) /\ (io # "ok" => ~healthy')
  BY <1>1, <1>2, CloseEffect
<1>4. \A k \in Jobs : Onward(k)
  BY <1>1, <1>2, CloseEffect DEF Settled, Onward
<1>5. CASE CloserRuns(io)
  <2>1. closer = "spawned" /\ closer' = "done" /\ UNCHANGED <<degraded, shutdown, cancelled>>
    BY <1>5 DEF CloserRuns, tokenVars
  <2>2. \A k \in Jobs : Pursued(k)'
    BY <2>1 DEF Pursued
  <2>3. TokenKept
    BY <1>1, <1>2, <1>3, <1>4, <2>1, <2>2 DEF TokenKept
  <2> QED BY <2>3, KeptToken
<1>6. CASE ShutdownCloses(io) /\ io = "ok"
  <2>1. shutdown' = "closed" /\ UNCHANGED <<degraded, closer, cancelled>>
    BY <1>6 DEF ShutdownCloses, stopVars
  <2>2. \A k \in Jobs : Pursued(k)'
    BY <2>1 DEF Pursued
  <2>3. TokenKept
    BY <1>1, <1>2, <1>3, <1>4, <2>1, <2>2 DEF TokenKept, ShutdownNames
  <2> QED BY <2>3, KeptToken
<1>7. CASE ShutdownCloses(io) /\ io # "ok"
  <2>1. shutdown' \in ShutdownNames /\ MarkDegraded
    BY <1>7 DEF ShutdownCloses, ShutdownNames
  <2> QED BY <1>2, <1>3, <1>4, <1>7, <2>1, DegradedToken
<1> QED BY <1>5, <1>6, <1>7

\* The steps of the shutdown: the tokens are cancelled before it stops pursuing them.
LEMMA ShutdownToken ==
  ASSUME ServiceInv, TokenInv,
         AbortConnections \/ ShutdownStops \/ ShutdownDrains \/ ShutdownCancels \/ ShutdownReturns
  PROVE  TokenInv'
<1>1. /\ UNCHANGED <<state, healthy, degraded, closer, timer, task>> /\ cancelled \subseteq cancelled'
  BY DEF AbortConnections, ShutdownStops, ShutdownDrains, ShutdownCancels, ShutdownReturns,
     registryVars, requestVars, taskVars, tokenVars, stopVars
<1>2. healthy' => healthy
  BY <1>1, Zenon
<1>3. shutdown' \in ShutdownNames \ {"failed"}
  BY DEF AbortConnections, ShutdownStops, ShutdownDrains, ShutdownCancels, ShutdownReturns, ShutdownNames
<1>4. \A k \in Jobs : /\ canceller'[k] = canceller[k] \/ canceller'[k] \notin {"token", "answered"}
                      /\ canceller'[k] \in {"call", "orphan"} => canceller[k] \in {"call", "orphan"}
  <2>1. CASE AbortConnections
    BY <2>1 DEF AbortConnections, TokenInv
  <2>2. CASE ~AbortConnections
    BY <2>2 DEF ShutdownStops, ShutdownDrains, ShutdownCancels, ShutdownReturns, requestVars
  <2> QED BY <2>1, <2>2
<1>5. \A k \in Jobs : task[k] \in Reachable /\ Pursued(k) => Pursued(k)'
  <2>1. CASE AbortConnections \/ ShutdownStops \/ ShutdownDrains
    BY <2>1 DEF AbortConnections, ShutdownStops, ShutdownDrains, Pursued
  <2>2. CASE ShutdownCancels
    <3>1. cancelled' = cancelled \cup running
      BY <2>2 DEF ShutdownCancels
    <3>2. \A k \in Jobs : task[k] \in Reachable => k \in cancelled'
      BY <3>1 DEF ServiceInv, JobInv, Reachable
    <3> QED BY <3>2 DEF Pursued
  <2>3. CASE ShutdownReturns
    <3>1. shutdown = "waiting" /\ canceller' = canceller
      BY <2>3 DEF ShutdownReturns, requestVars
    <3> QED BY <1>1, <3>1 DEF Pursued
  <2> QED BY <2>1, <2>2, <2>3
<1>6. (closer' # "off" => degraded') /\ \A k \in Jobs : Onward(k)
  BY <1>1 DEF TokenInv, Settled, Onward
<1>7. TokenKept
  BY <1>1, <1>2, <1>3, <1>4, <1>5, <1>6 DEF TokenKept
<1> QED BY <1>7, KeptToken

LEMMA QuietToken ==
  ASSUME ServiceInv, TokenInv,
         \/ FrameOnUnhealthy \/ OpenSessionFails \/ DrainerStops \/ DrainerWaits \/ DrainerAcquires \/ DrainerFindsNone
         \/ UNCHANGED vars
  PROVE  TokenInv'
<1>1. CASE FrameOnUnhealthy \/ OpenSessionFails
  <2>1. MarkDegraded /\ UNCHANGED <<state, healthy, shutdown, task, canceller>>
    BY <1>1 DEF FrameOnUnhealthy, OpenSessionFails, registryVars, requestVars, taskVars
  <2>2. (healthy' => healthy) /\ shutdown' \in ShutdownNames /\ \A k \in Jobs : Onward(k)
    BY <2>1, Zenon DEF TokenInv, Settled, Onward
  <2> QED BY <2>1, <2>2, DegradedToken
<1>2. CASE ~FrameOnUnhealthy /\ ~OpenSessionFails
  <2>1. /\ UNCHANGED <<state, healthy, degraded, closer, shutdown>>
        /\ UNCHANGED <<canceller, timer, task, cancelled>>
    BY <1>2 DEF DrainerStops, DrainerWaits, DrainerAcquires, DrainerFindsNone, vars, registryVars,
       requestVars, taskVars, tokenVars, stopVars
  <2> QED BY <2>1, SilentToken
<1> QED BY <1>1, <1>2

LEMMA TokenNext ==
  ASSUME ServiceInv, TokenInv, [Next]_vars
  PROVE  TokenInv'
<1>1. CASE \E io \in Outcomes : Calls(io)
  <2> PICK io \in Outcomes : Calls(io)
    BY <1>1
  <2>1. CASE CloserRuns(io) \/ ShutdownCloses(io)
    BY <2>1, CloseToken
  <2>2. CASE \E j \in Jobs :
              \/ SubmitCall(j, io) \/ CancelCall(j, io) \/ TimerCall(j, io)
              \/ Overdue(j, io) \/ WaitFailure(j, io) \/ Start(j, io) \/ DeadlineCancel(j, io)
              \/ \E verified \in BOOLEAN : RecordPublication(j, verified, io)
              \/ Complete(j, io) \/ FailJob(j, io) \/ EndCancelled(j, io)
    BY <2>2, SubmitCallToken, CancelCallToken, TimerCallToken, TaskCallsToken
  <2> QED BY <2>1, <2>2 DEF Calls
<1>2. CASE \/ FrameOnUnhealthy \/ OpenSessionFails \/ DrainerStops \/ DrainerWaits \/ DrainerAcquires \/ DrainerFindsNone
           \/ UNCHANGED vars
  BY <1>2, QuietToken
<1>3. CASE \E j \in Jobs :
        \/ SubmitReceived(j) \/ SubmitNotice(j) \/ SubmitChecks(j) \/ Schedule(j)
        \/ CancelReceived(j) \/ CancelReaches(j) \/ CancelNotice(j)
        \/ Expire(j) \/ TimerReaches(j) \/ TimerNotice(j)
        \/ DrainerPops(j)
        \/ InsertToken(j) \/ Snapshot(j) \/ WaitThreads(j) \/ WaitMemory(j)
        \/ StartInspectFails(j) \/ SpawnWorker(j)
        \/ SelectDeadline(j) \/ DeadlineNotice(j) \/ JoinWorker(j)
        \/ TaskNotice(j) \/ Exit(j)
        \/ WorkerPublishes(j)
        \/ \E result \in {"ok", "cancelled", "error"} : WorkerEnds(j, result)
  BY <1>3, NoticeSteps, SilentRequests, SilentTasks
<1>4. CASE AbortConnections \/ ShutdownStops \/ ShutdownDrains \/ ShutdownCancels \/ ShutdownReturns
  BY <1>4, ShutdownToken
<1> QED BY <1>1, <1>2, <1>3, <1>4 DEF Next

\* For any number of jobs and failing commits, a worker whose client was told that the
\* job is being cancelled has a cancelled token, and a cancellation the registry recorded
\* is with the token or with the request, timer or shutdown that still has to look it up,
\* unless the daemon has failed closed.
THEOREM CancellationArrives == Spec => []CancelReachesWorker
<1>1. Init => TokenInv
  BY DEF Init, TokenInv, ShutdownNames, Reachable
<1>2. ServiceInv /\ TokenInv /\ [Next]_vars => TokenInv'
  BY TokenNext
<1>3. ServiceInv /\ TokenInv => CancelReachesWorker
  BY DEF ServiceInv, JobInv, TokenInv, Pursued, CancelReachesWorker
<1> QED BY <1>1, <1>2, <1>3, ServiceInvariant, PTL DEF Spec
=============================================================================
