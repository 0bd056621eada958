--------------------------- MODULE TaskScheduler ---------------------------
(***************************************************************************)
(* execute_scheduled of crates/pithos-engine/src/scheduler.rs: the engine  *)
(* runs a graph of codec tasks on a pool of workers, under a memory        *)
(* budget, until every task has left its result in a spool.                *)
(*                                                                         *)
(* The graph and the tasks' memory are chosen initially, so one run covers *)
(* every graph on Tasks, cyclic ones included.  validate_dag is modelled   *)
(* step by step; the queue it takes from may be in any order.  A task's    *)
(* number stands for its place in the (rank, task_id) order                *)
(* next_ready_task prefers: every graph on the numbers is covered, so      *)
(* every combination of priorities and ids is.  Reserving and returning    *)
(* memory cannot overflow (TypeOK), so checked_sub and checked_add never   *)
(* fail; ResourceEstimate::total's own overflow is left out.               *)
(***************************************************************************)
EXTENDS Integers, Sequences, FiniteSets, FiniteSetsExt

CONSTANTS
    NumTasks,   \* task ids are 1 .. NumTasks
    Sizes,      \* what a task's ResourceEstimate may add up to
    Budget,     \* memory_budget
    Workers     \* workers

Tasks == 1 .. NumTasks

ASSUME TaskSchedulerAssumption ==
    /\ NumTasks \in Nat \ {0} /\ Budget \in Nat \ {0} /\ Workers \in Nat \ {0}
    /\ Sizes \subseteq Nat

VARIABLES
    deps,       \* dependencies of each task
    memory,     \* ResourceEstimate::total of each task
    phase,      \* where the call is, or what it returned
    indegree, ready, visited,   \* validate_dag
    pending,    \* tasks not yet dispatched
    work,       \* each dispatched task on the pool
    channel,    \* results sent and not yet received
    available,  \* available_memory
    running,
    done,       \* completed: ids in the order they were received
    dispatched, \* whether this iteration dispatched a task
    cancelled   \* the caller's token

graphVars == <<deps, memory>>
dagVars == <<indegree, ready, visited>>
loopVars == <<pending, available, running, done, dispatched>>
vars == <<graphVars, phase, dagVars, loopVars, work, channel, cancelled>>

Returned == {"ok", "failed", "cancelled", "cycle_found", "over_budget", "stuck"}

\* queue_capacity
Capacity == IF 2 * Workers > 4 THEN 2 * Workers ELSE 4

Init ==
    /\ deps \in [Tasks -> SUBSET Tasks]
    /\ memory \in [Tasks -> Sizes]
    /\ phase = "validate"
    /\ indegree = [t \in Tasks |-> Cardinality(deps[t])]
    /\ ready = {t \in Tasks : deps[t] = {}}
    /\ visited = 0
    /\ pending = Tasks
    /\ work = [t \in Tasks |-> "none"]
    /\ channel = <<>>
    /\ available = Budget
    /\ running = 0
    /\ done = <<>>
    /\ dispatched = FALSE
    /\ cancelled = FALSE

Goes(p) == phase' = p

-----------------------------------------------------------------------------
(* validate_dag, and the checks before the loop.                           *)

\* Mutant: a task is visited as soon as one of its dependencies is.
ReadiedByAny(t, left) == {c \in Tasks : t \in deps[c]}

\* The children of t that have no dependency left.
Readied(t, left) == {c \in Tasks : t \in deps[c] /\ left[c] = 0}

Visit(t) ==
    LET left == [c \in Tasks |-> IF t \in deps[c] THEN indegree[c] - 1 ELSE indegree[c]]
    IN  /\ phase = "validate"
        /\ t \in ready
        /\ indegree' = left
        /\ ready' = (ready \ {t}) \cup Readied(t, left)
        /\ visited' = visited + 1
        /\ UNCHANGED <<graphVars, phase, loopVars, work, channel, cancelled>>

Validated ==
    /\ phase = "validate"
    /\ ready = {}
    /\ Goes(IF visited # NumTasks THEN "cycle_found"
            ELSE IF cancelled THEN "cancelled"
            ELSE IF \E t \in Tasks : memory[t] > Budget THEN "over_budget"
            ELSE "dispatch")
    /\ UNCHANGED <<graphVars, dagVars, loopVars, work, channel, cancelled>>

-----------------------------------------------------------------------------
(* The loop: dispatch what is ready, then receive one result.              *)
Completed == {done[i] : i \in 1 .. Len(done)}

\* A pending task that may run now.
Fits(t) == memory[t] <= available /\ deps[t] \subseteq Completed

ReadyTasks == {t \in pending : Fits(t)}

\* next_ready_task takes the smallest (rank, task_id).
Dispatch ==
    /\ phase = "dispatch"
    /\ running < Workers /\ ~cancelled
    /\ ReadyTasks # {}
    /\ LET t == Min(ReadyTasks)
       IN  /\ pending' = pending \ {t}
           /\ available' = available - memory[t]
           /\ work' = [work EXCEPT ![t] = "spawned"]
    /\ running' = running + 1
    /\ dispatched' = TRUE
    /\ UNCHANGED <<graphVars, phase, dagVars, done, channel, cancelled>>

\* Mutant: waits for a result only when no worker is free.
MustReceiveFull == running >= Workers

MustReceive == ~dispatched \/ running >= Workers

\* The inner loop ends; it looks at the token again when nothing runs.
LeaveDispatch ==
    /\ phase = "dispatch"
    /\ running >= Workers \/ cancelled \/ ReadyTasks = {}
    /\ Goes(IF running = 0 THEN (IF cancelled THEN "cancelled" ELSE "stuck")
            ELSE IF MustReceive THEN "receive"
            ELSE "dispatch")
    /\ dispatched' = FALSE
    /\ UNCHANGED <<graphVars, dagVars, pending, available, running, done, work, channel, cancelled>>

\* Mutant: the memory of a finished task is not given back.
ReturnedNothing(t) == available

ReturnedMemory(t) == available + memory[t]

\* Mutant: a failure leaves the token alone.
TokenLeftAlone(ok) == cancelled

\* A failed task cancels the others.
TokenAfter(ok) == cancelled \/ ~ok

Receive ==
    /\ phase = "receive"
    /\ channel # <<>>
    /\ LET r == Head(channel)
       IN  /\ available' = ReturnedMemory(r.task)
           /\ cancelled' = TokenAfter(r.ok)
           /\ IF r.ok THEN /\ done' = Append(done, r.task)
                           /\ Goes(IF Len(done) + 1 = NumTasks THEN "ok" ELSE "dispatch")
                      ELSE /\ Goes("failed")
                           /\ UNCHANGED done
    /\ channel' = Tail(channel)
    /\ running' = running - 1
    /\ UNCHANGED <<graphVars, dagVars, pending, dispatched, work>>

-----------------------------------------------------------------------------
(* Workers (run_task) and the caller's token.  The token is looked at      *)
(* before the action and after it; the spool is written after that.  The   *)
(* channel is bounded: a worker waits while it is full, unless the         *)
(* receiver is gone.                                                       *)
HasRoom == Len(channel) < Capacity \/ phase \in Returned

Send(t, ok) ==
    /\ work' = [work EXCEPT ![t] = "sent"]
    /\ channel' = IF phase \in Returned THEN channel     \* the receiver is gone
                  ELSE Append(channel, [task |-> t, ok |-> ok])

WorkerStarts(t) ==
    /\ work[t] = "spawned"
    /\ ~cancelled
    /\ work' = [work EXCEPT ![t] = "busy"]
    /\ UNCHANGED <<graphVars, phase, dagVars, loopVars, channel, cancelled>>

WorkerStartsCancelled(t) ==
    /\ work[t] = "spawned"
    /\ cancelled
    /\ HasRoom
    /\ Send(t, FALSE)
    /\ UNCHANGED <<graphVars, phase, dagVars, loopVars, cancelled>>

WorkerEnds(t, ok) ==
    /\ work[t] = "busy"
    /\ HasRoom
    /\ Send(t, ok)
    /\ UNCHANGED <<graphVars, phase, dagVars, loopVars, cancelled>>

Cancel ==
    /\ ~cancelled
    /\ phase \notin Returned
    /\ cancelled' = TRUE
    /\ UNCHANGED <<graphVars, phase, dagVars, loopVars, work, channel>>

Next ==
    \/ \E t \in Tasks : \/ Visit(t)
                        \/ WorkerStarts(t)
                        \/ WorkerStartsCancelled(t)
                        \/ \E ok \in BOOLEAN : WorkerEnds(t, ok)
    \/ Validated
    \/ Dispatch \/ LeaveDispatch \/ Receive
    \/ Cancel

Spec == Init /\ [][Next]_vars

\* The caller's thread runs; a pool thread that has a task runs it to its end.
Fairness ==
    /\ WF_vars((\E t \in Tasks : Visit(t)) \/ Validated \/ Dispatch \/ LeaveDispatch \/ Receive)
    /\ \A t \in Tasks : WF_vars(\/ WorkerStarts(t) \/ WorkerStartsCancelled(t)
                                \/ \E ok \in BOOLEAN : WorkerEnds(t, ok))
FairSpec == Spec /\ Fairness

-----------------------------------------------------------------------------
(* Properties.                                                             *)
InFlight == {t \in Tasks : work[t] # "none" /\ t \notin Completed}
MemoryOf(S) == MapThenSumSet(LAMBDA t : memory[t], S)

\* Types; available_memory and running never wrap below zero.
TypeOK ==
    /\ deps \in [Tasks -> SUBSET Tasks]
    /\ memory \in [Tasks -> Sizes]
    /\ phase \in {"validate", "dispatch", "receive"} \cup Returned
    /\ indegree \in [Tasks -> Nat] /\ ready \subseteq Tasks /\ visited \in 0 .. NumTasks
    /\ pending \subseteq Tasks
    /\ work \in [Tasks -> {"none", "spawned", "busy", "sent"}]
    /\ channel \in Seq([task : Tasks, ok : BOOLEAN])
    /\ available \in 0 .. Budget
    /\ running \in 0 .. Workers
    /\ done \in Seq(Tasks)
    /\ dispatched \in BOOLEAN /\ cancelled \in BOOLEAN

\* A reference for validate_dag: a set of tasks that each depend on another of
\* the set is a cycle, or leads to one.
Cyclic == \E S \in (SUBSET Tasks) \ {{}} : \A t \in S : deps[t] \cap S # {}

\* validate_dag rejects exactly the graphs with a cycle.
ValidateIsExact ==
    /\ phase = "cycle_found" => Cyclic
    /\ phase \notin {"validate", "cycle_found"} => ~Cyclic

\* The memory handed out and the memory left add up to the budget as long as the
\* loop runs, so codec tasks never exceed it together.
MemoryAccounted ==
    phase \in {"dispatch", "receive"} =>
        available >= 0 /\ available + MemoryOf(InFlight) = Budget

\* Once the call returned an error, no task that is still waiting for a pool
\* thread runs its action.
NoWorkAfterFailure ==
    [][phase = "failed" => \A t \in Tasks : work[t] = "spawned" => work'[t] # "busy"]_vars

\* The call returns, cancelled or not: the loop neither spins nor waits for a
\* result nobody sends, and a validated graph never makes it report the
\* DependencyCycle it returns when nothing runs and nothing fits.
CallReturns == <>(phase \in Returned \ {"stuck"})
=============================================================================
