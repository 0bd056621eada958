----------------------------- MODULE Connections -----------------------------
(***************************************************************************)
(* The daemon's endpoint: the accept loop, the connection tasks and their  *)
(* frames (crates/pithos-daemon/src/transport.rs), the service's table of  *)
(* connections with a rate limiter each (service.rs, limits.rs), and the   *)
(* long poll for a job's events (service.rs).                              *)
(*                                                                         *)
(* Tasks run on several threads, so every await and every lock ends a      *)
(* step.  A client sends a length and a payload, stalls, stops reading or  *)
(* goes away when it likes.  A behaviour begins with a workload: how many  *)
(* connections, what they ask, and which of clock, job and faults move.    *)
(* The other requests are the business of DaemonService and ClientSession: *)
(* here they are answered.                                                 *)
(***************************************************************************)
EXTENDS Integers, FiniteSets, FiniteSetsExt

CONSTANTS
    Conns,              \* connection attempts, each of one connection id
    Foreign,            \* those of another user
    MaxConnections,     \* permits, and the bound on the service's table
    MaxFrame,           \* the greatest frame
    RatePerMs, Burst, TokenUnit,    \* token bucket, in thousandths of a token
    RetainedEvents,     \* max_events_per_job
    ClockMax, EventMax, \* bounds on the clock and on a job's events
    Workloads

ASSUME ConnectionsAssumption ==
    /\ Foreign \subseteq Conns /\ IsFiniteSet(Conns)
    /\ {MaxConnections, MaxFrame, RatePerMs, Burst, TokenUnit, RetainedEvents} \subseteq Nat \ {0}
    /\ ClockMax \in Nat \ {0} /\ EventMax \in Nat
    /\ \A w \in Workloads :
          /\ w.conns \subseteq Conns /\ w.requests \in Nat /\ w.errors \in Nat
          /\ w.answers \subseteq {"result", "error", "oversized"}

VARIABLES
    load,       \* the workload
    server,     \* where the endpoint's task is
    asked,      \* shutdown was requested
    linked,     \* the socket file exists
    errors,     \* failures of accept and of peer_cred to come
    slots,      \* free permits
    tasks,      \* spawned and not yet joined
    task,       \* where each connection's task is
    client,     \* "off", "dialled", "open", "closed"
    wire,       \* what the client has sent and the task has not read
    left,       \* requests the client may still make
    table,      \* the service's connections: their limiters
    degraded,   \* the service refuses every request
    reply,      \* the answer to the request in progress
    due,        \* the long poll's deadline has passed
    clock,      \* the wall clock
    job,        \* the followed job's events and state
    cursor,     \* the follower's last sequence
    got         \* ghost: events the follower has received

serverVars == <<server, asked, linked, errors, tasks>>
taskVars == <<slots, task, client, wire, left, table, reply, due>>
worldVars == <<degraded, clock, job, cursor, got>>
vars == <<load, serverVars, taskVars, worldVars>>

NoReply == [what |-> "none"]
Error(kind) == [what |-> kind]

-----------------------------------------------------------------------------
(* ConnectionRateLimiter.  `ideal` is a ghost: a bucket that is filled at  *)
(* every tick; `exact` holds until the clock is set back or read as 0.     *)

Capacity == Burst * TokenUnit
NewLimiter == [tokens |-> Capacity, last |-> 0, ideal |-> Capacity, exact |-> TRUE]

Elapsed(l, now) == IF l.last = 0 THEN 0 ELSE Max({0, now - l.last})
Refilled(l, now) == Min({Capacity, l.tokens + Elapsed(l, now) * RatePerMs})
Allowed(l, now) == Refilled(l, now) >= TokenUnit

\* Mutant: a refused request leaves the time of the last one.
AllowKeepingTime(l, now) ==
    LET taken == IF Allowed(l, now) THEN TokenUnit ELSE 0
    IN  [l EXCEPT !.tokens = Refilled(l, now) - taken,
                  !.last = IF taken > 0 THEN now ELSE @, !.ideal = @ - taken,
                  !.exact = @ /\ now # 0]

Allow(l, now) ==
    LET taken == IF Allowed(l, now) THEN TokenUnit ELSE 0
    IN  [l EXCEPT !.tokens = Refilled(l, now) - taken, !.last = now, !.ideal = @ - taken,
                  !.exact = @ /\ now # 0]

-----------------------------------------------------------------------------
(* Clients: external, and free to stop at any point                        *)

Dial(c) ==
    /\ c \in load.conns /\ client[c] = "off" /\ linked
    /\ load.sequential => \A d \in load.conns : client[d] \in {"off", "closed"}
    /\ client' = [client EXCEPT ![c] = "dialled"]
    /\ UNCHANGED <<load, serverVars, slots, task, wire, left, table, reply, due, worldVars>>

SendHeader(c) ==
    /\ client[c] = "open" /\ wire[c].part = "none" /\ left[c] > 0 /\ reply[c] = NoReply
    /\ task[c] = "header"
    /\ \E n \in load.sizes : wire' = [wire EXCEPT ![c] = [part |-> "header", size |-> n]]
    /\ left' = [left EXCEPT ![c] = @ - 1]
    /\ UNCHANGED <<load, serverVars, slots, task, client, table, reply, due, worldVars>>

SendPayload(c) ==
    /\ client[c] = "open" /\ wire[c].part = "header"
    /\ wire' = [wire EXCEPT ![c].part = "frame"]
    /\ UNCHANGED <<load, serverVars, slots, task, client, left, table, reply, due, worldVars>>

Hangup(c) ==
    /\ client[c] = "open"
    /\ client' = [client EXCEPT ![c] = "closed"]
    /\ UNCHANGED <<load, serverVars, slots, task, wire, left, table, reply, due, worldVars>>

-----------------------------------------------------------------------------
(* The accept loop of spawn_unix                                           *)

Serve(c) ==
    /\ slots' = slots - 1
    /\ tasks' = tasks \cup {c}
    /\ task' = [task EXCEPT ![c] = "header"]
    /\ client' = [client EXCEPT ![c] = "open"]

\* A peer of another user or of unknown credentials, and one for which no
\* permit is free, is dropped: its stream is closed.
TurnAway(c) ==
    /\ client' = [client EXCEPT ![c] = "closed"]
    /\ UNCHANGED <<slots, tasks, task>>

Accept(c) ==
    /\ server = "listen" /\ client[c] = "dialled"
    /\ \/ c \notin Foreign /\ slots > 0 /\ Serve(c) /\ UNCHANGED errors
       \/ (c \in Foreign \/ slots = 0) /\ TurnAway(c) /\ UNCHANGED errors
       \/ errors > 0 /\ TurnAway(c) /\ errors' = errors - 1
    /\ UNCHANGED <<load, server, asked, linked, wire, left, table, reply, due, worldVars>>

AcceptFails ==
    /\ server = "listen" /\ errors > 0
    /\ server' \in {"retry", "closing"}     \* transient, fatal
    /\ errors' = errors - 1
    /\ UNCHANGED <<load, asked, linked, tasks, taskVars, worldVars>>

RetryDelay ==
    /\ server = "retry" /\ server' = "listen"
    /\ UNCHANGED <<load, asked, linked, errors, tasks, taskVars, worldVars>>

\* Mutant: tasks are joined only by the accept loop.
JoinNextListening(c) ==
    /\ server = "listen" /\ c \in tasks /\ task[c] = "done"
    /\ tasks' = tasks \ {c}
    /\ UNCHANGED <<load, server, asked, linked, errors, taskVars, worldVars>>

JoinNext(c) ==
    /\ server \in {"listen", "closing"} /\ c \in tasks /\ task[c] = "done"
    /\ tasks' = tasks \ {c}
    /\ UNCHANGED <<load, server, asked, linked, errors, taskVars, worldVars>>

AskShutdown ==
    /\ load.stops /\ ~asked
    /\ asked' = TRUE
    /\ UNCHANGED <<load, server, linked, errors, tasks, taskVars, worldVars>>

\* The loop is left, and abort_all called.
SeeShutdown ==
    /\ server = "listen" /\ asked
    /\ server' = "closing"
    /\ UNCHANGED <<load, asked, linked, errors, tasks, taskVars, worldVars>>

\* Mutant: does not wait for the tasks.
AllJoinedAtOnce ==
    /\ server = "closing"
    /\ server' = "unlink"
    /\ UNCHANGED <<load, asked, linked, errors, tasks, taskVars, worldVars>>

AllJoined ==
    /\ server = "closing" /\ tasks = {}
    /\ server' = "unlink"
    /\ UNCHANGED <<load, asked, linked, errors, tasks, taskVars, worldVars>>

Unlink ==
    /\ server = "unlink"
    /\ server' = "service" /\ linked' = FALSE
    /\ UNCHANGED <<load, asked, errors, tasks, taskVars, worldVars>>

\* service.shutdown (DaemonService), then the task ends and with it the
\* listener: whoever was not accepted is cut off.
ServiceShutdown ==
    /\ server = "service"
    /\ server' = "stopped"
    /\ client' = [c \in Conns |-> IF client[c] = "dialled" THEN "closed" ELSE client[c]]
    /\ UNCHANGED <<load, asked, linked, errors, tasks, slots, task, wire, left, table, reply, due,
                   worldVars>>

-----------------------------------------------------------------------------
(* A connection's task: read_frame, handle_frame, write_frame              *)

SizeValid(n) == n > 0 /\ n <= MaxFrame

ReadHeader(c) ==
    /\ task[c] = "header" /\ wire[c].part # "none"
    /\ task' = [task EXCEPT ![c] = IF SizeValid(wire[c].size) THEN "payload" ELSE "leave"]
    /\ UNCHANGED <<load, serverVars, slots, client, wire, left, table, reply, due, worldVars>>

ReadPayload(c) ==
    /\ task[c] = "payload" /\ wire[c].part = "frame"
    /\ task' = [task EXCEPT ![c] = "handle"]
    /\ wire' = [wire EXCEPT ![c] = [part |-> "none", size |-> 0]]
    /\ UNCHANGED <<load, serverVars, slots, client, left, table, reply, due, worldVars>>

\* Mutant: a read has no timeout.
ReadEndsAtClose(c) ==
    /\ client[c] = "closed"
    /\ \/ task[c] = "header" /\ wire[c].part = "none"
       \/ task[c] = "payload" /\ wire[c].part = "header"
    /\ task' = [task EXCEPT ![c] = "leave"]
    /\ UNCHANGED <<load, serverVars, slots, client, wire, left, table, reply, due, worldVars>>

\* The client has closed, or FRAME_TIMEOUT has passed without what is read for.
\* An idle connection meets the header's timeout as well.
ReadEnds(c) ==
    /\ \/ task[c] = "header" /\ wire[c].part = "none"
       \/ task[c] = "payload" /\ wire[c].part = "header"
    /\ task' = [task EXCEPT ![c] = "leave"]
    /\ UNCHANGED <<load, serverVars, slots, client, wire, left, table, reply, due, worldVars>>

Registered == DOMAIN table
Refuses(c) == c \notin Registered /\ Cardinality(Registered) >= MaxConnections

Limiter(c) == IF c \in Registered THEN table[c] ELSE NewLimiter
WithLimiter(c, l) == [d \in Registered \cup {c} |-> IF d = c THEN l ELSE table[d]]

Answered(c, r) == reply' = [reply EXCEPT ![c] = r] /\ task' = [task EXCEPT ![c] = "write"]

\* handle_frame up to dispatch, with check_connection_rate under one lock.
HandleFrame(c) ==
    /\ task[c] = "handle"
    /\ \/ degraded /\ Answered(c, Error("degraded")) /\ UNCHANGED <<table, due>>
       \/ ~degraded /\ Refuses(c) /\ Answered(c, Error("limit")) /\ UNCHANGED <<table, due>>
       \/ /\ ~degraded /\ ~Refuses(c)
          /\ table' = WithLimiter(c, Allow(Limiter(c), clock))
          /\ \/ /\ ~Allowed(Limiter(c), clock)
                /\ Answered(c, Error("rate")) /\ UNCHANGED due
             \/ /\ Allowed(Limiter(c), clock) /\ load.kind = "other"
                /\ \E what \in load.answers : Answered(c, Error(what))
                /\ UNCHANGED due
             \/ /\ Allowed(Limiter(c), clock) /\ load.kind = "subscribe"
                /\ task' = [task EXCEPT ![c] = "events"]
                /\ \E waitless \in BOOLEAN : due' = [due EXCEPT ![c] = waitless]
                /\ UNCHANGED reply
    /\ UNCHANGED <<load, serverVars, slots, client, wire, left, worldVars>>

\* subscribe_events: the events after the cursor, then the state, under two
\* locks.
EventsAfter(after) == {s \in job.lo .. job.hi : s > after}

PollEvents(c) ==
    /\ task[c] = "events"
    /\ reply' = [reply EXCEPT ![c] = [what |-> "events", events |-> EventsAfter(cursor),
                                      after |-> cursor, terminal |-> FALSE]]
    /\ task' = [task EXCEPT ![c] = "state"]
    /\ UNCHANGED <<load, serverVars, slots, client, wire, left, table, due, worldVars>>

PollState(c) ==
    /\ task[c] = "state"
    /\ \/ /\ reply[c].events # {} \/ job.ended \/ due[c]
          /\ Answered(c, [reply[c] EXCEPT !.terminal = job.ended])
       \/ /\ reply[c].events = {} /\ ~job.ended /\ ~due[c]
          /\ task' = [task EXCEPT ![c] = "events"]
          /\ UNCHANGED reply
    /\ UNCHANGED <<load, serverVars, slots, client, wire, left, table, due, worldVars>>

PollDeadline(c) ==
    /\ task[c] \in {"events", "state"} /\ ~due[c]
    /\ due' = [due EXCEPT ![c] = TRUE]
    /\ UNCHANGED <<load, serverVars, slots, task, client, wire, left, table, reply, worldVars>>

\* Mutant: answers the job's latest sequence, not the last event's.
LatestSequenceOfJob(r) == job.hi

LatestSequence(r) == IF r.events = {} THEN r.after ELSE Max(r.events)

\* The client takes the answer: a follower moves its cursor.
Write(c) ==
    /\ task[c] = "write" /\ client[c] = "open"
    /\ task' = [task EXCEPT ![c] = "header"]
    /\ reply' = [reply EXCEPT ![c] = NoReply]
    /\ IF reply[c].what = "events"
       THEN cursor' = LatestSequence(reply[c]) /\ got' = got \cup reply[c].events
       ELSE UNCHANGED <<cursor, got>>
    /\ UNCHANGED <<load, serverVars, slots, client, wire, left, table, due, degraded, clock, job>>

\* The client is gone or has stopped reading for FRAME_TIMEOUT.
WriteFails(c) ==
    /\ task[c] = "write"
    /\ task' = [task EXCEPT ![c] = "leave"]
    /\ UNCHANGED <<load, serverVars, slots, client, wire, left, table, reply, due, worldVars>>

\* abort_all drops a task where it awaits.
Aborted(c) ==
    /\ server = "closing" /\ task[c] \in {"header", "payload", "events", "write"}
    /\ task' = [task EXCEPT ![c] = "leave"]
    /\ UNCHANGED <<load, serverVars, slots, client, wire, left, table, reply, due, worldVars>>

\* Mutant: the connection stays in the table.
DeregisteredNever(c) == table

\* The loop is over: ActiveConnection is dropped, and the stream after it.
Deregistered(c) == [d \in Registered \ {c} |-> table[d]]

DropRegistration(c) ==
    /\ task[c] = "leave"
    /\ table' = Deregistered(c)
    /\ client' = [client EXCEPT ![c] = "closed"]
    /\ task' = [task EXCEPT ![c] = "leaving"]
    /\ reply' = [reply EXCEPT ![c] = NoReply]
    /\ wire' = [wire EXCEPT ![c] = [part |-> "none", size |-> 0]]
    /\ due' = [due EXCEPT ![c] = FALSE]
    /\ UNCHANGED <<load, serverVars, slots, left, worldVars>>

DropPermit(c) ==
    /\ task[c] = "leaving"
    /\ slots' = slots + 1
    /\ task' = [task EXCEPT ![c] = "done"]
    /\ UNCHANGED <<load, serverVars, client, wire, left, table, reply, due, worldVars>>

-----------------------------------------------------------------------------
(* The rest of the world                                                   *)

Degrade ==
    /\ load.degrades /\ ~degraded
    /\ degraded' = TRUE
    /\ UNCHANGED <<load, serverVars, taskVars, clock, job, cursor, got>>

Tick ==
    /\ load.clocks /\ clock < ClockMax
    /\ clock' = clock + 1
    /\ table' = [c \in Registered |->
                    [table[c] EXCEPT !.ideal = Min({Capacity, @ + RatePerMs})]]
    /\ UNCHANGED <<load, serverVars, slots, task, client, wire, left, reply, due,
                   degraded, job, cursor, got>>

StepBack ==
    /\ load.clocks /\ clock > 0
    /\ clock' \in 0 .. clock - 1
    /\ table' = [c \in Registered |-> [table[c] EXCEPT !.exact = FALSE]]
    /\ UNCHANGED <<load, serverVars, slots, task, client, wire, left, reply, due,
                   degraded, job, cursor, got>>

\* The job appends an event, which may push the oldest out, and may end with it.
JobEvent ==
    /\ load.kind = "subscribe" /\ ~job.ended /\ job.hi < EventMax
    /\ \E ended \in BOOLEAN :
          job' = [lo |-> Max({job.lo, job.hi + 2 - RetainedEvents}), hi |-> job.hi + 1,
                  ended |-> ended]
    /\ UNCHANGED <<load, serverVars, taskVars, degraded, clock, cursor, got>>

-----------------------------------------------------------------------------
Init ==
    /\ load \in Workloads
    /\ server = "listen" /\ asked = FALSE /\ linked = TRUE
    /\ errors = load.errors
    /\ slots = MaxConnections
    /\ tasks = {}
    /\ task = [c \in Conns |-> "none"]
    /\ client = [c \in Conns |-> "off"]
    /\ wire = [c \in Conns |-> [part |-> "none", size |-> 0]]
    /\ left = [c \in Conns |-> load.requests]
    /\ table = [c \in {} |-> NewLimiter]
    /\ degraded = FALSE
    /\ reply = [c \in Conns |-> NoReply]
    /\ due = [c \in Conns |-> FALSE]
    /\ clock = 1
    /\ job = [lo |-> 1, hi |-> 1, ended |-> FALSE]
    /\ cursor = 0 /\ got = {}

ServerStep ==
    \/ \E c \in Conns : Accept(c) \/ JoinNext(c)
    \/ RetryDelay \/ SeeShutdown \/ AllJoined \/ Unlink \/ ServiceShutdown

TaskStep(c) ==
    \/ ReadHeader(c) \/ ReadPayload(c) \/ ReadEnds(c)
    \/ HandleFrame(c) \/ PollEvents(c) \/ PollState(c)
    \/ Write(c) \/ WriteFails(c) \/ Aborted(c)
    \/ DropRegistration(c) \/ DropPermit(c)

ClientStep(c) == Dial(c) \/ SendHeader(c) \/ SendPayload(c) \/ Hangup(c)

Next ==
    \/ ServerStep \/ AcceptFails \/ AskShutdown
    \/ \E c \in Conns : TaskStep(c) \/ PollDeadline(c) \/ ClientStep(c)
    \/ Degrade \/ Tick \/ StepBack \/ JobEvent

\* The runtime polls every task that can go on, and timers fire.  Nothing is
\* asked of clients, of the clock or of the job.
Fairness ==
    /\ WF_vars(ServerStep)
    /\ \A c \in Conns : WF_vars(TaskStep(c)) /\ WF_vars(PollDeadline(c))

Spec == Init /\ [][Next]_vars /\ Fairness

-----------------------------------------------------------------------------
(* Properties                                                              *)

Holds(c) == task[c] \notin {"none", "leaving", "done"}

\* A connection that was given a permit is never told by the service that there
\* are too many: the table only knows connections that hold permits, at any
\* moment at which tasks end while others are accepted.  When all tasks are
\* done every permit is back; and when the service is told to stop they all are,
\* so that no request is handled by a service that has been shut down.
AdmittedIsServed ==
    /\ \A c \in Conns : reply[c] # Error("limit")
    /\ Registered \subseteq {c \in Conns : Holds(c)}
    /\ slots <= MaxConnections
    /\ (\A c \in Conns : task[c] \in {"none", "done"}) => slots = MaxConnections /\ Registered = {}
    /\ server \in {"service", "stopped"} =>
          ~linked /\ \A c \in Conns : task[c] \in {"none", "done"}

\* A limiter is never more generous than a bucket filled at every tick of the
\* clock, even when the clock is set back, and is exactly as generous as long
\* as it is not and never reads 0, which stands for "never used": no time is
\* counted twice or forgotten between two requests.
RateIsIdeal ==
    \A c \in Registered :
        LET l == table[c]
        IN  /\ l.tokens \in 0 .. Capacity
            /\ Refilled(l, clock) <= l.ideal
            /\ l.exact => Refilled(l, clock) = l.ideal

\* A follower's cursor never passes an event that it did not receive, unless the
\* event had been pushed out of the retained history: what a racing answer
\* leaves out is still there for the next one.
CursorSkipsNothing ==
    /\ (1 .. cursor) \ got \subseteq 1 .. job.lo - 1
    /\ got \subseteq 1 .. job.hi /\ cursor <= job.hi

\* Whatever its client does, stall, stop reading or disappear, a connection ends
\* and its permit comes back; and a requested shutdown comes to its end wherever
\* the connections' tasks are.
ConnectionsEnd ==
    /\ \A c \in Conns : task[c] = "header" ~> (task[c] = "done")
    /\ asked ~> (server = "stopped")

=============================================================================
