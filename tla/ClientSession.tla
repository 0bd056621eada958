--------------------------- MODULE ClientSession ---------------------------
(***************************************************************************)
(* Sessions between the CLI's DaemonClient (daemon_client.rs) and the      *)
(* daemon: SessionRegistry (session_store.rs), open_session and            *)
(* authenticate (service.rs) and the connections in between                *)
(* (transport.rs).                                                         *)
(*                                                                         *)
(* A client opens a session and runs commands: each submits a job and      *)
(* polls it until it ends.  Connections break, answers come too late, the  *)
(* daemon turns requests away, crashes and restarts, commits of its two    *)
(* registries fail and time passes.  Random identities (session ids,       *)
(* capability and resume tokens, connection ids) are numbers drawn from    *)
(* one counter; a token stands for its hash.  The session registry's       *)
(* memory always equals its file (commit assigns it right after the        *)
(* rename, under one lock), so one variable stands for both.               *)
(***************************************************************************)
EXTENDS Integers, FiniteSets

CONSTANTS
    Clients,
    NumCommands,    \* commands a client runs, one after the other
    MaxSessions,    \* MAX_SESSIONS
    Ttl,            \* session_ttl
    MaxTime,        \* bound of the clock
    MaxFaults,      \* bound: lost connections, late answers, crashes, failed commits
    MaxOthers,      \* bound: sessions other programs open
    MaxFresh        \* bound of the counter of random identities

ASSUME ClientSessionAssumption ==
    /\ NumCommands \in Nat \ {0} /\ MaxSessions \in Nat \ {0} /\ Ttl \in Nat \ {0}
    /\ MaxTime \in Nat /\ MaxFaults \in Nat /\ MaxOthers \in Nat /\ MaxFresh \in Nat

VARIABLES
    clock,
    fresh,      \* next random identity
    faults,
    others,     \* sessions opened by other programs so far
    daemon,     \* "up", "degraded" (fails closed) or "down"
    allows,     \* whether the daemon's allowlist admits the clients' scope
    sessions,   \* set of StoredSession
    conns,      \* sessions attached to connections: set of Session
    open,       \* connections both ends still hold
    calls,      \* requests on their way, being handled, or answered
    jobs,       \* jobs of the job registry
    client      \* state of each DaemonClient

daemonVars == <<daemon, allows, sessions, conns, jobs>>
vars == <<clock, fresh, faults, others, daemonVars, open, calls, client>>

Fresh == 1 .. MaxFresh + MaxOthers   \* other programs draw from the end
None == 0

StoredSession == [session : Fresh, token : Fresh, expires : Nat]
Session == [conn : Fresh, session : Fresh, cap : Fresh, expires : Nat]
Commands == 1 .. NumCommands

\* The idempotency key: the session's id and a counter of the client.
Keys == [session : Fresh, number : Nat]
Job == [owner : Fresh, key : Keys, state : {"live", "completed", "failed"},
        by : Clients \X Commands]        \* by: the command it was submitted for

Init ==
    /\ clock = 1 /\ fresh = 1 /\ faults = 0 /\ others = 0
    /\ daemon = "up" /\ allows = TRUE
    /\ sessions = {} /\ conns = {} /\ open = {} /\ calls = {} /\ jobs = {}
    /\ client = [c \in Clients |->
         [pc |-> "start", conn |-> None, next |-> None, session |-> None, cap |-> None,
          token |-> None, expires |-> 0, command |-> 1, key |-> [session |-> None, number |-> 0],
          job |-> FALSE, retry |-> FALSE, errors |-> 0]]

CountFault == faults < MaxFaults /\ faults' = faults + 1

\* Draws n random identities: fresh, ..., fresh + n - 1.
Draw(n) == fresh + n - 1 <= MaxFresh /\ fresh' = fresh + n

-----------------------------------------------------------------------------
(* The client.  Its requests go over `conn`, the one that resumes over     *)
(* `next`, which replaces `conn` when the daemon's answer is accepted.     *)
Goes(c, p) == client' = [client EXCEPT ![c].pc = p]

Expired(c) == clock >= client[c].expires

\* A request on its way to the daemon; `now` is set when it is handled.
Call(c, conn, kind) ==
    [client |-> c, conn |-> conn, kind |-> kind, step |-> "sent", now |-> 0,
     session |-> client[c].session, token |-> client[c].token, cap |-> client[c].cap,
     key |-> client[c].key, by |-> <<c, client[c].command>>, reply |-> "none", expires |-> 0]

\* connect: a stream, and `capabilities` without a session to resume.
Connect(c) ==
    /\ client[c].pc = "start"
    /\ daemon # "down"
    /\ Draw(1)
    /\ open' = open \cup {fresh}
    /\ calls' = calls \cup {Call(c, fresh, "create")}
    /\ client' = [client EXCEPT ![c].pc = "opening", ![c].next = fresh]
    /\ UNCHANGED <<clock, faults, others, daemonVars>>

\* connect_with_retry gives up: a client that starts, or one that reconnects.
ConnectFails(c) ==
    /\ client[c].pc \in {"start", "reconnect"}
    /\ daemon = "down"
    /\ Goes(c, "error")
    /\ UNCHANGED <<clock, fresh, faults, others, daemonVars, open, calls>>

\* next_idempotency_key, once per command.
NextKey(c) == [session |-> client[c].session, number |-> client[c].command]

\* A command makes its key; the request is built from it at each attempt.
StartCommand(c) ==
    /\ client[c].pc = "idle"
    /\ client' = [client EXCEPT ![c].pc = "ready", ![c].key = NextKey(c),
                                ![c].retry = FALSE, ![c].errors = 0]
    /\ UNCHANGED <<clock, fresh, faults, others, daemonVars, open, calls>>

Method(c) == IF client[c].job THEN "status" ELSE "submit"

\* authenticated_request: a client that knows its session expired reconnects first.
FirstAttempt(c) ==
    /\ client[c].pc = "ready"
    /\ IF Expired(c)
         THEN /\ client' = [client EXCEPT ![c].pc = "reconnect", ![c].retry = FALSE]
              /\ UNCHANGED calls
         ELSE /\ Goes(c, "waiting")
              /\ calls' = calls \cup {Call(c, client[c].conn, Method(c))}
    /\ UNCHANGED <<clock, fresh, faults, others, daemonVars, open>>

\* reconnect: a new stream, and `capabilities` that resumes the session.
Reconnect(c) ==
    /\ client[c].pc = "reconnect"
    /\ daemon # "down"
    /\ Draw(1)
    /\ open' = open \cup {fresh}
    /\ calls' = calls \cup {Call(c, fresh, "resume")}
    /\ client' = [client EXCEPT ![c].pc = "resuming", ![c].next = fresh]
    /\ UNCHANGED <<clock, faults, others, daemonVars>>

\* What the client waits on.
Waiting(c) == IF client[c].pc = "waiting" THEN client[c].conn ELSE client[c].next
Waits(c) == client[c].pc \in {"opening", "resuming", "waiting"}

\* The client's streams are dropped when it stops.
Streams(c) == {client[c].conn, client[c].next}

\* An I/O error: the first one of a request leads to a reconnect, any other one
\* ends the command (and the CLI).
IoError(c) ==
    LET again == client[c].pc = "waiting" /\ ~client[c].retry
    IN  /\ client' = [client EXCEPT ![c].pc = IF again THEN "reconnect" ELSE "error",
                                    ![c].errors = @ + 1, ![c].retry = again]
        /\ open' = IF again THEN open ELSE open \ Streams(c)

NoticeBroken(c) ==
    /\ Waits(c)
    /\ Waiting(c) \notin open
    /\ IoError(c)
    /\ UNCHANGED <<clock, fresh, faults, others, daemonVars, calls>>

\* No answer within DEFAULT_IPC_RESPONSE_TIMEOUT; the daemon may still be at it.
Timeout(c) ==
    /\ Waits(c)
    /\ Waiting(c) \in open
    /\ CountFault
    /\ IoError(c)
    /\ UNCHANGED <<clock, fresh, others, daemonVars, calls>>

\* The answer m arrives at client c.
Arrives(c, m) ==
    /\ Waits(c)
    /\ m \in calls
    /\ m.client = c /\ m.conn = Waiting(c) /\ m.conn \in open /\ m.step = "answered"

Answer(c, m) == Arrives(c, m) /\ calls' = calls \ {m}

\* Mutant: keeps the resume token that was just used.
GrantedKeepingToken(c, m, p) ==
    [client[c] EXCEPT !.pc = p, !.conn = m.conn, !.next = None, !.session = m.session, !.cap = m.cap,
                      !.token = IF @ = None THEN m.token ELSE @, !.expires = m.expires]

\* capabilities were granted: the new stream and the new session data are taken.
Granted(c, m, p) ==
    [client[c] EXCEPT !.pc = p, !.conn = m.conn, !.next = None, !.session = m.session,
                      !.cap = m.cap, !.token = m.token, !.expires = m.expires]

ResumedSessionKept(c, m) == m.session = client[c].session

Opened(c, m) ==
    /\ client[c].pc = "opening" /\ m.reply = "ok"
    /\ Answer(c, m)
    /\ client' = [client EXCEPT ![c] = Granted(c, m, "idle")]
    /\ UNCHANGED <<clock, fresh, faults, others, daemonVars, open>>

\* Mutant: sends the request it had built for the old connection.
ResentStale(c, m) == Call(c, m.conn, Method(c))

\* The request is built again, with the capability of the new connection.
Resent(c, m) == [Call(c, m.conn, Method(c)) EXCEPT !.cap = m.cap, !.token = m.token]

\* A resumed session must keep its id (validate_resumed_session).  The request
\* that led here is sent again with the new capability; the old stream goes.
\* A session that was found expired before the first attempt has its first
\* attempt now.
Resumed(c, m) ==
    /\ client[c].pc = "resuming" /\ m.reply = "ok"
    /\ Arrives(c, m)
    /\ IF ResumedSessionKept(c, m)
         THEN /\ client' = [client EXCEPT ![c] = Granted(c, m, "waiting")]
              /\ calls' = (calls \ {m}) \cup {Resent(c, m)}
              /\ open' = open \ {client[c].conn}
         ELSE /\ Goes(c, "error")
              /\ calls' = calls \ {m}
              /\ open' = open \ Streams(c)
    /\ UNCHANGED <<clock, fresh, faults, others, daemonVars>>

\* submit_and_wait got its job's number.
Submitted(c, m) ==
    /\ client[c].pc = "waiting" /\ m.kind = "submit" /\ m.reply = "ok"
    /\ Answer(c, m)
    /\ client' = [client EXCEPT ![c].pc = "ready", ![c].job = TRUE,
                                ![c].retry = FALSE, ![c].errors = 0]
    /\ UNCHANGED <<clock, fresh, faults, others, daemonVars, open>>

\* Mutant: goes on polling a job that failed.
EndStatesCompleted == {"completed"}

\* The states that end submit_and_wait.
EndStates == {"completed", "failed"}

\* A snapshot arrived: poll again, or return and go on with the next command.
Polled(c, m) ==
    /\ client[c].pc = "waiting" /\ m.kind = "status" /\ m.reply \in {"live", "completed", "failed"}
    /\ Answer(c, m)
    /\ IF m.reply \in EndStates
         THEN IF client[c].command = NumCommands
                THEN /\ Goes(c, "ok")
                     /\ open' = open \ Streams(c)
                ELSE /\ client' = [client EXCEPT ![c].pc = "idle", ![c].command = @ + 1,
                                                ![c].job = FALSE]
                     /\ UNCHANGED open
         ELSE /\ client' = [client EXCEPT ![c].pc = "ready", ![c].retry = FALSE, ![c].errors = 0]
              /\ UNCHANGED open
    /\ UNCHANGED <<clock, fresh, faults, others, daemonVars>>

\* The errors of the daemon.  "denied" (the session) and "forbidden" (a path) are
\* both PermissionDenied to the client; "limit" is ResourceLimit, "conflict"
\* JobConflict, and "invalid" any other error of the request's own checks.
Errors == {"denied", "forbidden", "limit", "invalid", "conflict", "internal", "not_found"}
PermissionDenied == {"denied", "forbidden"}

\* An error: a denied first attempt of an expired session leads to a reconnect.
Refused(c, m) ==
    /\ m.reply \in Errors
    /\ Answer(c, m)
    /\ IF client[c].pc = "waiting" /\ ~client[c].retry /\ m.reply \in PermissionDenied /\ Expired(c)
         THEN /\ client' = [client EXCEPT ![c].pc = "reconnect", ![c].retry = TRUE]
              /\ UNCHANGED open
         ELSE /\ Goes(c, "error")
              /\ open' = open \ Streams(c)
    /\ UNCHANGED <<clock, fresh, faults, others, daemonVars>>

-----------------------------------------------------------------------------
(* The daemon.  A connection is served by one task, one request at a time. *)
Becomes(m, n) == calls' = (calls \ {m}) \cup {n}

\* The answer is written if the connection is still there.
Reply(m, answer) ==
    IF m.conn \in open THEN Becomes(m, [answer EXCEPT !.step = "answered"]) ELSE calls' = calls \ {m}

Says(m, reply) == Reply(m, [m EXCEPT !.reply = reply])

\* handle_frame of a daemon that failed closed.
RefuseDegraded(m) ==
    /\ m \in calls /\ m.step = "sent" /\ daemon = "degraded"
    /\ Says(m, "internal")
    /\ UNCHANGED <<clock, fresh, faults, others, daemonVars, open, client>>

\* check_connection_rate: too many connections, or too many requests on this one.
RefuseRate(m) ==
    /\ m \in calls /\ m.step = "sent" /\ daemon = "up"
    /\ Says(m, "limit")
    /\ UNCHANGED <<clock, fresh, faults, others, daemonVars, open, client>>

\* open_session up to its await: the times are taken.
OpenSession(m) ==
    /\ m \in calls /\ m.step = "sent" /\ daemon = "up"
    /\ m.kind \in {"create", "resume"}
    /\ Becomes(m, [m EXCEPT !.step = "started", !.now = clock, !.expires = clock + Ttl])
    /\ UNCHANGED <<clock, fresh, faults, others, daemonVars, open, client>>

\* commit of the session registry.  A registry that would be too large is left as
\* it is, with ResourceLimit.  A commit that was refused, or whose directory could
\* not be synced, is an Internal error, and open_session degrades the daemon.
Outcomes == {"ok", "full", "refused", "unsynced"}
Commit(next, io) ==
    /\ sessions' = IF io \in {"full", "refused"} THEN sessions ELSE next
    /\ IF io \in {"ok", "full"} THEN UNCHANGED <<faults, daemon>>
                                ELSE CountFault /\ daemon' = "degraded"

CommitError(io) == IF io = "full" THEN "limit" ELSE "internal"

NoCommit(io) == io = "ok" /\ UNCHANGED <<sessions, faults, daemon>>

\* The rest of open_session: the connection gets the session and a capability.
Attach(m, session, token, cap) ==
    /\ conns' = conns \cup {[conn |-> m.conn, session |-> session, cap |-> cap, expires |-> m.expires]}
    /\ Reply(m, [m EXCEPT !.reply = "ok", !.session = session, !.token = token, !.cap = cap])

\* create drops the expired sessions first.
Pruned(now) == {s \in sessions : s.expires > now}

Full(now) == Cardinality(Pruned(now)) >= MaxSessions

Create(m, io) ==
    /\ m \in calls /\ m.step = "started" /\ m.kind = "create"
    /\ IF ~allows \/ Full(m.now)
         THEN /\ NoCommit(io)
              /\ Says(m, IF allows THEN "limit" ELSE "denied")
              /\ UNCHANGED <<fresh, conns>>
         ELSE /\ Draw(3)
              /\ Commit(Pruned(m.now) \cup {[session |-> fresh, token |-> fresh + 1,
                                             expires |-> m.expires]}, io)
              /\ IF io = "ok" THEN Attach(m, fresh, fresh + 1, fresh + 2)
                              ELSE Says(m, CommitError(io)) /\ UNCHANGED conns
    /\ UNCHANGED <<clock, others, allows, jobs, open, client>>

Rotated(s, m) == [s EXCEPT !.token = fresh, !.expires = m.expires]

\* Another program's create; it prunes and fills the same registry.
OtherCreates ==
    /\ daemon = "up" /\ others < MaxOthers
    /\ ~Full(clock)
    /\ others' = others + 1
    /\ sessions' = Pruned(clock) \cup {[session |-> MaxFresh + others', token |-> MaxFresh + others',
                                        expires |-> clock + Ttl]}
    /\ UNCHANGED <<clock, fresh, faults, daemon, allows, conns, jobs, open, calls, client>>

\* resume: an expired session is removed, a wrong token is denied; otherwise the
\* token is rotated and stored before the scope is checked and the answer sent.
Resume(m, io) ==
    LET found == {s \in sessions : s.session = m.session}
        dead  == {s \in found : s.expires <= m.now}
        match == {s \in found \ dead : s.token = m.token}
    IN  /\ m \in calls /\ m.step = "started" /\ m.kind = "resume"
        /\ IF match = {}
             THEN /\ io # "full"
                  /\ IF dead # {} THEN Commit(sessions \ dead, io) ELSE NoCommit(io)
                  /\ Says(m, IF io = "ok" THEN "denied" ELSE "internal")
                  /\ UNCHANGED <<fresh, conns>>
             ELSE /\ Draw(2)
                  /\ Commit((sessions \ match) \cup {Rotated(s, m) : s \in match}, io)
                  /\ IF io # "ok" \/ ~allows
                       THEN Says(m, IF io = "ok" THEN "denied" ELSE CommitError(io)) /\ UNCHANGED conns
                       ELSE Attach(m, m.session, fresh, fresh + 1)
        /\ UNCHANGED <<clock, others, allows, jobs, open, client>>

\* authenticate: the capability of this connection, not yet expired.
Authentic(m, a) == a.conn = m.conn /\ a.cap = m.cap /\ clock < a.expires
Attached(m) == {a \in conns : Authentic(m, a)}

Deny(m) ==
    /\ m \in calls /\ m.step = "sent" /\ daemon = "up"
    /\ m.kind \in {"submit", "status"}
    /\ Attached(m) = {}
    /\ Says(m, "denied")
    /\ UNCHANGED <<clock, fresh, faults, others, daemonVars, open, client>>

\* submit is authenticated; then its limits and, with an await, its paths are checked.
Admit(m) ==
    /\ m \in calls /\ m.step = "sent" /\ daemon = "up" /\ m.kind = "submit"
    /\ \E a \in Attached(m) : Becomes(m, [m EXCEPT !.step = "started", !.session = a.session])
    /\ UNCHANGED <<clock, fresh, faults, others, daemonVars, open, client>>

\* Mutant: every submission is a new job.
SameKeyNever(job, m) == FALSE

\* The registry's index: session and idempotency key.
SameKey(job, m) == job.owner = m.session /\ job.key = m.key

\* The request's own checks fail: a limit of the job is over the quota or its
\* deadline has passed (validate_context, enforce_bound), a path is outside the
\* scope of the session or the request, or it cannot be measured or inspected.
TurnAway(m, error) ==
    /\ m \in calls /\ m.step = "started" /\ m.kind = "submit"
    /\ Says(m, error)
    /\ UNCHANGED <<clock, fresh, faults, others, daemonVars, open, client>>

Stored(m) == \E job \in jobs : SameKey(job, m)

\* submit_with_limit replays the job of the key.
Replay(m) ==
    /\ m \in calls /\ m.step = "started" /\ m.kind = "submit"
    /\ Stored(m)
    /\ Says(m, "ok")
    /\ UNCHANGED <<clock, fresh, faults, others, daemonVars, open, client>>

\* The key has a job, but the request's paths, whose resolved form params_hash covers,
\* lead elsewhere by now.
Conflict(m) ==
    /\ m \in calls /\ m.step = "started" /\ m.kind = "submit"
    /\ Stored(m)
    /\ Says(m, "conflict")
    /\ UNCHANGED <<clock, fresh, faults, others, daemonVars, open, client>>

\* submit_with_limit makes a job, unless the registry holds as many as it retains
\* or the session as many as its quota ("full").  A commit that fails degrades the
\* daemon.
Submit(m, io) ==
    /\ m \in calls /\ m.step = "started" /\ m.kind = "submit"
    /\ ~Stored(m)
    /\ jobs' = IF io \in {"full", "refused"} THEN jobs
               ELSE jobs \cup {[owner |-> m.session, key |-> m.key, state |-> "live", by |-> m.by]}
    /\ IF io \in {"ok", "full"} THEN UNCHANGED <<faults, daemon>>
                                ELSE CountFault /\ daemon' = "degraded"
    /\ Says(m, IF io = "ok" THEN "ok" ELSE CommitError(io))
    /\ UNCHANGED <<clock, fresh, others, allows, sessions, conns, open, client>>

\* submit_with_limit on a daemon that has failed closed since: its registry is
\* closed by now, or unhealthy.
SubmitTooLate(m, error) ==
    /\ m \in calls /\ m.step = "started" /\ m.kind = "submit"
    /\ daemon = "degraded"
    /\ Says(m, error)
    /\ UNCHANGED <<clock, fresh, faults, others, daemonVars, open, client>>

\* snapshot, for the session's own jobs only.
Status(m) ==
    /\ m \in calls /\ m.step = "sent" /\ daemon = "up" /\ m.kind = "status"
    /\ \E a \in Attached(m) :
         LET own == {job \in jobs : job.owner = a.session /\ job.key = m.key}
         IN  IF own = {} THEN Says(m, "not_found")
             ELSE \E job \in own : Says(m, job.state)
    /\ UNCHANGED <<clock, fresh, faults, others, daemonVars, open, client>>

\* The connection's task ends: disconnect.
Disconnect(a) ==
    /\ a \in conns /\ a.conn \notin open
    /\ \A m \in calls : m.conn # a.conn
    /\ conns' = conns \ {a}
    /\ UNCHANGED <<clock, fresh, faults, others, daemon, allows, sessions, jobs, open, calls, client>>

-----------------------------------------------------------------------------
(* The world.                                                              *)
\* A connection breaks: what is on its way in either direction is lost.
Break(conn) ==
    /\ conn \in open
    /\ CountFault
    /\ open' = open \ {conn}
    /\ calls' = {m \in calls : m.conn = conn => m.step = "started"}
    /\ UNCHANGED <<clock, fresh, others, daemonVars, client>>

\* The daemon dies; sessions.json and jobs.json stay.
Crash ==
    /\ daemon # "down"
    /\ CountFault
    /\ daemon' = "down"
    /\ open' = {} /\ calls' = {} /\ conns' = {}
    /\ UNCHANGED <<clock, fresh, others, allows, sessions, jobs, client>>

\* It is started again, maybe with another allowlist; interrupted jobs are failed.
Restart(allowed) ==
    /\ daemon = "down"
    /\ daemon' = "up"
    /\ allows' = allowed
    /\ jobs' = {[job EXCEPT !.state = IF @ = "live" THEN "failed" ELSE @] : job \in jobs}
    /\ UNCHANGED <<clock, fresh, faults, others, sessions, conns, open, calls, client>>

JobEnds(job) ==
    /\ job \in jobs /\ job.state = "live" /\ daemon # "down"
    /\ jobs' = (jobs \ {job}) \cup {[job EXCEPT !.state = "completed"]}
    /\ UNCHANGED <<clock, fresh, faults, others, daemon, allows, sessions, conns, open, calls, client>>

Tick ==
    /\ clock < MaxTime
    /\ clock' = clock + 1
    /\ UNCHANGED <<fresh, faults, others, daemonVars, open, calls, client>>

-----------------------------------------------------------------------------
ClientStep(c) ==
    \/ Connect(c) \/ ConnectFails(c) \/ StartCommand(c) \/ FirstAttempt(c) \/ Reconnect(c)
    \/ NoticeBroken(c)
    \/ \E m \in calls : \/ Opened(c, m) \/ Resumed(c, m) \/ Submitted(c, m)
                        \/ Polled(c, m) \/ Refused(c, m)

DaemonStep ==
    \E m \in calls :
        \/ RefuseDegraded(m) \/ RefuseRate(m) \/ OpenSession(m) \/ Deny(m) \/ Admit(m)
        \/ Replay(m) \/ Conflict(m) \/ Status(m)
        \/ \E error \in {"forbidden", "limit", "invalid"} : TurnAway(m, error)
        \/ \E error \in {"conflict", "internal"} : SubmitTooLate(m, error)
        \/ \E io \in Outcomes : Create(m, io) \/ Resume(m, io) \/ Submit(m, io)

Next ==
    \/ \E c \in Clients : ClientStep(c) \/ Timeout(c)
    \/ DaemonStep
    \/ OtherCreates
    \/ \E a \in conns : Disconnect(a)
    \/ \E conn \in open : Break(conn)
    \/ Crash
    \/ \E allowed \in BOOLEAN : Restart(allowed)
    \/ \E job \in jobs : JobEnds(job)
    \/ Tick

Spec == Init /\ [][Next]_vars

\* Clients run, the daemon serves its connections and jobs end.  Nobody needs to
\* restart the daemon, and time need not pass.
Fairness ==
    /\ \A c \in Clients : WF_vars(ClientStep(c))
    /\ WF_vars(DaemonStep)
    /\ WF_vars(\E job \in jobs : JobEnds(job))
FairSpec == Spec /\ Fairness

-----------------------------------------------------------------------------
(* Properties.                                                             *)
ClientSteps == {"start", "opening", "idle", "ready", "waiting", "reconnect", "resuming", "ok", "error"}

\* Types; the registry never holds more than MAX_SESSIONS sessions.
TypeOK ==
    /\ clock \in 1 .. MaxTime /\ fresh \in 1 .. MaxFresh + 1 /\ faults \in 0 .. MaxFaults
    /\ others \in 0 .. MaxOthers /\ daemon \in {"up", "degraded", "down"} /\ allows \in BOOLEAN
    /\ sessions \subseteq StoredSession /\ Cardinality(sessions) <= MaxSessions
    /\ conns \subseteq Session
    /\ open \subseteq Fresh
    /\ jobs \subseteq Job
    /\ \A c \in Clients : client[c].pc \in ClientSteps

\* A command has one job, however often its submission was repeated over however
\* many connections, late answers and restarts; and the job it polls, and whose
\* result it returns, is that one.
OneJobPerCommand ==
    /\ \A i, k \in jobs : i.by = k.by => i = k
    /\ \A c \in Clients : client[c].job =>
          \E job \in jobs : /\ job.by = <<c, client[c].command>>
                            /\ job.owner = client[c].session /\ job.key = client[c].key

\* A client between two connects always holds the token that resumes its session.
CanResume ==
    \A c \in Clients : client[c].pc \in {"idle", "ready", "waiting", "reconnect"} /\ ~Expired(c) =>
        \E s \in sessions : s.session = client[c].session /\ s.token = client[c].token

\* The daemon answered that it cannot take the request: a limit, a path outside the
\* scope, paths that changed under the key, or another check of the request itself.
TurnedAway(c) ==
    \E m \in calls : Arrives(c, m) /\ m.reply \in {"limit", "forbidden", "conflict", "invalid"}

\* A request survives one broken connection or one restart: a client that had
\* opened its session fails only if the request met two transport errors, its
\* session expired, the daemon is down or fails closed, it no longer admits the
\* client's scope, or it answered that it cannot take the request.  So a live session
\* is never denied, whichever answers were lost, and a command's job is always found.
FailsWithCause ==
    [][\A c \in Clients :
         client[c].pc # "error" /\ client'[c].pc = "error" /\ client[c].session # None =>
            \/ client'[c].errors >= 2 \/ Expired(c)
            \/ daemon # "up" \/ ~allows
            \/ TurnedAway(c)]_vars

\* A client ends.
ClientEnds == \A c \in Clients : <>(client[c].pc \in {"ok", "error"})
=============================================================================
