-------------------------- MODULE DaemonInstances --------------------------
(***************************************************************************)
(* pithosd processes that share one state directory: jobs.json, which each *)
(* loads once and then rewrites whole from its own memory, and the Unix    *)
(* socket that is their endpoint.  Sources: main.rs, DaemonService::open,  *)
(* spawn_unix and IpcServer::shutdown of crates/pithos-daemon.             *)
(*                                                                         *)
(* A job here is one idempotency key; its store record is the state it     *)
(* has.  JobRegistry.tla is about one process; this module is about what   *)
(* the order of opening, binding, unlinking and closing does to the file   *)
(* when processes overlap.                                                 *)
(***************************************************************************)
EXTENDS Naturals, FiniteSets

CONSTANTS
    Processes,   \* pithosd processes, started again after they ended
    Jobs,        \* idempotency keys
    MayStart     \* when a process is started: "alone" (no other process runs)
                 \* or "unanswered" (no daemon answers and none is starting)

ASSUME InstancesAssumption ==
    /\ MayStart \in {"alone", "unanswered"}
    /\ "absent" \notin Processes

VARIABLES
    disk,     \* jobs.json: the state of each job, "none" if unknown
    mem,      \* the registry of each process
    step,     \* what each process is doing
    socket,   \* the process whose socket file is at the endpoint, or "absent"
    acked     \* history: jobs some client was given a number for

instanceVars == <<disk, mem, step, socket, acked>>

Ended == {"completed", "failed"}
JobStates == {"none", "pending"} \cup Ended
NoJobs == [j \in Jobs |-> "none"]
Starting == {"loaded", "opened", "stale", "bind"}
Running == Starting \cup {"serve", "unlinked"}

InstancesInit ==
    /\ disk = NoJobs
    /\ mem = [p \in Processes |-> NoJobs]
    /\ step = [p \in Processes |-> "off"]
    /\ socket = "absent"
    /\ acked = {}

Goes(p, s) == step' = [step EXCEPT ![p] = s]

\* commit: the whole file is written from the memory of the process.
Persist(p, jobs) ==
    /\ mem' = [mem EXCEPT ![p] = jobs]
    /\ disk' = jobs

-----------------------------------------------------------------------------
(* Starting: the stores are opened, then the endpoint is bound.            *)
\* A socket that nobody listens on refuses the connection.
Answers == socket # "absent" /\ step[socket] = "serve"

Permitted(p) ==
    \/ MayStart = "alone" /\ \A q \in Processes \ {p} : step[q] = "off"
    \/ MayStart = "unanswered" /\ ~Answers /\ \A q \in Processes : step[q] \notin Starting

OpenLoad(p) ==
    /\ step[p] = "off"
    /\ Permitted(p)
    /\ mem' = [mem EXCEPT ![p] = disk]
    /\ Goes(p, "loaded")
    /\ UNCHANGED <<disk, socket, acked>>

\* Mutant: recovery forgets what it cannot resume.
RecoveredForgetting(jobs) == [j \in Jobs |-> IF jobs[j] = "pending" THEN "none" ELSE jobs[j]]

\* The jobs of an earlier process are failed.
Recovered(jobs) == [j \in Jobs |-> IF jobs[j] = "pending" THEN "failed" ELSE jobs[j]]

\* open_with_policy stores the recovered state when it differs.
OpenRecover(p) ==
    /\ step[p] = "loaded"
    /\ IF Recovered(mem[p]) # mem[p] THEN Persist(p, Recovered(mem[p]))
                                    ELSE UNCHANGED <<disk, mem>>
    /\ Goes(p, "opened")
    /\ UNCHANGED <<socket, acked>>

\* spawn_unix: look at the socket file and try to connect to it.
Probe(p) ==
    /\ step[p] = "opened"
    /\ Goes(p, IF socket = "absent" THEN "bind" ELSE IF Answers THEN "off" ELSE "stale")
    /\ UNCHANGED <<disk, mem, socket, acked>>

\* Mutant: treats a stale socket like a live one.
RemoveStaleRefused(p) ==
    /\ step[p] = "stale"
    /\ Goes(p, "off")
    /\ UNCHANGED <<disk, mem, socket, acked>>

\* remove_file fails if the file is gone by now.
RemoveStale(p) ==
    /\ step[p] = "stale"
    /\ socket' = "absent"
    /\ Goes(p, IF socket = "absent" THEN "off" ELSE "bind")
    /\ UNCHANGED <<disk, mem, acked>>

\* bind fails if there is a file.
Bind(p) ==
    /\ step[p] = "bind"
    /\ IF socket = "absent" THEN socket' = p /\ Goes(p, "serve")
                            ELSE Goes(p, "off") /\ UNCHANGED socket
    /\ UNCHANGED <<disk, mem, acked>>

-----------------------------------------------------------------------------
(* Serving.                                                                *)
AcceptJob(p, j) ==
    /\ step[p] = "serve"
    /\ mem[p][j] = "none"
    /\ Persist(p, [mem[p] EXCEPT ![j] = "pending"])
    /\ acked' = acked \cup {j}
    /\ UNCHANGED <<step, socket>>

\* A worker ends; during a shutdown too, while the service waits for it.
Finish(p, j, outcome) ==
    /\ step[p] \in {"serve", "unlinked"}
    /\ mem[p][j] = "pending"
    /\ Persist(p, [mem[p] EXCEPT ![j] = outcome])
    /\ UNCHANGED <<step, socket, acked>>

\* IpcServer::shutdown: the listener and the connections end, and the socket
\* file at the endpoint is removed, whoever bound it.
UnlinkEndpoint(p) ==
    /\ step[p] = "serve"
    /\ socket' = "absent"
    /\ Goes(p, "unlinked")
    /\ UNCHANGED <<disk, mem, acked>>

\* DaemonService::shutdown comes after that; it returns once every job ended.
Leave(p) ==
    /\ step[p] = "unlinked"
    /\ \A j \in Jobs : mem[p][j] # "pending"
    /\ Goes(p, "off")
    /\ UNCHANGED <<disk, mem, socket, acked>>

Crash(p) ==
    /\ step[p] # "off"
    /\ Goes(p, "off")
    /\ UNCHANGED <<disk, mem, socket, acked>>

InstancesNext ==
    \E p \in Processes :
        \/ OpenLoad(p) \/ OpenRecover(p) \/ Probe(p) \/ RemoveStale(p) \/ Bind(p)
        \/ \E j \in Jobs : AcceptJob(p, j)
        \/ \E j \in Jobs, outcome \in Ended : Finish(p, j, outcome)
        \/ UnlinkEndpoint(p) \/ Leave(p) \/ Crash(p)

InstancesSpec == InstancesInit /\ [][InstancesNext]_instanceVars

\* The steps of a start.
Starts(p) == OpenRecover(p) \/ Probe(p) \/ RemoveStale(p) \/ Bind(p)

-----------------------------------------------------------------------------
(* Properties.                                                             *)

\* A job a client was given a number for is in jobs.json from then on.
AckedSurvives == \A j \in acked : disk[j] # "none"

\* Whatever socket file a crash left behind, the next start does not give up.
StartNeverGivesUp == [][\A p \in Processes : Starts(p) => step'[p] # "off"]_instanceVars
=============================================================================
