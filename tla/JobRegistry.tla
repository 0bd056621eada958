---------------------------- MODULE JobRegistry ----------------------------
(***************************************************************************)
(* JobRegistry of crates/pithos-daemon/src/store.rs: the in-memory state,  *)
(* the file jobs.json it is committed to, the health and admission flags,  *)
(* the daemon's crash and restart with its recovery of interrupted packs,  *)
(* and, as environment, the output paths packs publish to.                 *)
(*                                                                         *)
(* Every mutation holds the `mutation` lock from reading the state to the  *)
(* end of the commit, so one action is one call.  Only                     *)
(* record_pack_publication works outside the lock (it verifies the archive *)
(* first), and is two actions.                                             *)
(***************************************************************************)
EXTENDS JobStore

VARIABLES
    mem,        \* JobRegistry.state, meaningful while the daemon is up
    disk,       \* the content of jobs.json
    up,         \* the daemon process runs
    healthy,    \* JobRegistry.healthy
    closed,     \* JobRegistry.closed
    files,      \* files[o]: the archive at output path o, or Absent
    verifying,  \* verifying[j]: identity read by a record call, not yet committed
    acked,      \* history: the job number a client was given for <<owner, key>>
    published,  \* history: jobs whose worker published its archive
    tampered    \* history: jobs whose published archive somebody else removed

registryVars == <<mem, disk, up, healthy, closed, verifying, acked>>
envVars == <<files, published, tampered>>
vars == <<registryVars, envVars>>

\* How a commit can end: stored; refused before the rename (encoding limit,
\* temporary file, rename); or renamed but the directory sync failed.
CommitOutcomes == {"ok", "refused", "unsynced"}

-----------------------------------------------------------------------------
Init ==
    /\ mem = EmptyState
    /\ disk = EmptyState
    /\ up = TRUE
    /\ healthy = TRUE
    /\ closed = FALSE
    /\ files = [o \in Outputs |-> Absent]
    /\ verifying = [j \in JobIds |-> NoArchive]
    /\ acked = [ik \in IndexKeys |-> 0]
    /\ published = {}
    /\ tampered = {}

\* trim_retained_events
TrimRetained(s) ==
    [s EXCEPT !.jobs = [j \in JobIds |->
        IF s.jobs[j] = NoJob THEN NoJob
        ELSE [s.jobs[j] EXCEPT !.events = TrimEvents(s.jobs[j].events)]]]

\* Mutant: publishes in memory only after the directory sync.
CommitMemoryLast(next, io) ==
    LET s == TrimRetained(next)
        renamed == io # "refused" /\ ValidState(s, TRUE)
    IN  /\ disk' = IF renamed THEN s ELSE disk
        /\ mem' = IF renamed /\ io = "ok" THEN s ELSE mem
        /\ healthy' = (healthy /\ renamed /\ io = "ok")

\* Mutant: a failed rename is not noticed.
CommitUnnoticed(next, io) ==
    LET s == TrimRetained(next)
        renamed == io # "refused" /\ ValidState(s, TRUE)
    IN  /\ disk' = IF renamed THEN s ELSE disk
        /\ mem' = IF ValidState(s, TRUE) THEN s ELSE mem
        /\ healthy' = (healthy /\ ValidState(s, TRUE) /\ io # "unsynced")

\* commit: trim, validate, encode, rename, publish in memory, sync the directory.
\* Any error marks the registry unhealthy, an error after the rename included.
Commit(next, io) ==
    LET s == TrimRetained(next)
        renamed == io # "refused" /\ ValidState(s, TRUE)
    IN  /\ disk' = IF renamed THEN s ELSE disk
        /\ mem' = IF renamed THEN s ELSE mem
        /\ healthy' = (healthy /\ renamed /\ io = "ok")

WithJob(s, j, job) == [s EXCEPT !.jobs = [s.jobs EXCEPT ![j] = job]]

\* update_owned for the job's own session; any other owner gets job_not_found.
UpdateOwned(j, job, io) ==
    /\ Commit(WithJob(mem, j, job), io)
    /\ UNCHANGED <<up, closed>>

Live(j) == up /\ healthy /\ j \in Retained(mem)

-----------------------------------------------------------------------------
(* Calls of the registry.                                                  *)

OwnedNonterminal(owner) == {j \in Nonterminal(mem) : mem.jobs[j].owner = owner}

\* next_job.checked_add(1)
JobNumberLeft == mem.next_job < MaxJobNumber

\* submit_with_limit of an unused key.
Submit(owner, key, params, io) ==
    LET ik == <<owner, key>>
        j == mem.next_job
        next == [next_job |-> j + 1,
                 jobs |-> [mem.jobs EXCEPT ![j] = NewJob(owner, key, params)],
                 idempotency |-> [mem.idempotency EXCEPT ![ik] = j]]
    IN  /\ up /\ ~closed /\ healthy
        /\ mem.idempotency[ik] = 0
        /\ Cardinality(Retained(mem)) < MaxRetained
        /\ Cardinality(OwnedNonterminal(owner)) < MaxNonterminal
        /\ JobNumberLeft
        /\ Commit(next, io)
        /\ acked' = IF healthy' THEN [acked EXCEPT ![ik] = j] ELSE acked
        /\ UNCHANGED <<up, closed, verifying, envVars>>

\* submit_with_limit of a used key with the same parameters: the stored job.
Replay(owner, key, params) ==
    LET ik == <<owner, key>>
    IN  /\ up /\ ~closed /\ healthy
        /\ mem.idempotency[ik] # 0
        /\ mem.jobs[mem.idempotency[ik]].params = params
        /\ acked' = [acked EXCEPT ![ik] = mem.idempotency[ik]]
        /\ UNCHANGED <<mem, disk, up, healthy, closed, verifying, envVars>>

\* transition(Running): a pack notes whether its output path is free.
StartRunning(j, io) ==
    /\ Live(j)
    /\ ValidTransition(mem.jobs[j].state, "running")
    /\ LET job == mem.jobs[j]
           outputAbsent == IsPack(job) /\ files[Output(job)] = Absent
       IN  UpdateOwned(j, Running(job, outputAbsent), io)
    /\ UNCHANGED <<verifying, acked, envVars>>

RequestCancel(j, io) ==
    /\ Live(j)
    /\ mem.jobs[j].state \notin {"completed", "failed"}
    /\ UpdateOwned(j, CancelRequested(mem.jobs[j]), io)
    /\ UNCHANGED <<verifying, acked, envVars>>

FinishCancelled(j, io) ==
    /\ Live(j)
    /\ mem.jobs[j].state = "cancelling"
    /\ UpdateOwned(j, Cancelled(mem.jobs[j]), io)
    /\ UNCHANGED <<verifying, acked, envVars>>

Complete(j, io) ==
    /\ Live(j)
    /\ mem.jobs[j].state \in {"queued", "running", "cancelling"}
    /\ PublicationRecorded(mem.jobs[j])
    /\ UpdateOwned(j, Completed(mem.jobs[j]), io)
    /\ UNCHANGED <<verifying, acked, envVars>>

Fail(j, error, io) ==
    /\ Live(j)
    /\ ~IsTerminal(mem.jobs[j])
    /\ UpdateOwned(j, Failed(mem.jobs[j], error), io)
    /\ UNCHANGED <<verifying, acked, envVars>>

\* identify fails unless there is an archive.
ArchiveFound(o) == files[o] # Absent

\* record_pack_publication, outside the lock: verify the archive at the output.
\* The worker asks for it only after it published.
RecordVerify(j) ==
    /\ up
    /\ j \in Retained(mem) \cap published
    /\ IsPack(mem.jobs[j])
    /\ mem.jobs[j].state \in {"running", "cancelling"}
    /\ verifying[j] = NoArchive
    /\ ArchiveFound(Output(mem.jobs[j]))
    /\ verifying' = [verifying EXCEPT ![j] = files[Output(mem.jobs[j])]]
    /\ UNCHANGED <<mem, disk, up, healthy, closed, acked, envVars>>

\* record_pack_publication, in the transaction: check everything again.  A
\* repeated call with the same identity commits the same state; refusals of
\* the closure leave the store alone.
RecordCommit(j, io) ==
    LET job == mem.jobs[j]
        accepted == /\ job.state \in {"running", "cancelling"}
                    /\ job.marker.present /\ job.marker.output_was_absent
                    /\ job.marker.published_archive \in {NoArchive, verifying[j]}
    IN  /\ Live(j)
        /\ verifying[j] # NoArchive
        /\ IF accepted
           THEN UpdateOwned(j, IF job.marker.published_archive = NoArchive
                               THEN Published(job, verifying[j]) ELSE job, io)
           ELSE UNCHANGED <<mem, disk, up, healthy, closed>>
        /\ verifying' = [verifying EXCEPT ![j] = NoArchive]
        /\ UNCHANGED <<acked, envVars>>

\* expire_deadline commits only when the job was queued or running.
ExpireDeadline(j, io) ==
    /\ Live(j)
    /\ mem.jobs[j].state \in {"queued", "running"}
    /\ UpdateOwned(j, DeadlineExpired(mem.jobs[j]), io)
    /\ UNCHANGED <<verifying, acked, envVars>>

\* close_and_cancel_all also runs on an unhealthy registry; it commits only
\* when some job changed.
CloseAndCancelAll(io) ==
    LET next == [mem EXCEPT !.jobs = [j \in JobIds |->
                    IF j \in Nonterminal(mem) THEN ShutDown(mem.jobs[j]) ELSE mem.jobs[j]]]
    IN  /\ up
        /\ closed' = TRUE
        /\ IF next # mem THEN Commit(next, io) ELSE UNCHANGED <<mem, disk, healthy>>
        /\ UNCHANGED <<up, verifying, acked, envVars>>

-----------------------------------------------------------------------------
(* The process and its environment.                                        *)

\* The daemon dies; memory and the calls in flight are gone, and the next
\* process starts with fresh flags.
Crash ==
    /\ up
    /\ up' = FALSE
    /\ mem' = EmptyState
    /\ healthy' = TRUE
    /\ closed' = FALSE
    /\ verifying' = [j \in JobIds |-> NoArchive]
    /\ UNCHANGED <<disk, acked, envVars>>

\* What open_with_policy makes of the stored state.
RecoveredState(s) ==
    [s EXCEPT !.jobs = [j \in JobIds |->
        IF s.jobs[j] = NoJob THEN NoJob
        ELSE Recovered(s.jobs[j], IF IsPack(s.jobs[j]) THEN files[Output(s.jobs[j])]
                                                       ELSE Absent)]]

\* open_with_policy: fails closed on an invalid store; persists the recovered
\* state when it differs, and a failed persist fails the start.
Open(io) ==
    LET s == RecoveredState(disk)
        changed == s # disk
        opened == changed => io = "ok"
    IN  /\ ~up
        /\ ValidState(disk, FALSE)
        /\ ValidState(s, TRUE)
        /\ io # "refused"
        /\ disk' = s
        /\ up' = opened
        /\ mem' = IF opened THEN s ELSE EmptyState
        /\ UNCHANGED <<healthy, closed, verifying, acked, envVars>>

\* The worker of a pack publishes with no-clobber at its output path.
WorkerPublish(j) ==
    /\ up
    /\ j \in Retained(mem) \ published
    /\ IsPack(mem.jobs[j])
    /\ mem.jobs[j].state \in {"running", "cancelling"}
    /\ files[Output(mem.jobs[j])] = Absent
    /\ files' = [files EXCEPT ![Output(mem.jobs[j])] = j]
    /\ published' = published \cup {j}
    /\ UNCHANGED <<registryVars, tampered>>

\* Somebody else writes a valid archive at a free path, or removes a file.
ForeignArchive(o) ==
    /\ files[o] = Absent
    /\ files' = [files EXCEPT ![o] = Foreign]
    /\ UNCHANGED <<registryVars, published, tampered>>

RemoveFile(o) ==
    /\ files[o] # Absent
    /\ files' = [files EXCEPT ![o] = Absent]
    /\ tampered' = tampered \cup ({files[o]} \cap JobIds)
    /\ UNCHANGED <<registryVars, published>>

Calls(io) ==
    \/ \E owner \in Owners, key \in Keys, params \in Params : Submit(owner, key, params, io)
    \/ \E j \in JobIds :
        \/ StartRunning(j, io)
        \/ RequestCancel(j, io)
        \/ FinishCancelled(j, io)
        \/ Complete(j, io)
        \/ \E error \in Errors \ {"none"} : Fail(j, error, io)
        \/ RecordCommit(j, io)
        \/ ExpireDeadline(j, io)
    \/ CloseAndCancelAll(io)
    \/ Open(io)

Next ==
    \/ \E io \in CommitOutcomes : Calls(io)
    \/ \E owner \in Owners, key \in Keys, params \in Params : Replay(owner, key, params)
    \/ \E j \in JobIds : RecordVerify(j) \/ WorkerPublish(j)
    \/ \E o \in Outputs : ForeignArchive(o) \/ RemoveFile(o)
    \/ Crash

Spec == Init /\ [][Next]_vars

-----------------------------------------------------------------------------
(* Properties.                                                             *)

\* Types of the registry's state and of its environment.
TypeOK ==
    /\ mem \in PersistentState
    /\ disk \in PersistentState
    /\ up \in BOOLEAN /\ healthy \in BOOLEAN /\ closed \in BOOLEAN
    /\ files \in [Outputs -> Archives \cup {Absent}]
    /\ verifying \in [JobIds -> Archives \cup {NoArchive}]
    /\ acked \in [IndexKeys -> JobNumbers]
    /\ published \subseteq JobIds
    /\ tampered \subseteq JobIds

\* The daemon can always be restarted: whatever calls, faults and crashes came
\* before, jobs.json passes validate_state, and so does what open_with_policy
\* turns it into.  The fail-closed path is never taken on the daemon's own file.
StoreAlwaysLoads ==
    /\ ValidState(disk, TRUE)
    /\ ValidState(RecoveredState(disk), TRUE)

\* A running registry never continues from a stale snapshot: after every commit,
\* failed ones included, memory and jobs.json are the same state.
MemoryIsDisk == up => mem = disk

\* A job number given to a client for its idempotency key stays the job of that
\* key in jobs.json, through faults and restarts.
AckedIsDurable ==
    \A ik \in IndexKeys : acked[ik] # 0 => disk.idempotency[ik] = acked[ik]

\* A completed pack, unless somebody removed its archive, has its own archive at
\* its output path and recorded that identity: neither completion nor recovery
\* after a crash claims an archive that merely appeared at the path.
CompletedPackOwnsArchive ==
    \A j \in Retained(disk) \ tampered :
        IsPack(disk.jobs[j]) /\ disk.jobs[j].state = "completed" =>
            /\ disk.jobs[j].marker.published_archive = j
            /\ files[Output(disk.jobs[j])] = j

\* Terminal state is immutable: once jobs.json says how a job ended, no call,
\* fault, crash or recovery changes the job again (events included).
TerminalImmutable ==
    [][\A j \in Retained(disk) : IsTerminal(disk.jobs[j]) => disk'.jobs[j] = disk.jobs[j]]_vars

\* jobs.json implements the ledger: a line per idempotency key, written once
\* under a fresh job number, settled at most once, never erased.
LedgerLine(ik) ==
    IF disk.idempotency[ik] = 0 THEN [job |-> 0]
    ELSE LET job == disk.jobs[disk.idempotency[ik]]
         IN  [job |-> disk.idempotency[ik], params |-> job.params,
              outcome |-> IF IsTerminal(job) THEN job.state ELSE "pending"]

Ledger == INSTANCE JobLedger WITH
    LineKeys <- IndexKeys, LineParams <- Params, LineJobs <- JobIds,
    ledger <- [ik \in IndexKeys |-> LedgerLine(ik)]

\* The refinement, as a property TLC can be given by name.
ImplementsLedger == Ledger!LedgerSpec
=============================================================================
