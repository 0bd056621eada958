------------------------------ MODULE JobStore ------------------------------
(***************************************************************************)
(* The job store's data: PersistentState (jobs.json), StoredJob, the       *)
(* publication marker of a pack, the validation every load and commit      *)
(* runs, and the update each registry operation applies to one job.        *)
(* Source: crates/pithos-daemon/src/store.rs.                              *)
(*                                                                         *)
(* A submission's method, priority and params_hash are always compared     *)
(* together, so one member of Params stands for the three.  The string     *)
(* "owner:key" of the idempotency index is the pair <<owner, key>>: owner  *)
(* ids hold no colon, so the encoding is injective.  Timestamps, phases    *)
(* and progress units are not kept.                                        *)
(***************************************************************************)
EXTENDS Integers, Sequences, FiniteSets

CONSTANTS
    Owners,          \* session ids
    Keys,            \* idempotency keys
    Params,          \* (method, priority, params_hash) of a submission
    PackParams,      \* the members of Params whose operation is Pack
    Outputs,         \* output paths of packs
    OutputOf,        \* OutputOf[p]: the output path of pack parameters p
    MaxJobNumber,    \* largest value of next_job (u64::MAX in the code)
    MaxEvents,       \* max_events_per_job
    MaxRetained,     \* max_retained_jobs
    MaxNonterminal   \* max_nonterminal_for_owner

ASSUME JobStoreAssumption ==
    /\ IsFiniteSet(Owners) /\ IsFiniteSet(Keys)
    /\ PackParams \subseteq Params
    /\ OutputOf \in [PackParams -> Outputs]
    /\ MaxJobNumber \in Nat \ {0}
    /\ MaxEvents \in Nat \ {0}
    /\ MaxRetained \in Nat \ {0}
    /\ MaxNonterminal \in Nat

\* next_job.checked_add(1) must succeed, so the largest number is never a job.
JobIds == 1 .. (MaxJobNumber - 1)
JobNumbers == 0 .. (MaxJobNumber - 1)   \* 0 is "no such entry" in the index
IndexKeys == Owners \X Keys

TerminalStates == {"completed", "failed", "cancelled"}
JobStates == {"queued", "running", "cancelling"} \cup TerminalStates

-----------------------------------------------------------------------------
(* Archives: a pack's archive is identified by the job that wrote it (the   *)
(* code compares length and BLAKE3 root); 0 is an archive nobody here wrote.*)
Foreign == 0
Absent == -1
Archives == {Foreign} \cup JobIds
NoArchive == -2

NoMarker == [output_was_absent |-> FALSE, published_archive |-> NoArchive, present |-> FALSE]
Markers == [output_was_absent : BOOLEAN, published_archive : Archives \cup {NoArchive}, present : BOOLEAN]

\* Kinds of JsonRpcError: fail() tells only Cancelled from the others.
Errors == {"none", "cancelled", "other"}
Events == [sequence : Nat, state : JobStates]

Job == [owner : Owners, key : Keys, params : Params, state : JobStates,
        result : {"none", "value"}, error : Errors,
        events : Seq(Events), next_sequence : Nat, marker : Markers]

NoJob == [state |-> "none"]
IsTerminal(job) == job.state \in TerminalStates

\* PersistentState; a missing job is NoJob, a missing index entry is 0.
PersistentState == [next_job : 1 .. MaxJobNumber,
                    jobs : [JobIds -> Job \cup {NoJob}],
                    idempotency : [IndexKeys -> JobNumbers]]

EmptyState == [next_job |-> 1,
               jobs |-> [j \in JobIds |-> NoJob],
               idempotency |-> [ik \in IndexKeys |-> 0]]

Retained(s) == {j \in JobIds : s.jobs[j] # NoJob}
Indexed(s) == {ik \in IndexKeys : s.idempotency[ik] # 0}
Nonterminal(s) == {j \in Retained(s) : ~IsTerminal(s.jobs[j])}
IsPack(job) == job.params \in PackParams
Output(job) == OutputOf[job.params]

-----------------------------------------------------------------------------
(* Events.  append_event numbers the event, then drops the oldest ones     *)
(* beyond the policy's limit.                                              *)
TrimEvents(events) ==
    LET drop == IF Len(events) > MaxEvents THEN Len(events) - MaxEvents ELSE 0
    IN  [i \in 1 .. (Len(events) - drop) |-> events[i + drop]]

AppendEvent(job) ==
    [job EXCEPT
        !.next_sequence = job.next_sequence + 1,
        !.events = TrimEvents(Append(job.events,
                        [sequence |-> job.next_sequence, state |-> job.state]))]

-----------------------------------------------------------------------------
(* validate_state and its parts.                                           *)
ValidJobEvents(job, enforceRetention) ==
    LET n == Len(job.events)
    IN  /\ n > 0
        /\ enforceRetention => n <= MaxEvents
        /\ \A i \in 1 .. n : job.events[i].sequence > 0
        /\ \A i \in 1 .. (n - 1) : job.events[i].sequence < job.events[i + 1].sequence
        /\ job.next_sequence = job.events[n].sequence + 1
        /\ job.events[n].state = job.state

ValidJobResult(job) ==
    /\ job.state = "completed" => job.result # "none" /\ job.error = "none"
    /\ job.state = "failed" => job.result = "none" /\ job.error # "none"
    /\ job.state = "cancelled" => job.result = "none"
    /\ ~IsTerminal(job) => job.result = "none" /\ job.error = "none"

ValidMarker(job) ==
    job.marker.present =>
        /\ IsPack(job)
        /\ job.state # "queued"
        /\ job.marker.published_archive # NoArchive => job.marker.output_was_absent

ValidState(s, enforceRetention) ==
    /\ enforceRetention => Cardinality(Retained(s)) <= MaxRetained
    /\ Cardinality(Indexed(s)) = Cardinality(Retained(s))
    /\ \A j \in Retained(s) :
        LET job == s.jobs[j]
        IN  /\ s.idempotency[<<job.owner, job.key>>] = j
            /\ ValidJobEvents(job, enforceRetention)
            /\ ValidJobResult(job)
            /\ ValidMarker(job)
            /\ j < s.next_job
    /\ \A ik \in Indexed(s) :
        LET j == s.idempotency[ik]
        IN  /\ j \in Retained(s)
            /\ ik = <<s.jobs[j].owner, s.jobs[j].key>>

-----------------------------------------------------------------------------
(* What each operation does to one job (the closures given to             *)
(* update_owned, and the loops of open and close_and_cancel_all).          *)

NewJob(owner, key, params) ==
    AppendEvent([owner |-> owner, key |-> key, params |-> params,
                 state |-> "queued", result |-> "none", error |-> "none",
                 events |-> <<>>, next_sequence |-> 1, marker |-> NoMarker])

\* valid_transition: what `transition` accepts (the service only asks for Running).
ValidTransition(from, to) ==
    <<from, to>> \in
        {<<"queued", "running">>, <<"queued", "cancelled">>, <<"running", "cancelling">>,
         <<"running", "completed">>, <<"running", "failed">>,
         <<"cancelling", "cancelled">>, <<"cancelling", "failed">>}

\* prepare_pack_publication_marker, given whether the output path is free now.
PrepareMarker(job, outputAbsent) ==
    IF IsPack(job)
    THEN [present |-> TRUE, output_was_absent |-> outputAbsent, published_archive |-> NoArchive]
    ELSE NoMarker

Running(job, outputAbsent) ==
    AppendEvent([job EXCEPT !.state = "running", !.marker = PrepareMarker(job, outputAbsent)])

CancelRequested(job) ==
    CASE job.state = "queued"  -> AppendEvent([job EXCEPT !.state = "cancelled", !.error = "cancelled"])
      [] job.state = "running" -> AppendEvent([job EXCEPT !.state = "cancelling"])
      [] OTHER                 -> job

Cancelled(job) == AppendEvent([job EXCEPT !.state = "cancelled", !.error = "cancelled"])

Completed(job) ==
    AppendEvent([job EXCEPT !.state = "completed", !.result = "value", !.error = "none"])

\* require_recorded_pack_publication
PublicationRecorded(job) ==
    IsPack(job) => /\ job.marker.present
                   /\ job.marker.output_was_absent
                   /\ job.marker.published_archive # NoArchive

Published(job, archive) == AppendEvent([job EXCEPT !.marker.published_archive = archive])

Failed(job, error) ==
    AppendEvent([job EXCEPT !.state = IF error = "cancelled" THEN "cancelled" ELSE "failed",
                            !.result = "none", !.error = error])

DeadlineExpired(job) ==
    CASE job.state = "queued"  -> Failed(job, "other")
      [] job.state = "running" -> AppendEvent([job EXCEPT !.state = "cancelling"])
      [] OTHER                 -> job

ShutDown(job) ==
    CASE job.state = "queued"  -> Failed(job, "cancelled")
      [] job.state = "running" -> AppendEvent([job EXCEPT !.state = "cancelling"])
      [] OTHER                 -> job

\* Mutant: infers ownership from a valid archive at the output path.
RecoversAnyArchive(job, found) ==
    IsPack(job) /\ job.marker.present /\ job.marker.output_was_absent /\ found # Absent

\* recover_pack_archive, given the archive now found at the output path.
RecoversArchive(job, found) ==
    /\ IsPack(job)
    /\ job.marker.present
    /\ job.marker.output_was_absent
    /\ job.marker.published_archive # NoArchive
    /\ found = job.marker.published_archive

\* Mutant: forgets to skip jobs that already ended.
RecoveredAlways(job, found) ==
    IF RecoversArchive(job, found) THEN Completed(job) ELSE Failed(job, "other")

\* Mutant: sets the state but appends no event.
RecoveredSilently(job, found) ==
    IF IsTerminal(job) THEN job
    ELSE [job EXCEPT !.state = "failed", !.error = "other"]

\* The loop of open_with_policy over one job left by an earlier process.
Recovered(job, found) ==
    IF IsTerminal(job)
    THEN [job EXCEPT !.events = TrimEvents(@)]
    ELSE IF RecoversArchive(job, found) THEN Completed(job)
                                        ELSE Failed(job, "other")
=============================================================================
