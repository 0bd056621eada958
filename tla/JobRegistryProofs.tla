------------------------- MODULE JobRegistryProofs -------------------------
EXTENDS JobRegistry, FiniteSetTheorems, TLAPS

\* An empty slot of the jobs map is no job record.
LEMMA NoJobIsNotAJob == ASSUME NEW job \in Job PROVE job # NoJob
  BY DEF Job, NoJob, JobStates, TerminalStates

\* trim_event_history: the result is a history no longer than the limit, and a
\* history within the limit is returned as it is.
LEMMA TrimType ==
  ASSUME NEW ev \in Seq(Events)
  PROVE  /\ TrimEvents(ev) \in Seq(Events)
         /\ Len(TrimEvents(ev)) <= MaxEvents
         /\ Len(ev) > 0 => Len(TrimEvents(ev)) > 0
         /\ Len(ev) <= MaxEvents => TrimEvents(ev) = ev
<1> DEFINE drop == IF Len(ev) > MaxEvents THEN Len(ev) - MaxEvents ELSE 0
           n == Len(ev) - drop
<1>1. n \in Nat /\ n <= MaxEvents /\ drop \in Nat /\ (Len(ev) > 0 => n > 0)
  BY JobStoreAssumption
<1>2. TrimEvents(ev) \in [1 .. n -> Events]
  BY <1>1 DEF TrimEvents
<1>3. TrimEvents(ev) \in Seq(Events) /\ Len(TrimEvents(ev)) = n
  BY <1>1, <1>2
<1>4. ASSUME Len(ev) <= MaxEvents PROVE TrimEvents(ev) = ev
  BY <1>4, JobStoreAssumption DEF TrimEvents
<1> QED BY <1>1, <1>3, <1>4

\* append_event changes only the history and the next sequence number of a job.
LEMMA AppendEventType ==
  ASSUME NEW job \in Job
  PROVE  LET upd == AppendEvent(job)
         IN  /\ upd \in Job
             /\ upd.owner = job.owner /\ upd.key = job.key /\ upd.params = job.params
             /\ upd.state = job.state /\ upd.result = job.result
             /\ upd.error = job.error /\ upd.marker = job.marker
             /\ Len(upd.events) <= MaxEvents
<1> DEFINE ev == Append(job.events, [sequence |-> job.next_sequence, state |-> job.state])
<1>1. job.events \in Seq(Events) /\ job.next_sequence \in Nat /\ job.next_sequence + 1 \in Nat
  BY DEF Job
<1>2. ev \in Seq(Events)
  BY <1>1 DEF Job, Events
<1>3. TrimEvents(ev) \in Seq(Events) /\ Len(TrimEvents(ev)) <= MaxEvents
  BY <1>2, TrimType
<1> HIDE DEF ev
<1>4. AppendEvent(job) = [job EXCEPT !.next_sequence = job.next_sequence + 1,
                                     !.events = TrimEvents(ev)]
  BY DEF AppendEvent, ev
<1> HIDE DEF TrimEvents
<1> DEFINE tail == TrimEvents(ev)
           n == job.next_sequence + 1
           upd == AppendEvent(job)
<1>5. n \in Nat /\ tail \in Seq(Events) /\ Len(tail) <= MaxEvents
  BY <1>1, <1>3
<1>6. upd = [job EXCEPT !.next_sequence = n, !.events = tail]
  BY <1>4
<1> HIDE DEF tail, n, upd
<1>7. /\ upd \in Job
      /\ upd.owner = job.owner /\ upd.key = job.key /\ upd.params = job.params
      /\ upd.state = job.state /\ upd.result = job.result
      /\ upd.error = job.error /\ upd.marker = job.marker
      /\ Len(upd.events) <= MaxEvents
  BY <1>5, <1>6 DEF Job
<1> QED BY <1>7 DEF upd

\* The event history before append_event: numbered upwards, ready for the next.
EventsReady(job) ==
    LET n == Len(job.events)
    IN  /\ job.next_sequence > 0
        /\ \A i \in 1 .. n : job.events[i].sequence > 0
        /\ \A i \in 1 .. (n - 1) : job.events[i].sequence < job.events[i + 1].sequence
        /\ n > 0 => job.next_sequence = job.events[n].sequence + 1

\* A history validate_job_events accepts leaves room for one more event.
LEMMA ValidEventsAreReady ==
  ASSUME NEW job \in Job, ValidJobEvents(job, TRUE)
  PROVE  EventsReady(job)
<1> DEFINE n == Len(job.events)
<1>1. n \in Nat /\ \A i \in 1 .. n : job.events[i] \in Events
  BY DEF Job
<1>2. n > 0 /\ job.events[n].sequence \in Nat /\ job.events[n].sequence > 0
  BY <1>1 DEF ValidJobEvents, Events
<1>3. job.next_sequence = job.events[n].sequence + 1
  BY DEF ValidJobEvents
<1> QED BY <1>2, <1>3 DEF ValidJobEvents, EventsReady

\* append_event keeps the numbering that validate_job_events asks for, also
\* when it drops the oldest event.
LEMMA AppendEventValid ==
  ASSUME NEW job \in Job, EventsReady(job)
  PROVE  ValidJobEvents(AppendEvent(job), TRUE)
<1> DEFINE e == [sequence |-> job.next_sequence, state |-> job.state]
           ev == Append(job.events, e)
           n == Len(job.events)
           drop == IF Len(ev) > MaxEvents THEN Len(ev) - MaxEvents ELSE 0
           tail == TrimEvents(ev)
           upd == AppendEvent(job)
<1>1. job.events \in Seq(Events) /\ job.next_sequence \in Nat /\ e \in Events
  BY DEF Job, Events
<1>2. ev \in Seq(Events) /\ Len(ev) = n + 1 /\ ev[n + 1] = e /\ n \in Nat
      /\ \A i \in 1 .. n : ev[i] = job.events[i]
  BY <1>1
<1> HIDE DEF ev
<1>3. /\ \A i \in 1 .. (n + 1) : ev[i].sequence \in Nat /\ ev[i].sequence > 0
      /\ \A i \in 1 .. n : ev[i].sequence < ev[i + 1].sequence
  <2>1. \A i \in 1 .. (n + 1) : ev[i] \in Events /\ ev[i].sequence \in Nat
    <3> HIDE DEF n, e
    <3>1. \A i \in 1 .. (n + 1) : ev[i] \in Events
      BY <1>2
    <3> QED BY <3>1 DEF Events
  <2>2. \A i \in 1 .. (n + 1) : ev[i].sequence > 0
    BY <1>2, <1>1 DEF EventsReady
  <2>3. \A i \in 1 .. (n - 1) : ev[i].sequence < ev[i + 1].sequence
    BY <1>2 DEF EventsReady
  <2>4. n > 0 => ev[n].sequence < ev[n + 1].sequence
    BY <1>2, <1>1, <2>1 DEF EventsReady
  <2> QED BY <1>2, <2>1, <2>2, <2>3, <2>4
<1> USE DEF ev
<1>4. upd.events = tail /\ upd.next_sequence = job.next_sequence + 1 /\ upd.state = job.state
  BY DEF AppendEvent, Job
<1> HIDE DEF ev
<1> DEFINE k == Len(ev) - drop
<1>5. /\ drop \in Nat /\ k \in Nat /\ k > 0 /\ k <= MaxEvents /\ k + drop = n + 1
  <2>1. n \in Nat /\ Len(ev) = n + 1 /\ MaxEvents \in Nat /\ MaxEvents > 0
    BY <1>2, JobStoreAssumption
  <2> HIDE DEF n
  <2> QED BY ONLY <2>1 DEF k, drop
<1>6. tail = [i \in 1 .. k |-> ev[i + drop]]
  BY DEF TrimEvents
<1>7. Len(tail) = k /\ \A i \in 1 .. k : tail[i] = ev[i + drop]
  <2> HIDE DEF drop, tail, k
  <2>1. \A i \in 1 .. k : ev[i + drop] \in Events
    <3> TAKE i \in 1 .. k
    <3>1. i + drop \in 1 .. Len(ev)
      BY <1>2, <1>5
    <3> QED BY <1>2, <3>1
  <2> QED BY <1>5, <1>6, <2>1
<1>8. tail[k] = e
  <2> HIDE DEF drop, tail, k
  <2> QED BY <1>2, <1>5, <1>7
<1> HIDE DEF ev, tail, upd, drop, k
<1>10. \A i \in 1 .. k : tail[i].sequence > 0
  BY <1>2, <1>3, <1>5, <1>7
<1>11. \A i \in 1 .. (k - 1) : tail[i].sequence < tail[i + 1].sequence
  <2> TAKE i \in 1 .. (k - 1)
  <2>1. i + drop \in 1 .. n /\ i \in 1 .. k /\ i + 1 \in 1 .. k /\ (i + 1) + drop = (i + drop) + 1
    BY <1>2, <1>5
  <2>2. tail[i] = ev[i + drop] /\ tail[i + 1] = ev[(i + drop) + 1]
    BY <1>7, <2>1
  <2> QED BY <1>3, <2>1, <2>2
<1>12. tail[k].sequence = job.next_sequence /\ tail[k].state = job.state
  BY <1>8
<1> QED BY <1>4, <1>5, <1>7, <1>10, <1>11, <1>12 DEF ValidJobEvents, upd

-----------------------------------------------------------------------------
(* What every registry operation keeps of one job.                         *)

WellFormed(job) == ValidJobEvents(job, TRUE) /\ ValidJobResult(job) /\ ValidMarker(job)

\* `new` is a well-formed version of `job` for the same submission.
Successor(job, new) ==
    /\ new \in Job
    /\ WellFormed(new)
    /\ new.owner = job.owner /\ new.key = job.key /\ new.params = job.params

\* Appending an event alone yields a well-formed successor of the job.
LEMMA AppendEventSuccessor ==
  ASSUME NEW job \in Job, EventsReady(job), ValidJobResult(job), ValidMarker(job)
  PROVE  Successor(job, AppendEvent(job)) /\ AppendEvent(job).state = job.state
<1> DEFINE upd == AppendEvent(job)
<1>1. /\ upd \in Job
      /\ upd.owner = job.owner /\ upd.key = job.key /\ upd.params = job.params
      /\ upd.state = job.state /\ upd.result = job.result
      /\ upd.error = job.error /\ upd.marker = job.marker
  BY AppendEventType
<1>2. ValidJobEvents(upd, TRUE)
  BY AppendEventValid
<1> HIDE DEF upd
<1>3. ValidJobResult(upd) /\ ValidMarker(upd)
  BY <1>1 DEF ValidJobResult, ValidMarker, IsTerminal, IsPack
<1>4. Successor(job, upd)
  BY <1>1, <1>2, <1>3 DEF Successor, WellFormed
<1> QED BY <1>1, <1>4 DEF upd

\* Changing the other fields of a job leaves its history ready for
\* append_event.
LEMMA EventsReadyFrame ==
  ASSUME NEW job \in Job, NEW mid \in Job, EventsReady(job),
         mid.events = job.events, mid.next_sequence = job.next_sequence
  PROVE  EventsReady(mid)
  BY DEF EventsReady

\* A job without a publication marker.
LEMMA NoMarkerType == NoMarker \in Markers /\ ~NoMarker.present
  BY DEF NoMarker, Markers

\* prepare_pack_publication_marker sets a marker for packs only, and none of
\* them records an archive.
LEMMA PrepareMarkerType ==
  ASSUME NEW job \in Job, NEW absent \in BOOLEAN
  PROVE  /\ PrepareMarker(job, absent) \in Markers
         /\ PrepareMarker(job, absent).present => IsPack(job)
         /\ PrepareMarker(job, absent).published_archive = NoArchive
  BY DEF PrepareMarker, Markers, NoMarker

\* The general step: change the state, result, error and marker, append an event.
LEMMA ChangedSuccessor ==
  ASSUME NEW job \in Job, WellFormed(job),
         NEW mid \in Job,
         mid.owner = job.owner, mid.key = job.key, mid.params = job.params,
         mid.events = job.events, mid.next_sequence = job.next_sequence,
         ValidJobResult(mid), ValidMarker(mid)
  PROVE  Successor(job, AppendEvent(mid)) /\ AppendEvent(mid).state = mid.state
<1>1. EventsReady(job)
  BY ValidEventsAreReady DEF WellFormed
<1>2. EventsReady(mid)
  BY <1>1, EventsReadyFrame
<1>3. Successor(mid, AppendEvent(mid)) /\ AppendEvent(mid).state = mid.state
  BY <1>2, AppendEventSuccessor
<1> QED BY <1>3 DEF Successor

\* transition from queued to running.
LEMMA RunningSuccessor ==
  ASSUME NEW job \in Job, WellFormed(job), job.state = "queued", NEW absent \in BOOLEAN
  PROVE  Successor(job, Running(job, absent))
<1> DEFINE mark == PrepareMarker(job, absent)
           mid == [job EXCEPT !.state = "running", !.marker = mark]
<1>1. mark \in Markers /\ (mark.present => IsPack(job)) /\ mark.published_archive = NoArchive
  BY PrepareMarkerType
<1> HIDE DEF mark
<1>2. /\ mid \in Job
      /\ mid.owner = job.owner /\ mid.key = job.key /\ mid.params = job.params
      /\ mid.events = job.events /\ mid.next_sequence = job.next_sequence
      /\ mid.state = "running" /\ mid.result = job.result /\ mid.error = job.error
      /\ mid.marker = mark
  BY <1>1 DEF Job, JobStates
<1> HIDE DEF mid
<1>3. ValidJobResult(mid) /\ ValidMarker(mid)
  BY <1>1, <1>2 DEF WellFormed, ValidJobResult, ValidMarker, IsTerminal, TerminalStates, IsPack
<1>4. Successor(job, AppendEvent(mid))
  BY <1>2, <1>3, ChangedSuccessor
<1> QED BY <1>4 DEF Running, mid, mark

\* The running job of request_cancel, expire_deadline and close_and_cancel_all
\* turns cancelling.
LEMMA CancellingSuccessor ==
  ASSUME NEW job \in Job, WellFormed(job),
         job.state = "running"
  PROVE  Successor(job, AppendEvent([job EXCEPT !.state = "cancelling"]))
<1> DEFINE mid == [job EXCEPT !.state = "cancelling"]
<1>1. /\ mid \in Job
      /\ mid.owner = job.owner /\ mid.key = job.key /\ mid.params = job.params
      /\ mid.events = job.events /\ mid.next_sequence = job.next_sequence
      /\ mid.state = "cancelling" /\ mid.result = job.result
      /\ mid.error = job.error /\ mid.marker = job.marker
  BY DEF Job, JobStates, TerminalStates, Errors
<1> HIDE DEF mid
<1>2. ValidJobResult(mid) /\ ValidMarker(mid)
  BY <1>1 DEF WellFormed, ValidJobResult, ValidMarker, IsTerminal, TerminalStates, IsPack
<1>3. Successor(job, AppendEvent(mid)) /\ AppendEvent(mid).state = mid.state
  BY <1>1, <1>2, ChangedSuccessor
<1> QED BY <1>1, <1>3 DEF mid

\* finish_cancelled, and the queued job of request_cancel and
\* close_and_cancel_all.
LEMMA CancelledSuccessor ==
  ASSUME NEW job \in Job, WellFormed(job),
         job.state \in {"queued", "running", "cancelling"}
  PROVE  Successor(job, Cancelled(job)) /\ IsTerminal(Cancelled(job))
<1> DEFINE mid == [job EXCEPT !.state = "cancelled", !.error = "cancelled"]
<1>1. /\ mid \in Job
      /\ mid.owner = job.owner /\ mid.key = job.key /\ mid.params = job.params
      /\ mid.events = job.events /\ mid.next_sequence = job.next_sequence
      /\ mid.state = "cancelled" /\ mid.result = job.result
      /\ mid.error = "cancelled" /\ mid.marker = job.marker
  BY DEF Job, JobStates, TerminalStates, Errors
<1> HIDE DEF mid
<1>2. ValidJobResult(mid) /\ ValidMarker(mid)
  BY <1>1 DEF WellFormed, ValidJobResult, ValidMarker, IsTerminal, TerminalStates, IsPack
<1>3. Successor(job, AppendEvent(mid)) /\ AppendEvent(mid).state = mid.state
  BY <1>1, <1>2, ChangedSuccessor
<1> QED BY <1>1, <1>3 DEF Cancelled, mid, IsTerminal, TerminalStates

\* complete stores a result that validate_job_result accepts.
LEMMA CompletedSuccessor ==
  ASSUME NEW job \in Job, WellFormed(job)
  PROVE  Successor(job, Completed(job)) /\ IsTerminal(Completed(job))
<1> DEFINE mid == [job EXCEPT !.state = "completed", !.result = "value", !.error = "none"]
<1>1. /\ mid \in Job
      /\ mid.owner = job.owner /\ mid.key = job.key /\ mid.params = job.params
      /\ mid.events = job.events /\ mid.next_sequence = job.next_sequence
      /\ mid.state = "completed" /\ mid.result = "value"
      /\ mid.error = "none" /\ mid.marker = job.marker
  BY DEF Job, JobStates, TerminalStates, Errors
<1> HIDE DEF mid
<1>2. ValidJobResult(mid) /\ ValidMarker(mid)
  BY <1>1 DEF WellFormed, ValidJobResult, ValidMarker, IsTerminal, TerminalStates, IsPack
<1>3. Successor(job, AppendEvent(mid)) /\ AppendEvent(mid).state = mid.state
  BY <1>1, <1>2, ChangedSuccessor
<1> QED BY <1>1, <1>3 DEF Completed, mid, IsTerminal, TerminalStates

\* fail stores an error that validate_job_result accepts.
LEMMA FailedSuccessor ==
  ASSUME NEW job \in Job, WellFormed(job),
         NEW error \in Errors \ {"none"}
  PROVE  Successor(job, Failed(job, error)) /\ IsTerminal(Failed(job, error))
<1> DEFINE mid == [job EXCEPT !.state = IF error = "cancelled" THEN "cancelled" ELSE "failed",
                               !.result = "none", !.error = error]
<1>1. /\ mid \in Job
      /\ mid.owner = job.owner /\ mid.key = job.key /\ mid.params = job.params
      /\ mid.events = job.events /\ mid.next_sequence = job.next_sequence
      /\ mid.state = (IF error = "cancelled" THEN "cancelled" ELSE "failed")
      /\ mid.result = "none" /\ mid.error = error /\ mid.marker = job.marker
  BY DEF Job, JobStates, TerminalStates, Errors
<1> HIDE DEF mid
<1>2. ValidJobResult(mid) /\ ValidMarker(mid)
  BY <1>1 DEF WellFormed, ValidJobResult, ValidMarker, IsTerminal, TerminalStates, IsPack
<1>3. Successor(job, AppendEvent(mid)) /\ AppendEvent(mid).state = mid.state
  BY <1>1, <1>2, ChangedSuccessor
<1> QED BY <1>1, <1>3 DEF Failed, mid, IsTerminal, TerminalStates

\* record_pack_publication adds an archive that
\* validate_pack_publication_marker accepts.
LEMMA PublishedSuccessor ==
  ASSUME NEW job \in Job, WellFormed(job), NEW archive \in Archives,
         job.state \in {"running", "cancelling"},
         job.marker.present, job.marker.output_was_absent
  PROVE  Successor(job, Published(job, archive))
<1> DEFINE mark == [job.marker EXCEPT !.published_archive = archive]
           mid == [job EXCEPT !.marker = mark]
<1>1. job.marker \in Markers
  BY DEF Job
<1>2. mark \in Markers /\ mark.present = job.marker.present
      /\ mark.output_was_absent = job.marker.output_was_absent
  BY <1>1 DEF Markers
<1> HIDE DEF mark
<1>3. /\ mid \in Job
      /\ mid.owner = job.owner /\ mid.key = job.key /\ mid.params = job.params
      /\ mid.events = job.events /\ mid.next_sequence = job.next_sequence
      /\ mid.state = job.state /\ mid.result = job.result
      /\ mid.error = job.error /\ mid.marker = mark
  BY <1>2 DEF Job
<1> HIDE DEF mid
<1>4. ValidJobResult(mid) /\ ValidMarker(mid)
  BY <1>2, <1>3 DEF WellFormed, ValidJobResult, ValidMarker, IsTerminal, TerminalStates, IsPack
<1>5. Successor(job, AppendEvent(mid))
  BY <1>3, <1>4, ChangedSuccessor
<1>6. Published(job, archive) = AppendEvent(mid)
  BY DEF Published, mid, mark
<1> QED BY <1>5, <1>6

\* An unchanged job is a successor of itself.
LEMMA SelfSuccessor ==
  ASSUME NEW job \in Job, WellFormed(job)
  PROVE  Successor(job, job)
  BY DEF Successor

\* request_cancel, in every state; it leaves a job that ended alone.
LEMMA CancelRequestedSuccessor ==
  ASSUME NEW job \in Job, WellFormed(job)
  PROVE  Successor(job, CancelRequested(job)) /\ (IsTerminal(job) => CancelRequested(job) = job)
  BY CancellingSuccessor, CancelledSuccessor, SelfSuccessor
     DEF CancelRequested, Cancelled, IsTerminal, TerminalStates

\* expire_deadline, in every state.
LEMMA DeadlineSuccessor ==
  ASSUME NEW job \in Job, WellFormed(job)
  PROVE  Successor(job, DeadlineExpired(job))
  BY CancellingSuccessor, FailedSuccessor, SelfSuccessor DEF DeadlineExpired, Errors

\* What close_and_cancel_all does to one job.
LEMMA ShutDownSuccessor ==
  ASSUME NEW job \in Job, WellFormed(job)
  PROVE  Successor(job, ShutDown(job))
  BY CancellingSuccessor, FailedSuccessor, SelfSuccessor DEF ShutDown, Errors

\* Trimming a history within the limit changes nothing.
LEMMA TrimIdentity ==
  ASSUME NEW job \in Job, Len(job.events) <= MaxEvents
  PROVE  [job EXCEPT !.events = TrimEvents(job.events)] = job
<1>1. TrimEvents(job.events) = job.events
  BY TrimType DEF Job
<1> QED BY <1>1 DEF Job

\* Recovery of one job by open_with_policy; it leaves a job that ended alone.
LEMMA RecoveredSuccessor ==
  ASSUME NEW job \in Job, WellFormed(job), NEW found
  PROVE  /\ Successor(job, Recovered(job, found))
         /\ IsTerminal(Recovered(job, found))
         /\ IsTerminal(job) => Recovered(job, found) = job
<1>1. CASE IsTerminal(job)
  <2>1. [job EXCEPT !.events = TrimEvents(job.events)] = job
    BY TrimIdentity DEF WellFormed, ValidJobEvents
  <2>2. Recovered(job, found) = job
    BY <1>1, <2>1 DEF Recovered
  <2> QED BY <1>1, <2>2, SelfSuccessor
<1>2. CASE ~IsTerminal(job) /\ RecoversArchive(job, found)
  BY <1>2, CompletedSuccessor DEF Recovered
<1>3. CASE ~IsTerminal(job) /\ ~RecoversArchive(job, found)
  BY <1>3, FailedSuccessor DEF Recovered, Errors
<1> QED BY <1>1, <1>2, <1>3

-----------------------------------------------------------------------------
(* The two ways jobs.json changes: jobs move on, or a submission is added. *)

UpdatedFrom(s, t) ==
    /\ t \in PersistentState
    /\ t.next_job = s.next_job
    /\ t.idempotency = s.idempotency
    /\ \A j \in JobIds :
        \/ s.jobs[j] = NoJob /\ t.jobs[j] = NoJob
        \/ /\ s.jobs[j] \in Job
           /\ Successor(s.jobs[j], t.jobs[j])
           /\ IsTerminal(s.jobs[j]) => t.jobs[j] = s.jobs[j]

SubmittedFrom(s, t) ==
    \E owner \in Owners, key \in Keys, params \in Params :
        /\ s.idempotency[<<owner, key>>] = 0
        /\ s.next_job \in JobIds
        /\ Cardinality(Retained(s)) < MaxRetained
        /\ t = [next_job |-> s.next_job + 1,
                jobs |-> [s.jobs EXCEPT ![s.next_job] = NewJob(owner, key, params)],
                idempotency |-> [s.idempotency EXCEPT ![<<owner, key>>] = s.next_job]]

\* The components of a stored state.
LEMMA StoreTypes ==
  ASSUME NEW s \in PersistentState
  PROVE  /\ s.next_job \in 1 .. MaxJobNumber
         /\ s.jobs \in [JobIds -> Job \cup {NoJob}]
         /\ s.idempotency \in [IndexKeys -> JobNumbers]
         /\ s = [next_job |-> s.next_job, jobs |-> s.jobs, idempotency |-> s.idempotency]
  BY DEF PersistentState

\* A retained job is a job record.
LEMMA RetainedJob ==
  ASSUME NEW s \in PersistentState, NEW j \in Retained(s)
  PROVE  j \in JobIds /\ s.jobs[j] \in Job
  BY StoreTypes DEF Retained

\* validate_state makes every retained job well formed.
LEMMA RetainedWellFormed ==
  ASSUME NEW s \in PersistentState, ValidState(s, TRUE), NEW j \in Retained(s)
  PROVE  WellFormed(s.jobs[j])
  BY DEF ValidState, WellFormed

\* validate_state makes the index name every retained job, below next_job.
LEMMA RetainedIndexed ==
  ASSUME NEW s \in PersistentState, ValidState(s, TRUE), NEW j \in Retained(s)
  PROVE  s.idempotency[<<s.jobs[j].owner, s.jobs[j].key>>] = j /\ j < s.next_job
  BY DEF ValidState

\* A state obtained by replacing jobs by their successors passes
\* validate_state.
LEMMA UpdatedValid ==
  ASSUME NEW s \in PersistentState, NEW t, ValidState(s, TRUE), UpdatedFrom(s, t)
  PROVE  ValidState(t, TRUE) /\ Retained(t) = Retained(s)
<1>1. t \in PersistentState /\ t.next_job = s.next_job /\ t.idempotency = s.idempotency
  BY DEF UpdatedFrom
<1>2. \A j \in JobIds : (s.jobs[j] = NoJob) <=> (t.jobs[j] = NoJob)
  BY NoJobIsNotAJob DEF UpdatedFrom, Successor
<1>3. Retained(t) = Retained(s)
  BY <1>2 DEF Retained
<1>4. Indexed(t) = Indexed(s)
  BY <1>1 DEF Indexed
<1>5. \A j \in Retained(s) : Successor(s.jobs[j], t.jobs[j])
  BY DEF UpdatedFrom, Retained
<1>6. ASSUME NEW j \in Retained(t)
      PROVE  /\ t.idempotency[<<t.jobs[j].owner, t.jobs[j].key>>] = j
             /\ ValidJobEvents(t.jobs[j], TRUE)
             /\ ValidJobResult(t.jobs[j])
             /\ ValidMarker(t.jobs[j])
             /\ j < t.next_job
  BY <1>1, <1>3, <1>5 DEF ValidState, Successor, WellFormed
<1>7. ASSUME NEW ik \in Indexed(t)
      PROVE  LET j == t.idempotency[ik]
             IN  j \in Retained(t) /\ ik = <<t.jobs[j].owner, t.jobs[j].key>>
  <2> DEFINE j == s.idempotency[ik]
  <2>1. j \in Retained(s) /\ ik = <<s.jobs[j].owner, s.jobs[j].key>>
    BY <1>4 DEF ValidState
  <2>2. t.jobs[j].owner = s.jobs[j].owner /\ t.jobs[j].key = s.jobs[j].key
    BY <2>1, <1>5 DEF Successor
  <2> QED BY <1>1, <1>3, <2>1, <2>2
<1> QED BY <1>1, <1>3, <1>4, <1>6, <1>7 DEF ValidState

\* trim_retained_events changes nothing in a state whose histories are within
\* the limit.
LEMMA TrimRetainedIdentity ==
  ASSUME NEW s \in PersistentState,
         \A j \in Retained(s) : Len(s.jobs[j].events) <= MaxEvents
  PROVE  TrimRetained(s) = s
<1> DEFINE f == [j \in JobIds |->
                    IF s.jobs[j] = NoJob THEN NoJob
                    ELSE [s.jobs[j] EXCEPT !.events = TrimEvents(s.jobs[j].events)]]
<1>1. ASSUME NEW j \in JobIds PROVE f[j] = s.jobs[j]
  <2>1. CASE s.jobs[j] = NoJob
    BY <2>1
  <2>2. CASE s.jobs[j] # NoJob
    <3>1. j \in Retained(s) /\ s.jobs[j] \in Job
      BY <2>2, RetainedJob DEF Retained
    <3>2. [s.jobs[j] EXCEPT !.events = TrimEvents(s.jobs[j].events)] = s.jobs[j]
      BY <3>1, TrimIdentity
    <3> QED BY <2>2, <3>2
  <2> QED BY <2>1, <2>2
<1>2. f = s.jobs
  BY <1>1, StoreTypes
<1>3. TrimRetained(s) = [s EXCEPT !.jobs = f]
  BY DEF TrimRetained
<1> HIDE DEF f
<1> QED BY <1>2, <1>3 DEF PersistentState

\* The record submit_with_limit makes is well formed.
LEMMA NewJobWellFormed ==
  ASSUME NEW owner \in Owners, NEW key \in Keys, NEW params \in Params
  PROVE  LET job == NewJob(owner, key, params)
         IN  /\ job \in Job /\ WellFormed(job)
             /\ job.owner = owner /\ job.key = key /\ job.params = params
             /\ job.state = "queued"
<1> DEFINE raw == [owner |-> owner, key |-> key, params |-> params,
                   state |-> "queued", result |-> "none", error |-> "none",
                   events |-> <<>>, next_sequence |-> 1, marker |-> NoMarker]
<1>1. raw \in Job
  BY NoMarkerType DEF Job, JobStates, Errors
<1>2. ValidJobResult(raw) /\ ValidMarker(raw)
  BY NoMarkerType DEF ValidJobResult, ValidMarker, IsTerminal, TerminalStates
<1>3. EventsReady(raw)
  BY DEF EventsReady
<1> HIDE DEF raw
<1>4. Successor(raw, AppendEvent(raw)) /\ AppendEvent(raw).state = raw.state
  BY <1>1, <1>2, <1>3, AppendEventSuccessor
<1>5. raw.owner = owner /\ raw.key = key /\ raw.params = params /\ raw.state = "queued"
  BY DEF raw
<1>6. NewJob(owner, key, params) = AppendEvent(raw)
  BY DEF NewJob, raw
<1> QED BY <1>4, <1>5, <1>6 DEF Successor

\* Job numbers and idempotency keys are finitely many, so retained jobs can be
\* counted.
LEMMA JobIdsFinite == IsFiniteSet(JobIds) /\ IsFiniteSet(IndexKeys)
<1>1. IsFiniteSet(JobIds)
  BY FS_Interval, JobStoreAssumption DEF JobIds
<1>2. IsFiniteSet(IndexKeys)
  BY FS_Product, JobStoreAssumption DEF IndexKeys
<1> QED BY <1>1, <1>2

\* A state obtained by a submission passes validate_state: a fresh number,
\* indexed once, within the retention limit.
LEMMA SubmittedValid ==
  ASSUME NEW s \in PersistentState, NEW t, ValidState(s, TRUE), SubmittedFrom(s, t)
  PROVE  t \in PersistentState /\ ValidState(t, TRUE)
<1> PICK owner \in Owners, key \in Keys, params \in Params :
        /\ s.idempotency[<<owner, key>>] = 0
        /\ s.next_job \in JobIds
        /\ Cardinality(Retained(s)) < MaxRetained
        /\ t = [next_job |-> s.next_job + 1,
                jobs |-> [s.jobs EXCEPT ![s.next_job] = NewJob(owner, key, params)],
                idempotency |-> [s.idempotency EXCEPT ![<<owner, key>>] = s.next_job]]
  BY DEF SubmittedFrom
<1> DEFINE n == s.next_job
           ik == <<owner, key>>
           new == NewJob(owner, key, params)
<1>1. new \in Job /\ WellFormed(new) /\ new.owner = owner /\ new.key = key
  BY NewJobWellFormed
<1>2. n \in JobIds /\ n \in Nat /\ n # 0 /\ n + 1 \in 1 .. MaxJobNumber /\ n \in JobNumbers
  BY StoreTypes, JobStoreAssumption DEF JobIds, JobNumbers
<1>3. ik \in IndexKeys
  BY DEF IndexKeys
<1>4. /\ s.jobs \in [JobIds -> Job \cup {NoJob}]
      /\ s.idempotency \in [IndexKeys -> JobNumbers]
  BY StoreTypes
<1> HIDE DEF new
<1>5. /\ t.next_job = n + 1
      /\ t.jobs = [s.jobs EXCEPT ![n] = new]
      /\ t.idempotency = [s.idempotency EXCEPT ![ik] = n]
  BY DEF new
<1>6. t \in PersistentState
  BY <1>1, <1>2, <1>3, <1>4, <1>5 DEF PersistentState, new
<1> HIDE DEF ik
<1>7. n \notin Retained(s)
  <2>1. \A j \in Retained(s) : j < n
    BY RetainedIndexed
  <2> HIDE DEF n
  <2> QED BY <1>2, <2>1
<1>8. Retained(t) = Retained(s) \cup {n}
  BY <1>1, <1>2, <1>4, <1>5, NoJobIsNotAJob DEF Retained
<1>9. Indexed(t) = Indexed(s) \cup {ik} /\ ik \notin Indexed(s)
  BY <1>2, <1>3, <1>4, <1>5 DEF Indexed, ik
<1>10. IsFiniteSet(Retained(s)) /\ IsFiniteSet(Indexed(s))
  BY JobIdsFinite, FS_Subset DEF Retained, Indexed
<1>11. /\ Cardinality(Retained(t)) = Cardinality(Retained(s)) + 1
       /\ Cardinality(Indexed(t)) = Cardinality(Indexed(s)) + 1
       /\ Cardinality(Retained(s)) \in Nat
  <2>1. Cardinality(Retained(s) \cup {n}) = Cardinality(Retained(s)) + 1
    BY <1>7, <1>10, FS_AddElement
  <2>2. Cardinality(Indexed(s) \cup {ik}) = Cardinality(Indexed(s)) + 1
    BY <1>9, <1>10, FS_AddElement
  <2>3. Cardinality(Retained(s)) \in Nat
    BY <1>10, FS_CardinalityType
  <2> QED BY <2>1, <2>2, <2>3, <1>8, <1>9
<1>12. /\ Cardinality(Retained(t)) <= MaxRetained
       /\ Cardinality(Indexed(t)) = Cardinality(Retained(t))
  BY <1>11, JobStoreAssumption DEF ValidState
<1>13. ASSUME NEW j \in Retained(t)
       PROVE  /\ t.idempotency[<<t.jobs[j].owner, t.jobs[j].key>>] = j
              /\ ValidJobEvents(t.jobs[j], TRUE)
              /\ ValidJobResult(t.jobs[j])
              /\ ValidMarker(t.jobs[j])
              /\ j < t.next_job
  <2>1. CASE j = n
    <3>1. t.jobs[j] = new
      BY <2>1, <1>2, <1>4, <1>5
    <3>2. t.idempotency[ik] = n
      BY <1>3, <1>4, <1>5
    <3>3. t.idempotency[<<t.jobs[j].owner, t.jobs[j].key>>] = j
      BY <2>1, <3>1, <3>2, <1>1 DEF ik
    <3>4. j < t.next_job
      <4>1. t.next_job = n + 1 /\ n \in Nat
        BY <1>2, <1>5
      <4> HIDE DEF n
      <4> QED BY <2>1, <4>1
    <3> QED BY <3>1, <3>3, <3>4, <1>1 DEF WellFormed
  <2>2. CASE j # n
    <3>1. j \in Retained(s) /\ j \in JobIds /\ t.jobs[j] = s.jobs[j]
      BY <2>2, <1>8, <1>4, <1>5 DEF Retained
    <3>2. /\ s.idempotency[<<s.jobs[j].owner, s.jobs[j].key>>] = j
          /\ WellFormed(s.jobs[j]) /\ j < n
      BY <3>1 DEF ValidState, WellFormed
    <3>3. s.jobs[j] \in Job
      BY <3>1, RetainedJob
    <3>4. <<s.jobs[j].owner, s.jobs[j].key>> \in IndexKeys
      BY <3>3 DEF Job, IndexKeys
    <3>5. <<s.jobs[j].owner, s.jobs[j].key>> # ik
      BY <3>1, <3>2, <1>2 DEF ik, JobIds
    <3>6. t.idempotency[<<s.jobs[j].owner, s.jobs[j].key>>] = j
      BY <3>2, <3>4, <3>5, <1>4, <1>5
    <3>7. j < t.next_job
      <4>1. t.next_job = n + 1 /\ n \in Nat /\ j \in Nat
        BY <3>1, <1>2, <1>5 DEF JobIds
      <4> HIDE DEF n
      <4> QED BY <3>2, <4>1
    <3> QED BY <3>1, <3>2, <3>6, <3>7 DEF WellFormed
  <2> QED BY <2>1, <2>2
<1>14. ASSUME NEW jk \in Indexed(t)
       PROVE  LET j == t.idempotency[jk]
              IN  j \in Retained(t) /\ jk = <<t.jobs[j].owner, t.jobs[j].key>>
  <2>1. CASE jk = ik
    <3>1. t.idempotency[ik] = n /\ t.jobs[n] = new
      BY <1>2, <1>3, <1>4, <1>5
    <3> QED BY <2>1, <3>1, <1>1, <1>8 DEF ik
  <2>2. CASE jk # ik
    <3>1. jk \in Indexed(s) /\ jk \in IndexKeys /\ t.idempotency[jk] = s.idempotency[jk]
      BY <2>2, <1>9, <1>4, <1>5 DEF Indexed
    <3> DEFINE j == s.idempotency[jk]
    <3>2. j \in Retained(s) /\ jk = <<s.jobs[j].owner, s.jobs[j].key>>
      BY <3>1 DEF ValidState
    <3>3. t.jobs[j] = s.jobs[j]
      BY <3>2, <1>7, <1>4, <1>5 DEF Retained
    <3> QED BY <3>1, <3>2, <3>3, <1>8
  <2> QED BY <2>1, <2>2
<1> QED BY <1>6, <1>12, <1>13, <1>14 DEF ValidState

-----------------------------------------------------------------------------
(* The inductive invariant of the store, and what one step does to it.     *)

StoreInv ==
    /\ TypeOK
    /\ ValidState(disk, TRUE)
    /\ MemoryIsDisk

StoreStep == disk' = disk \/ UpdatedFrom(disk, disk') \/ SubmittedFrom(disk, disk')

\* Replacing the whole jobs map by successors is an update of the state.
LEMMA MappedJobs ==
  ASSUME NEW s \in PersistentState, ValidState(s, TRUE),
         NEW f \in [JobIds -> Job \cup {NoJob}],
         \A j \in JobIds : s.jobs[j] = NoJob => f[j] = NoJob,
         \A j \in Retained(s) :
            Successor(s.jobs[j], f[j]) /\ (IsTerminal(s.jobs[j]) => f[j] = s.jobs[j])
  PROVE  UpdatedFrom(s, [s EXCEPT !.jobs = f])
<1> DEFINE t == [s EXCEPT !.jobs = f]
<1>1. /\ t \in PersistentState /\ t.jobs = f
      /\ t.next_job = s.next_job /\ t.idempotency = s.idempotency
  BY DEF PersistentState
<1> HIDE DEF t
<1>2. ASSUME NEW j \in JobIds, s.jobs[j] # NoJob
      PROVE  /\ s.jobs[j] \in Job
             /\ Successor(s.jobs[j], t.jobs[j])
             /\ IsTerminal(s.jobs[j]) => t.jobs[j] = s.jobs[j]
  <2>1. j \in Retained(s)
    BY <1>2 DEF Retained
  <2>2. s.jobs[j] \in Job
    BY <2>1, RetainedJob
  <2>3. Successor(s.jobs[j], f[j]) /\ (IsTerminal(s.jobs[j]) => f[j] = s.jobs[j])
    BY <2>1
  <2> QED BY <1>1, <2>2, <2>3
<1>3. UpdatedFrom(s, t)
  BY <1>1, <1>2 DEF UpdatedFrom
<1> QED BY <1>3 DEF t

\* Replacing one job by a successor is an update of the state.
LEMMA WithJobUpdates ==
  ASSUME NEW s \in PersistentState, ValidState(s, TRUE),
         NEW j \in Retained(s), NEW new,
         Successor(s.jobs[j], new), IsTerminal(s.jobs[j]) => new = s.jobs[j]
  PROVE  UpdatedFrom(s, WithJob(s, j, new))
<1> DEFINE f == [s.jobs EXCEPT ![j] = new]
<1>1. s.jobs \in [JobIds -> Job \cup {NoJob}] /\ j \in JobIds /\ new \in Job /\ s.jobs[j] # NoJob
  BY StoreTypes DEF Retained, Successor
<1>2. f \in [JobIds -> Job \cup {NoJob}] /\ f[j] = new
      /\ \A k \in JobIds : k # j => f[k] = s.jobs[k]
  BY <1>1
<1> HIDE DEF f
<1>3. \A k \in Retained(s) : Successor(s.jobs[k], s.jobs[k])
  BY RetainedJob, RetainedWellFormed, SelfSuccessor
<1>4. \A k \in Retained(s) :
            Successor(s.jobs[k], f[k]) /\ (IsTerminal(s.jobs[k]) => f[k] = s.jobs[k])
  BY <1>1, <1>2, <1>3 DEF Retained
<1>5. UpdatedFrom(s, [s EXCEPT !.jobs = f])
  BY <1>1, <1>2, <1>4, MappedJobs
<1> QED BY <1>5 DEF WithJob, f

\* Every state handed to commit passes its validation and is not changed by its
\* trimming.
LEMMA CandidateValid ==
  ASSUME NEW s \in PersistentState, ValidState(s, TRUE), NEW next,
         UpdatedFrom(s, next) \/ SubmittedFrom(s, next)
  PROVE  next \in PersistentState /\ ValidState(next, TRUE) /\ TrimRetained(next) = next
<1>1. next \in PersistentState /\ ValidState(next, TRUE)
  BY UpdatedValid, SubmittedValid DEF UpdatedFrom
<1>2. \A j \in Retained(next) : Len(next.jobs[j].events) <= MaxEvents
  BY <1>1 DEF ValidState, ValidJobEvents
<1> QED BY <1>1, <1>2, TrimRetainedIdentity

\* validate_state accepts every state a call produces, so a commit can only be
\* refused by the file system, and memory always follows the file.
LEMMA CommitStep ==
  ASSUME StoreInv, up, NEW next, NEW io \in CommitOutcomes,
         UpdatedFrom(mem, next) \/ SubmittedFrom(mem, next),
         Commit(next, io)
  PROVE  /\ mem' = disk' /\ mem' \in PersistentState /\ healthy' \in BOOLEAN
         /\ ValidState(disk', TRUE)
         /\ io # "refused" => disk' = next
         /\ io = "refused" => disk' = disk
         /\ healthy' = (healthy /\ io = "ok")
         /\ StoreStep
<1>1. mem = disk /\ mem \in PersistentState /\ ValidState(mem, TRUE) /\ healthy \in BOOLEAN
  BY DEF StoreInv, MemoryIsDisk, TypeOK
<1>2. next \in PersistentState /\ ValidState(next, TRUE) /\ TrimRetained(next) = next
  BY <1>1, CandidateValid
<1>3. /\ disk' = IF io # "refused" THEN next ELSE disk
      /\ mem' = IF io # "refused" THEN next ELSE mem
      /\ healthy' = (healthy /\ io = "ok")
  BY <1>2 DEF Commit, CommitOutcomes
<1> QED BY <1>1, <1>2, <1>3 DEF StoreStep

\* update_owned with a successor of the job.
LEMMA UpdateOwnedStep ==
  ASSUME StoreInv, NEW io \in CommitOutcomes, NEW j, NEW new, Live(j),
         Successor(mem.jobs[j], new), IsTerminal(mem.jobs[j]) => new = mem.jobs[j],
         UpdateOwned(j, new, io)
  PROVE  /\ mem' = disk' /\ mem' \in PersistentState /\ healthy' \in BOOLEAN
         /\ ValidState(disk', TRUE) /\ StoreStep
         /\ up' = up /\ closed' = closed /\ up
<1>1. up /\ j \in Retained(mem)
  BY DEF Live
<1>2. mem \in PersistentState /\ ValidState(mem, TRUE)
  BY <1>1 DEF StoreInv, MemoryIsDisk, TypeOK
<1>3. UpdatedFrom(mem, WithJob(mem, j, new))
  BY <1>1, <1>2, WithJobUpdates
<1>4. Commit(WithJob(mem, j, new), io) /\ up' = up /\ closed' = closed
  BY DEF UpdateOwned
<1> QED BY <1>1, <1>3, <1>4, CommitStep

\* A job an operation works on is a well-formed record.
LEMMA LiveJob ==
  ASSUME StoreInv, NEW j, Live(j)
  PROVE  up /\ j \in JobIds /\ mem.jobs[j] \in Job /\ WellFormed(mem.jobs[j])
<1>1. up /\ j \in Retained(mem)
  BY DEF Live
<1>2. mem \in PersistentState /\ ValidState(mem, TRUE)
  BY <1>1 DEF StoreInv, MemoryIsDisk, TypeOK
<1> QED BY <1>1, <1>2, RetainedJob, RetainedWellFormed

\* open_with_policy hands commit an update of what it loaded.
LEMMA RecoveredUpdates ==
  ASSUME NEW s \in PersistentState, ValidState(s, TRUE)
  PROVE  /\ UpdatedFrom(s, RecoveredState(s))
         /\ \A j \in Retained(s) : IsTerminal(RecoveredState(s).jobs[j])
<1> DEFINE found(j) == IF IsPack(s.jobs[j]) THEN files[Output(s.jobs[j])] ELSE Absent
           f == [j \in JobIds |-> IF s.jobs[j] = NoJob THEN NoJob
                                  ELSE Recovered(s.jobs[j], found(j))]
<1>1. ASSUME NEW j \in Retained(s)
      PROVE  /\ Successor(s.jobs[j], f[j])
             /\ IsTerminal(f[j])
             /\ IsTerminal(s.jobs[j]) => f[j] = s.jobs[j]
  <2>1. j \in JobIds /\ s.jobs[j] # NoJob /\ s.jobs[j] \in Job /\ WellFormed(s.jobs[j])
    BY RetainedJob, RetainedWellFormed DEF Retained
  <2>2. f[j] = Recovered(s.jobs[j], found(j))
    BY <2>1
  <2> HIDE DEF f, found
  <2> QED BY <2>1, <2>2, RecoveredSuccessor
<1>2. \A j \in JobIds : s.jobs[j] = NoJob => f[j] = NoJob
  OBVIOUS
<1>3. f \in [JobIds -> Job \cup {NoJob}]
  <2>1. \A j \in JobIds : f[j] \in Job \cup {NoJob}
    BY <1>1, <1>2 DEF Retained, Successor
  <2> QED BY <2>1
<1>4. RecoveredState(s) = [s EXCEPT !.jobs = f]
  BY DEF RecoveredState
<1> HIDE DEF f
<1>5. UpdatedFrom(s, [s EXCEPT !.jobs = f])
  BY <1>1, <1>2, <1>3, MappedJobs
<1>6. RecoveredState(s).jobs = f
  BY <1>4 DEF PersistentState
<1> QED BY <1>1, <1>4, <1>5, <1>6

\* close_and_cancel_all hands commit an update of the state.
LEMMA ClosedUpdates ==
  ASSUME NEW s \in PersistentState, ValidState(s, TRUE)
  PROVE  UpdatedFrom(s, [s EXCEPT !.jobs = [j \in JobIds |->
                 IF j \in Nonterminal(s) THEN ShutDown(s.jobs[j]) ELSE s.jobs[j]]])
<1> DEFINE f == [j \in JobIds |->
                    IF j \in Nonterminal(s) THEN ShutDown(s.jobs[j]) ELSE s.jobs[j]]
<1>1. ASSUME NEW j \in Retained(s)
      PROVE  Successor(s.jobs[j], f[j]) /\ (IsTerminal(s.jobs[j]) => f[j] = s.jobs[j])
  <2>1. j \in JobIds /\ s.jobs[j] \in Job /\ WellFormed(s.jobs[j])
    BY RetainedJob, RetainedWellFormed
  <2>2. Successor(s.jobs[j], s.jobs[j]) /\ Successor(s.jobs[j], ShutDown(s.jobs[j]))
    BY <2>1, SelfSuccessor, ShutDownSuccessor
  <2> QED BY <2>1, <2>2 DEF Nonterminal
<1>2. \A j \in JobIds : s.jobs[j] = NoJob => f[j] = NoJob
  BY DEF Nonterminal, Retained
<1>3. f \in [JobIds -> Job \cup {NoJob}]
  <2>1. \A j \in JobIds : f[j] \in Job \cup {NoJob}
    BY <1>1, <1>2 DEF Retained, Successor
  <2> QED BY <2>1
<1> HIDE DEF f
<1>4. UpdatedFrom(s, [s EXCEPT !.jobs = f])
  BY <1>1, <1>2, <1>3, MappedJobs
<1> QED BY <1>4 DEF f

\* PersistentState::default passes validate_state.
LEMMA EmptyIsValid == EmptyState \in PersistentState /\ ValidState(EmptyState, TRUE)
<1>1. EmptyState \in PersistentState
  BY JobStoreAssumption DEF EmptyState, PersistentState, JobNumbers
<1>2. Retained(EmptyState) = {} /\ Indexed(EmptyState) = {}
  BY DEF EmptyState, Retained, Indexed
<1>3. Cardinality({}) = 0
  BY FS_EmptySet
<1> QED BY <1>1, <1>2, <1>3, JobStoreAssumption DEF ValidState

\* The operations made of one update_owned preserve the invariant.
LEMMA UpdateCallStep ==
  ASSUME StoreInv, NEW io \in CommitOutcomes, NEW j,
         \/ StartRunning(j, io)
         \/ RequestCancel(j, io)
         \/ FinishCancelled(j, io)
         \/ Complete(j, io)
         \/ \E error \in Errors \ {"none"} : Fail(j, error, io)
         \/ ExpireDeadline(j, io)
  PROVE  StoreInv' /\ StoreStep
<1>1. TypeOK
  BY DEF StoreInv
<1>2. Live(j)
  BY DEF StartRunning, RequestCancel, FinishCancelled, Complete, Fail, ExpireDeadline
<1>3. mem.jobs[j] \in Job /\ WellFormed(mem.jobs[j])
  BY <1>2, LiveJob
<1> DEFINE job == mem.jobs[j]
<1>4. \E new : /\ Successor(job, new)
               /\ IsTerminal(job) => new = job
               /\ UpdateOwned(j, new, io)
  <2>1. CASE StartRunning(j, io)
    <3> DEFINE absent == IsPack(job) /\ files[Output(job)] = Absent
    <3>1. job.state = "queued" /\ UpdateOwned(j, Running(job, absent), io)
      BY <2>1 DEF StartRunning, ValidTransition
    <3>2. Successor(job, Running(job, absent))
      BY <1>3, <3>1, RunningSuccessor
    <3> QED BY <3>1, <3>2 DEF IsTerminal, TerminalStates
  <2>2. CASE RequestCancel(j, io)
    BY <2>2, <1>3, CancelRequestedSuccessor DEF RequestCancel
  <2>3. CASE FinishCancelled(j, io)
    BY <2>3, <1>3, CancelledSuccessor DEF FinishCancelled, IsTerminal, TerminalStates
  <2>4. CASE Complete(j, io)
    BY <2>4, <1>3, CompletedSuccessor DEF Complete, IsTerminal, TerminalStates
  <2>5. CASE \E error \in Errors \ {"none"} : Fail(j, error, io)
    BY <2>5, <1>3, FailedSuccessor DEF Fail
  <2>6. CASE ExpireDeadline(j, io)
    BY <2>6, <1>3, DeadlineSuccessor DEF ExpireDeadline, IsTerminal, TerminalStates
  <2> QED BY <2>1, <2>2, <2>3, <2>4, <2>5, <2>6
<1>5. /\ mem' = disk' /\ mem' \in PersistentState /\ healthy' \in BOOLEAN
      /\ ValidState(disk', TRUE) /\ StoreStep
      /\ up' = up /\ closed' = closed
  BY <1>2, <1>4, UpdateOwnedStep
<1>6. UNCHANGED <<verifying, acked, envVars>>
  BY DEF StartRunning, RequestCancel, FinishCancelled, Complete, Fail, ExpireDeadline
<1>7. TypeOK'
  BY <1>1, <1>5, <1>6 DEF TypeOK, envVars
<1> QED BY <1>5, <1>7 DEF StoreInv, MemoryIsDisk

\* submit_with_limit preserves the invariant.
LEMMA SubmitStep ==
  ASSUME StoreInv, NEW owner \in Owners, NEW key \in Keys, NEW params \in Params,
         NEW io \in CommitOutcomes, Submit(owner, key, params, io)
  PROVE  StoreInv' /\ StoreStep /\ mem.next_job \in JobIds
         /\ mem.idempotency[<<owner, key>>] = 0
         /\ (acked' # acked => disk'.idempotency = [disk.idempotency EXCEPT ![<<owner, key>>] = mem.next_job])
<1> DEFINE ik == <<owner, key>>
           j == mem.next_job
           next == [next_job |-> j + 1,
                    jobs |-> [mem.jobs EXCEPT ![j] = NewJob(owner, key, params)],
                    idempotency |-> [mem.idempotency EXCEPT ![ik] = j]]
<1>1. up /\ healthy /\ TypeOK /\ mem = disk /\ mem \in PersistentState
  BY DEF Submit, StoreInv, TypeOK, MemoryIsDisk
<1>2. j \in JobIds /\ j \in JobNumbers
  BY <1>1, JobStoreAssumption DEF Submit, JobNumberLeft, PersistentState, JobIds, JobNumbers
<1>3. SubmittedFrom(mem, next)
  BY <1>2 DEF Submit, SubmittedFrom
<1>4. Commit(next, io) /\ UNCHANGED <<up, closed, verifying, envVars>>
      /\ acked' = (IF healthy' THEN [acked EXCEPT ![ik] = j] ELSE acked)
  BY DEF Submit
<1>5. /\ mem' = disk' /\ mem' \in PersistentState /\ healthy' \in BOOLEAN
      /\ ValidState(disk', TRUE) /\ StoreStep
      /\ io # "refused" => disk' = next
      /\ healthy' = (healthy /\ io = "ok")
  BY <1>1, <1>3, <1>4, CommitStep
<1>6. acked' \in [IndexKeys -> JobNumbers]
  BY <1>1, <1>2, <1>4 DEF TypeOK
<1>7. TypeOK'
  BY <1>1, <1>4, <1>5, <1>6 DEF TypeOK, envVars
<1>8. acked' # acked => disk' = next
  BY <1>4, <1>5
<1>9. next.idempotency = [disk.idempotency EXCEPT ![ik] = j]
  BY <1>1
<1>10. mem.idempotency[ik] = 0
  BY DEF Submit
<1> QED BY <1>2, <1>5, <1>7, <1>8, <1>9, <1>10 DEF StoreInv, MemoryIsDisk

\* The transaction of record_pack_publication preserves the invariant.
LEMMA RecordCommitStep ==
  ASSUME StoreInv, NEW j \in JobIds, NEW io \in CommitOutcomes, RecordCommit(j, io)
  PROVE  StoreInv' /\ StoreStep
<1> DEFINE job == mem.jobs[j]
           accepted == /\ job.state \in {"running", "cancelling"}
                       /\ job.marker.present /\ job.marker.output_was_absent
                       /\ job.marker.published_archive \in {NoArchive, verifying[j]}
           new == IF job.marker.published_archive = NoArchive
                  THEN Published(job, verifying[j]) ELSE job
<1>1. Live(j) /\ TypeOK /\ verifying[j] # NoArchive
      /\ (IF accepted THEN UpdateOwned(j, new, io) ELSE UNCHANGED <<mem, disk, up, healthy, closed>>)
      /\ verifying' = [verifying EXCEPT ![j] = NoArchive]
      /\ UNCHANGED <<acked, envVars>>
  BY DEF RecordCommit, StoreInv
<1>2. job \in Job /\ WellFormed(job) /\ up
  BY <1>1, LiveJob
<1>3. verifying[j] \in Archives /\ verifying' \in [JobIds -> Archives \cup {NoArchive}]
  BY <1>1 DEF TypeOK
<1>4. /\ mem' = disk' /\ mem' \in PersistentState /\ healthy' \in BOOLEAN
      /\ ValidState(disk', TRUE) /\ StoreStep
      /\ up' = up /\ closed' = closed
  <2>1. CASE accepted
    <3>1. Successor(job, new)
      BY <2>1, <1>2, <1>3, PublishedSuccessor, SelfSuccessor
    <3>2. IsTerminal(job) => new = job
      BY <2>1 DEF IsTerminal, TerminalStates
    <3>3. UpdateOwned(j, new, io)
      BY <2>1, <1>1
    <3> HIDE DEF new, accepted
    <3> QED BY <1>1, <3>1, <3>2, <3>3, UpdateOwnedStep
  <2>2. CASE ~accepted
    <3>1. UNCHANGED <<mem, disk, up, healthy, closed>>
      BY <2>2, <1>1
    <3> QED BY <3>1, <1>2 DEF StoreInv, MemoryIsDisk, TypeOK, StoreStep
  <2> QED BY <2>1, <2>2
<1>5. TypeOK'
  BY <1>1, <1>3, <1>4 DEF TypeOK, envVars
<1> QED BY <1>4, <1>5 DEF StoreInv, MemoryIsDisk

\* close_and_cancel_all preserves the invariant.
LEMMA CloseStep ==
  ASSUME StoreInv, NEW io \in CommitOutcomes, CloseAndCancelAll(io)
  PROVE  StoreInv' /\ StoreStep
<1> DEFINE next == [mem EXCEPT !.jobs = [j \in JobIds |->
                     IF j \in Nonterminal(mem) THEN ShutDown(mem.jobs[j]) ELSE mem.jobs[j]]]
<1>1. /\ up /\ TypeOK /\ mem = disk /\ mem \in PersistentState /\ ValidState(mem, TRUE)
      /\ closed' = TRUE /\ UNCHANGED <<up, verifying, acked, envVars>>
  BY DEF CloseAndCancelAll, StoreInv, MemoryIsDisk, TypeOK
<1>2. UpdatedFrom(mem, next)
  BY <1>1, ClosedUpdates
<1>3. IF next # mem THEN Commit(next, io) ELSE UNCHANGED <<mem, disk, healthy>>
  BY DEF CloseAndCancelAll
<1> HIDE DEF next
<1>4. /\ mem' = disk' /\ mem' \in PersistentState /\ healthy' \in BOOLEAN
      /\ ValidState(disk', TRUE) /\ StoreStep
  <2>1. CASE next # mem
    BY <2>1, <1>1, <1>2, <1>3, CommitStep
  <2>2. CASE next = mem
    BY <2>2, <1>1, <1>3 DEF StoreInv, TypeOK, StoreStep
  <2> QED BY <2>1, <2>2
<1>5. TypeOK'
  BY <1>1, <1>4 DEF TypeOK, envVars
<1> QED BY <1>1, <1>4, <1>5 DEF StoreInv, MemoryIsDisk

\* open_with_policy preserves the invariant.
LEMMA OpenStep ==
  ASSUME StoreInv, NEW io \in CommitOutcomes, Open(io)
  PROVE  StoreInv' /\ StoreStep
<1> DEFINE s == RecoveredState(disk)
           opened == s # disk => io = "ok"
<1>1. /\ TypeOK /\ disk \in PersistentState /\ ValidState(disk, TRUE)
      /\ disk' = s /\ up' = opened /\ mem' = (IF opened THEN s ELSE EmptyState)
      /\ UNCHANGED <<healthy, closed, verifying, acked, envVars>>
  BY DEF Open, StoreInv, TypeOK
<1>2. UpdatedFrom(disk, s)
  BY <1>1, RecoveredUpdates
<1>3. s \in PersistentState /\ ValidState(s, TRUE)
  BY <1>1, <1>2, UpdatedValid DEF UpdatedFrom
<1>4. up' \in BOOLEAN /\ mem' \in PersistentState /\ (up' => mem' = disk')
  BY <1>1, <1>3, EmptyIsValid
<1>5. TypeOK'
  BY <1>1, <1>3, <1>4 DEF TypeOK, envVars
<1> QED BY <1>1, <1>2, <1>3, <1>4, <1>5 DEF StoreInv, MemoryIsDisk, StoreStep

\* Replays, verification, other programs and a crash do not touch jobs.json.
LEMMA QuietStep ==
  ASSUME StoreInv,
         \/ \E owner \in Owners, key \in Keys, params \in Params : Replay(owner, key, params)
         \/ \E j \in JobIds : RecordVerify(j) \/ WorkerPublish(j)
         \/ \E o \in Outputs : ForeignArchive(o) \/ RemoveFile(o)
         \/ Crash
         \/ UNCHANGED vars
  PROVE  StoreInv' /\ disk' = disk
<1>1. TypeOK /\ ValidState(disk, TRUE) /\ MemoryIsDisk
  BY DEF StoreInv
<1>2. CASE \E owner \in Owners, key \in Keys, params \in Params : Replay(owner, key, params)
  <2>1. mem.idempotency \in [IndexKeys -> JobNumbers]
    BY <1>1 DEF TypeOK, PersistentState
  <2> QED BY <1>1, <1>2, <2>1 DEF Replay, StoreInv, TypeOK, MemoryIsDisk, envVars, IndexKeys
<1>3. CASE \E j \in JobIds : RecordVerify(j)
  <2> PICK j \in JobIds : RecordVerify(j)
    BY <1>3
  <2>1. Output(mem.jobs[j]) \in Outputs
    BY JobStoreAssumption DEF RecordVerify, IsPack, Output
  <2>2. files[Output(mem.jobs[j])] \in Archives
    BY <1>1, <2>1 DEF RecordVerify, ArchiveFound, TypeOK
  <2>3. verifying' \in [JobIds -> Archives \cup {NoArchive}]
    BY <1>1, <2>2 DEF RecordVerify, TypeOK
  <2> QED BY <1>1, <2>3 DEF RecordVerify, StoreInv, TypeOK, MemoryIsDisk, envVars
<1>4. CASE \E j \in JobIds : WorkerPublish(j)
  <2> PICK j \in JobIds : WorkerPublish(j)
    BY <1>4
  <2>1. UNCHANGED <<registryVars, tampered>> /\ published' = published \cup {j}
        /\ files' = [files EXCEPT ![Output(mem.jobs[j])] = j]
    BY DEF WorkerPublish
  <2>2. files' \in [Outputs -> Archives \cup {Absent}]
    BY <1>1, <2>1 DEF TypeOK, Archives
  <2> QED BY <1>1, <2>1, <2>2 DEF StoreInv, TypeOK, MemoryIsDisk, registryVars
<1>5. CASE \E o \in Outputs : ForeignArchive(o) \/ RemoveFile(o)
  <2> PICK o \in Outputs : ForeignArchive(o) \/ RemoveFile(o)
    BY <1>5
  <2>1. UNCHANGED <<registryVars, published>>
    BY DEF ForeignArchive, RemoveFile
  <2>2. files' \in [Outputs -> Archives \cup {Absent}]
    BY <1>1 DEF ForeignArchive, RemoveFile, TypeOK, Archives
  <2>3. tampered' \subseteq JobIds
    BY <1>1 DEF ForeignArchive, RemoveFile, TypeOK
  <2> QED BY <1>1, <2>1, <2>2, <2>3 DEF StoreInv, TypeOK, MemoryIsDisk, registryVars
<1>6. CASE Crash
  BY <1>1, <1>6, EmptyIsValid DEF Crash, StoreInv, TypeOK, MemoryIsDisk, envVars
<1>7. CASE UNCHANGED vars
  BY <1>1, <1>7 DEF vars, registryVars, envVars, StoreInv, TypeOK, MemoryIsDisk
<1> QED BY <1>2, <1>3, <1>4, <1>5, <1>6, <1>7

\* Every step preserves the invariant, and changes jobs.json only by an update
\* or a submission.
LEMMA StoreNext ==
  ASSUME StoreInv, [Next]_vars
  PROVE  StoreInv' /\ StoreStep
<1>1. CASE \E io \in CommitOutcomes : Calls(io)
  <2> PICK io \in CommitOutcomes : Calls(io)
    BY <1>1
  <2>1. CASE \E owner \in Owners, key \in Keys, params \in Params : Submit(owner, key, params, io)
    BY <2>1, SubmitStep
  <2>2. CASE \E j \in JobIds : \/ StartRunning(j, io)
                               \/ RequestCancel(j, io)
                               \/ FinishCancelled(j, io)
                               \/ Complete(j, io)
                               \/ \E error \in Errors \ {"none"} : Fail(j, error, io)
                               \/ ExpireDeadline(j, io)
    BY <2>2, UpdateCallStep
  <2>3. CASE \E j \in JobIds : RecordCommit(j, io)
    BY <2>3, RecordCommitStep
  <2>4. CASE CloseAndCancelAll(io)
    BY <2>4, CloseStep
  <2>5. CASE Open(io)
    BY <2>5, OpenStep
  <2> QED BY <2>1, <2>2, <2>3, <2>4, <2>5 DEF Calls
<1>2. CASE ~\E io \in CommitOutcomes : Calls(io)
  BY <1>2, QuietStep DEF Next, StoreStep
<1> QED BY <1>1, <1>2

\* The first start satisfies the invariant.
LEMMA InitStoreInv == Init => StoreInv
<1> SUFFICES ASSUME Init PROVE StoreInv
  OBVIOUS
<1>1. mem \in PersistentState /\ disk \in PersistentState /\ ValidState(disk, TRUE)
  BY EmptyIsValid DEF Init
<1>2. acked \in [IndexKeys -> JobNumbers]
  BY JobStoreAssumption DEF Init, JobNumbers
<1> QED BY <1>1, <1>2 DEF Init, StoreInv, TypeOK, MemoryIsDisk

\* The registry's state keeps its types, jobs.json stays valid, and a running
\* registry never continues from a stale snapshot.
THEOREM StoreInvariant == Spec => []StoreInv
<1>1. StoreInv /\ [Next]_vars => StoreInv'
  BY StoreNext
<1> QED BY <1>1, InitStoreInv, PTL DEF Spec

\* Type correctness.
THEOREM TypeCorrect == Spec => []TypeOK
<1>1. StoreInv => TypeOK
  BY DEF StoreInv
<1> QED BY <1>1, StoreInvariant, PTL

\* Memory and jobs.json agree in every state of a running daemon.
THEOREM MemoryFollowsDisk == Spec => []MemoryIsDisk
<1>1. StoreInv => MemoryIsDisk
  BY DEF StoreInv
<1> QED BY <1>1, StoreInvariant, PTL

\* Whatever happened before, the daemon's own jobs.json can be opened again.
THEOREM StoreCanReopen == Spec => []StoreAlwaysLoads
<1>1. StoreInv => StoreAlwaysLoads
  <2> SUFFICES ASSUME StoreInv PROVE StoreAlwaysLoads
    OBVIOUS
  <2>1. disk \in PersistentState /\ ValidState(disk, TRUE)
    BY DEF StoreInv, TypeOK
  <2>2. UpdatedFrom(disk, RecoveredState(disk))
    BY <2>1, RecoveredUpdates
  <2> QED BY <2>1, <2>2, UpdatedValid DEF StoreAlwaysLoads
<1> QED BY <1>1, StoreInvariant, PTL

-----------------------------------------------------------------------------
(* What a step of the store may never do.                                  *)

\* A step keeps the record of a job that ended.
LEMMA StepKeepsTerminal ==
  ASSUME StoreInv, StoreStep, NEW j \in Retained(disk), IsTerminal(disk.jobs[j])
  PROVE  disk'.jobs[j] = disk.jobs[j]
<1>1. disk \in PersistentState /\ ValidState(disk, TRUE)
  BY DEF StoreInv, TypeOK
<1>2. j \in JobIds /\ disk.jobs[j] # NoJob /\ j # disk.next_job
  <2>1. j < disk.next_job /\ disk.next_job \in 1 .. MaxJobNumber
    BY <1>1, RetainedIndexed, StoreTypes
  <2> QED BY <2>1, JobStoreAssumption DEF Retained, JobIds
<1>3. CASE UpdatedFrom(disk, disk')
  BY <1>2, <1>3 DEF UpdatedFrom
<1>4. CASE SubmittedFrom(disk, disk')
  <2>1. disk.jobs \in [JobIds -> Job \cup {NoJob}]
    BY <1>1, StoreTypes
  <2>2. \E new : disk'.jobs = [disk.jobs EXCEPT ![disk.next_job] = new]
    BY <1>4 DEF SubmittedFrom
  <2> QED BY <1>2, <2>1, <2>2
<1> QED BY <1>3, <1>4 DEF StoreStep

\* Terminal state is immutable, across calls, commit failures, crashes and
\* recoveries.
THEOREM TerminalIsImmutable == Spec => TerminalImmutable
<1>1. StoreInv /\ [Next]_vars =>
        [\A j \in Retained(disk) : IsTerminal(disk.jobs[j]) => disk'.jobs[j] = disk.jobs[j]]_vars
  BY StoreNext, StepKeepsTerminal
<1> QED BY <1>1, StoreInvariant, PTL DEF Spec, TerminalImmutable

\* A step keeps the number of an indexed key.
LEMMA StepKeepsIndex ==
  ASSUME StoreInv, StoreStep, NEW ik \in IndexKeys, disk.idempotency[ik] # 0
  PROVE  disk'.idempotency[ik] = disk.idempotency[ik]
<1>1. disk.idempotency \in [IndexKeys -> JobNumbers]
  BY StoreTypes DEF StoreInv, TypeOK
<1>2. CASE UpdatedFrom(disk, disk')
  BY <1>2 DEF UpdatedFrom
<1>3. CASE SubmittedFrom(disk, disk')
  <2>1. \E other \in IndexKeys :
            /\ disk.idempotency[other] = 0
            /\ disk'.idempotency = [disk.idempotency EXCEPT ![other] = disk.next_job]
    <3>1. PICK owner \in Owners, key \in Keys :
              /\ disk.idempotency[<<owner, key>>] = 0
              /\ disk'.idempotency = [disk.idempotency EXCEPT ![<<owner, key>>] = disk.next_job]
      BY <1>3 DEF SubmittedFrom
    <3>2. <<owner, key>> \in IndexKeys
      BY DEF IndexKeys
    <3> QED BY <3>1, <3>2
  <2> QED BY <1>1, <2>1
<1> QED BY <1>2, <1>3 DEF StoreStep

\* A number is acknowledged only by a submission or a replay, as the number the
\* key has.
LEMMA AckedOnlyBySubmit ==
  ASSUME [Next]_vars
  PROVE  \/ acked' = acked
         \/ \E io \in CommitOutcomes, owner \in Owners, key \in Keys, params \in Params :
                Submit(owner, key, params, io)
         \/ \E owner \in Owners, key \in Keys, params \in Params : Replay(owner, key, params)
  BY DEF Next, Calls, vars, registryVars, StartRunning, RequestCancel, FinishCancelled, Complete,
         Fail, RecordCommit, ExpireDeadline, CloseAndCancelAll, Open, RecordVerify,
         WorkerPublish, ForeignArchive, RemoveFile, Crash

\* The number a client was given for its key stays the key's job in jobs.json.
THEOREM AcknowledgedKeysSurvive == Spec => []AckedIsDurable
<1>1. Init => AckedIsDurable
  BY DEF Init, AckedIsDurable
<1>2. StoreInv /\ AckedIsDurable /\ [Next]_vars => AckedIsDurable'
  <2> SUFFICES ASSUME StoreInv, AckedIsDurable, [Next]_vars, NEW ik \in IndexKeys, acked'[ik] # 0
               PROVE  disk'.idempotency[ik] = acked'[ik]
    BY DEF AckedIsDurable
  <2>1. StoreStep
    BY StoreNext
  <2>2. acked \in [IndexKeys -> JobNumbers] /\ disk.idempotency \in [IndexKeys -> JobNumbers]
    BY StoreTypes DEF StoreInv, TypeOK
  <2>3. CASE acked' = acked
    BY <2>1, <2>3, StepKeepsIndex DEF AckedIsDurable
  <2>4. ASSUME NEW io \in CommitOutcomes, NEW owner \in Owners, NEW key \in Keys,
               NEW params \in Params, Submit(owner, key, params, io), acked' # acked
        PROVE  disk'.idempotency[ik] = acked'[ik]
    <3>1. <<owner, key>> \in IndexKeys
      BY DEF IndexKeys
    <3>2. /\ disk'.idempotency = [disk.idempotency EXCEPT ![<<owner, key>>] = mem.next_job]
      BY <2>4, SubmitStep
    <3>3. acked' = [acked EXCEPT ![<<owner, key>>] = mem.next_job]
      BY <2>4 DEF Submit
    <3> QED BY <2>2, <3>1, <3>2, <3>3 DEF AckedIsDurable
  <2>5. ASSUME NEW owner \in Owners, NEW key \in Keys, NEW params \in Params,
               Replay(owner, key, params)
        PROVE  disk'.idempotency[ik] = acked'[ik]
    <3>1. <<owner, key>> \in IndexKeys
      BY DEF IndexKeys
    <3>2. mem = disk /\ disk' = disk
          /\ acked' = [acked EXCEPT ![<<owner, key>>] = mem.idempotency[<<owner, key>>]]
      BY <2>5 DEF Replay, StoreInv, MemoryIsDisk
    <3> QED BY <2>2, <3>1, <3>2 DEF AckedIsDurable
  <2> QED BY <2>3, <2>4, <2>5, AckedOnlyBySubmit
<1> QED BY <1>1, <1>2, StoreInvariant, PTL DEF Spec

-----------------------------------------------------------------------------
(* jobs.json implements the ledger.                                        *)

LineOf(s, ik) ==
    IF s.idempotency[ik] = 0 THEN [job |-> 0]
    ELSE LET job == s.jobs[s.idempotency[ik]]
         IN  [job |-> s.idempotency[ik], params |-> job.params,
              outcome |-> IF IsTerminal(job) THEN job.state ELSE "pending"]

Lines(s) == [ik \in IndexKeys |-> LineOf(s, ik)]

\* The number of an indexed key is that of a retained job.
LEMMA IndexedJob ==
  ASSUME NEW s \in PersistentState, ValidState(s, TRUE), NEW ik \in IndexKeys, s.idempotency[ik] # 0
  PROVE  /\ s.idempotency[ik] \in Retained(s) /\ s.idempotency[ik] \in JobIds
         /\ s.idempotency[ik] < s.next_job /\ s.jobs[s.idempotency[ik]] \in Job
<1>1. ik \in Indexed(s)
  BY DEF Indexed
<1>2. s.idempotency[ik] \in Retained(s)
  BY <1>1 DEF ValidState
<1> QED BY <1>2, RetainedIndexed, RetainedJob

\* An update of jobs settles the lines of those that ended by it.
LEMMA UpdateSettles ==
  ASSUME NEW s \in PersistentState, ValidState(s, TRUE), NEW t, UpdatedFrom(s, t)
  PROVE  \E settled \in SUBSET IndexKeys :
            /\ \A ik \in settled : Lines(s)[ik] # [job |-> 0] /\ Lines(s)[ik].outcome = "pending"
            /\ \E outcome \in [settled -> TerminalStates] :
                 Lines(t) = [ik \in IndexKeys |->
                               IF ik \in settled THEN [Lines(s)[ik] EXCEPT !.outcome = outcome[ik]]
                                                 ELSE Lines(s)[ik]]
<1> DEFINE settled == {ik \in IndexKeys : /\ s.idempotency[ik] # 0
                                          /\ ~IsTerminal(s.jobs[s.idempotency[ik]])
                                          /\ IsTerminal(t.jobs[s.idempotency[ik]])}
           outcome == [ik \in settled |-> t.jobs[s.idempotency[ik]].state]
<1>1. t.idempotency = s.idempotency
  BY DEF UpdatedFrom
<1>2. ASSUME NEW ik \in IndexKeys, s.idempotency[ik] # 0
      PROVE  /\ t.jobs[s.idempotency[ik]].params = s.jobs[s.idempotency[ik]].params
             /\ IsTerminal(s.jobs[s.idempotency[ik]]) =>
                   t.jobs[s.idempotency[ik]] = s.jobs[s.idempotency[ik]]
  <2>1. s.idempotency[ik] \in JobIds /\ s.jobs[s.idempotency[ik]] # NoJob
    BY <1>2, IndexedJob DEF Retained
  <2> QED BY <2>1 DEF UpdatedFrom, Successor
<1>3. \A ik \in IndexKeys : Lines(s)[ik] = LineOf(s, ik) /\ Lines(t)[ik] = LineOf(t, ik)
  BY DEF Lines
<1>4. ASSUME NEW ik \in settled
      PROVE  /\ Lines(s)[ik] = [job |-> s.idempotency[ik], params |-> s.jobs[s.idempotency[ik]].params,
                                outcome |-> "pending"]
             /\ Lines(t)[ik] = [job |-> s.idempotency[ik], params |-> s.jobs[s.idempotency[ik]].params,
                                outcome |-> t.jobs[s.idempotency[ik]].state]
  BY <1>1, <1>2, <1>3 DEF LineOf
<1>5. ASSUME NEW ik \in IndexKeys \ settled PROVE Lines(t)[ik] = Lines(s)[ik]
  <2>1. LineOf(t, ik) = LineOf(s, ik)
    <3>1. CASE s.idempotency[ik] = 0
      BY <1>1, <3>1 DEF LineOf
    <3>2. CASE s.idempotency[ik] # 0 /\ IsTerminal(s.jobs[s.idempotency[ik]])
      BY <1>1, <1>2, <3>2 DEF LineOf
    <3>3. CASE s.idempotency[ik] # 0 /\ ~IsTerminal(s.jobs[s.idempotency[ik]])
      BY <1>1, <1>2, <3>3 DEF LineOf
    <3> QED BY <3>1, <3>2, <3>3
  <2> QED BY <1>3, <2>1
<1>6. outcome \in [settled -> TerminalStates]
  BY DEF IsTerminal
<1>7. \A ik \in settled : outcome[ik] = t.jobs[s.idempotency[ik]].state
  OBVIOUS
<1>8. settled \in SUBSET IndexKeys
  OBVIOUS
<1>9. \A ik \in settled : s.idempotency[ik] # 0
  OBVIOUS
<1>10. Lines(t) = [ik \in IndexKeys |-> Lines(t)[ik]]
  BY DEF Lines
<1> DEFINE line(ik, o) == [job |-> s.idempotency[ik], params |-> s.jobs[s.idempotency[ik]].params,
                           outcome |-> o]
<1>a. \A ik \in settled : Lines(s)[ik] = line(ik, "pending") /\ Lines(t)[ik] = line(ik, outcome[ik])
  BY <1>4, <1>7
<1> HIDE DEF settled, outcome
<1>b. ASSUME NEW ik, NEW o PROVE line(ik, o) = [line(ik, "pending") EXCEPT !.outcome = o]
  OBVIOUS
<1>c. \A ik : line(ik, "pending").job = s.idempotency[ik] /\ line(ik, "pending").outcome = "pending"
  OBVIOUS
<1> HIDE DEF line
<1>11. \A ik \in settled : Lines(t)[ik] = [Lines(s)[ik] EXCEPT !.outcome = outcome[ik]]
  <2> TAKE ik \in settled
  <2>1. line(ik, outcome[ik]) = [line(ik, "pending") EXCEPT !.outcome = outcome[ik]]
    BY <1>b
  <2>2. Lines(s)[ik] = line(ik, "pending") /\ Lines(t)[ik] = line(ik, outcome[ik])
    BY <1>a
  <2> QED BY <2>1, <2>2
<1>12. Lines(t) = [ik \in IndexKeys |->
                      IF ik \in settled THEN [Lines(s)[ik] EXCEPT !.outcome = outcome[ik]]
                                        ELSE Lines(s)[ik]]
  BY <1>5, <1>8, <1>10, <1>11
<1>13. \A ik \in settled : Lines(s)[ik] # [job |-> 0] /\ Lines(s)[ik].outcome = "pending"
  <2> TAKE ik \in settled
  <2>1. Lines(s)[ik].job = s.idempotency[ik] /\ Lines(s)[ik].outcome = "pending"
    BY <1>a, <1>c
  <2>2. [job |-> 0].job = 0
    OBVIOUS
  <2> QED BY <1>9, <2>1, <2>2
<1> QED BY <1>6, <1>8, <1>12, <1>13

\* A blank line is written under a number that no line has.
WritesLine(M, N, ik, n, p) ==
    /\ M[ik] = [job |-> 0]
    /\ \A other \in IndexKeys : M[other].job # n
    /\ N = [M EXCEPT ![ik] = [job |-> n, params |-> p, outcome |-> "pending"]]

\* A submission writes one blank line under a number that no line has.
LEMMA SubmissionWrites ==
  ASSUME NEW s \in PersistentState, ValidState(s, TRUE), NEW t, SubmittedFrom(s, t)
  PROVE  \E ik \in IndexKeys, n \in JobIds, p \in Params : WritesLine(Lines(s), Lines(t), ik, n, p)
<1>1. PICK owner \in Owners, key \in Keys, params \in Params :
        /\ s.idempotency[<<owner, key>>] = 0
        /\ s.next_job \in JobIds
        /\ t = [next_job |-> s.next_job + 1,
                jobs |-> [s.jobs EXCEPT ![s.next_job] = NewJob(owner, key, params)],
                idempotency |-> [s.idempotency EXCEPT ![<<owner, key>>] = s.next_job]]
  BY DEF SubmittedFrom
<1> DEFINE ik == <<owner, key>>
           n == s.next_job
           new == NewJob(owner, key, params)
<1>2. ik \in IndexKeys
  BY DEF IndexKeys
<1>3. new.params = params /\ new.state = "queued"
  BY NewJobWellFormed
<1>4. t.idempotency = [s.idempotency EXCEPT ![ik] = n] /\ t.jobs = [s.jobs EXCEPT ![n] = new]
  BY <1>1
<1>5. n \in JobIds /\ s.idempotency[ik] = 0
  BY <1>1
<1> HIDE DEF ik, n, new
<1>6. s.idempotency \in [IndexKeys -> JobNumbers] /\ s.jobs \in [JobIds -> Job \cup {NoJob}]
  BY StoreTypes
<1>7. n # 0
  BY <1>5 DEF JobIds
<1>8. ASSUME NEW other \in IndexKeys PROVE s.idempotency[other] # n
  <2>1. CASE s.idempotency[other] = 0
    BY <1>7, <2>1
  <2>2. CASE s.idempotency[other] # 0
    <3>1. s.idempotency[other] < n /\ s.idempotency[other] \in JobIds
      BY <2>2, IndexedJob DEF n
    <3>2. s.idempotency[other] \in Int /\ n \in Int
      BY <1>5, <3>1, JobStoreAssumption DEF JobIds
    <3> QED BY <3>1, <3>2
  <2> QED BY <2>1, <2>2
<1>9. \A k \in IndexKeys : Lines(s)[k] = LineOf(s, k) /\ Lines(t)[k] = LineOf(t, k)
  BY DEF Lines
<1>10. Lines(s)[ik] = [job |-> 0]
  BY <1>2, <1>5, <1>9 DEF LineOf
<1>11. ASSUME NEW other \in IndexKeys PROVE Lines(s)[other].job # n
  <2>1. LineOf(s, other).job = s.idempotency[other]
    BY DEF LineOf
  <2> QED BY <1>8, <1>9, <2>1
<1>12. Lines(t)[ik] = [job |-> n, params |-> params, outcome |-> "pending"]
  <2>1. t.idempotency[ik] = n /\ t.jobs[n] = new
    BY <1>2, <1>4, <1>5, <1>6
  <2>2. ~IsTerminal(new)
    BY <1>3 DEF IsTerminal, TerminalStates
  <2> QED BY <1>2, <1>3, <1>7, <1>9, <2>1, <2>2 DEF LineOf
<1>13. ASSUME NEW other \in IndexKeys, other # ik PROVE Lines(t)[other] = Lines(s)[other]
  <2>1. t.idempotency[other] = s.idempotency[other]
    BY <1>4, <1>6, <1>13
  <2>2. s.idempotency[other] # 0 => t.jobs[s.idempotency[other]] = s.jobs[s.idempotency[other]]
    BY <1>4, <1>6, <1>8, IndexedJob
  <2>3. LineOf(t, other) = LineOf(s, other)
    BY <2>1, <2>2 DEF LineOf
  <2> QED BY <1>9, <2>3
<1>14. Lines(t) = [k \in IndexKeys |-> Lines(t)[k]] /\ Lines(s) = [k \in IndexKeys |-> Lines(s)[k]]
  BY DEF Lines
<1> DEFINE line == [job |-> n, params |-> params, outcome |-> "pending"]
<1> HIDE DEF line
<1>15. Lines(t) = [Lines(s) EXCEPT ![ik] = line]
  BY <1>2, <1>12, <1>13, <1>14 DEF line
<1>16. WritesLine(Lines(s), Lines(t), ik, n, params)
  BY <1>10, <1>11, <1>15 DEF line, WritesLine
<1> QED BY <1>2, <1>5, <1>16

\* jobs.json implements the ledger: for every number of owners, keys and jobs, and
\* through every commit failure and restart, a key's line is written once, under a
\* number no other line has, and settled at most once.
THEOREM ImplementsTheLedger == Spec => ImplementsLedger
<1> DEFINE L == [ik \in IndexKeys |-> LedgerLine(ik)]
<1>1. L = Lines(disk) /\ L' = Lines(disk')
  BY DEF Lines, LineOf, LedgerLine
<1>2. Init => Ledger!LedgerInit
  <2> SUFFICES ASSUME Init PROVE L = [ik \in IndexKeys |-> [job |-> 0]]
    BY DEF Ledger!LedgerInit, Ledger!Blank
  <2> QED BY DEF Init, EmptyState, LedgerLine
<1>3. ASSUME StoreInv, [Next]_vars PROVE Ledger!LedgerNext \/ L' = L
  <2> HIDE DEF L
  <2>1. disk \in PersistentState /\ ValidState(disk, TRUE)
    BY <1>3 DEF StoreInv, TypeOK
  <2>2. StoreStep
    BY <1>3, StoreNext
  <2>3. CASE disk' = disk
    BY <1>1, <2>3
  <2>4. CASE UpdatedFrom(disk, disk')
    <3>1. PICK settled \in SUBSET IndexKeys :
            /\ \A ik \in settled :
                  Lines(disk)[ik] # [job |-> 0] /\ Lines(disk)[ik].outcome = "pending"
            /\ \E outcome \in [settled -> TerminalStates] :
                 Lines(disk') = [ik \in IndexKeys |->
                                   IF ik \in settled
                                   THEN [Lines(disk)[ik] EXCEPT !.outcome = outcome[ik]]
                                   ELSE Lines(disk)[ik]]
      BY <2>1, <2>4, UpdateSettles
    <3>2. Ledger!Outcomes \ {"pending"} = TerminalStates
      BY DEF Ledger!Outcomes, TerminalStates
    <3> DEFINE Settles(M, N) ==
                 /\ \A ik \in settled : M[ik] # [job |-> 0] /\ M[ik].outcome = "pending"
                 /\ \E outcome \in [settled -> TerminalStates] :
                      N = [ik \in IndexKeys |->
                             IF ik \in settled THEN [M[ik] EXCEPT !.outcome = outcome[ik]] ELSE M[ik]]
    <3>3. Settles(L, L')
      <4>1. Settles(Lines(disk), Lines(disk'))
        BY <3>1
      <4> HIDE DEF Settles
      <4> QED BY <1>1, <4>1
    <3>4. Ledger!Settle(settled)
      BY <3>2, <3>3 DEF Ledger!Settle, Ledger!Blank, L
    <3> QED BY <3>4 DEF Ledger!LedgerNext
  <2>5. CASE SubmittedFrom(disk, disk')
    <3>1. PICK ik \in IndexKeys, n \in JobIds, p \in Params :
             WritesLine(Lines(disk), Lines(disk'), ik, n, p)
      BY <2>1, <2>5, SubmissionWrites
    <3>2. WritesLine(L, L', ik, n, p)
      BY <1>1, <3>1
    <3>3. Ledger!Accept(ik, n, p)
      BY <3>2 DEF Ledger!Accept, Ledger!Blank, WritesLine, L
    <3> QED BY <3>3 DEF Ledger!LedgerNext
  <2> QED BY <2>2, <2>3, <2>4, <2>5 DEF StoreStep
<1>4. StoreInv /\ [Next]_vars => [Ledger!LedgerNext]_L
  BY <1>3
<1> QED BY <1>2, <1>4, StoreInvariant, PTL DEF Spec, ImplementsLedger, Ledger!LedgerSpec

-----------------------------------------------------------------------------
(* Which archive a pack owns.                                              *)

ArchiveOf(job) == job.marker.published_archive

\* An archive a worker published stays at its path until somebody removes it; what
\* record_pack_publication reads there is the worker's own archive, unless somebody
\* removed that before; only such an identity gets into a marker, and only a pack
\* with one completes.
OwnInv ==
    /\ \A j \in published \ tampered :
          j \in Retained(disk) /\ IsPack(disk.jobs[j]) /\ files[Output(disk.jobs[j])] = j
    /\ \A j \in JobIds : verifying[j] # NoArchive =>
          j \in published /\ (j \notin tampered => verifying[j] = j)
    /\ \A j \in Retained(disk) :
          /\ ArchiveOf(disk.jobs[j]) # NoArchive =>
                j \in published /\ (j \notin tampered => ArchiveOf(disk.jobs[j]) = j)
          /\ IsPack(disk.jobs[j]) /\ disk.jobs[j].state = "completed" =>
                ArchiveOf(disk.jobs[j]) # NoArchive

\* What an update may do to a job's marker, when v is the identity a record call has
\* read: clear or keep it, complete the job with what it says, or note v.
MarkStep(job, new, v) ==
    \/ new = job
    \/ new.state # "completed" /\ ArchiveOf(new) \in {NoArchive, ArchiveOf(job)}
    \/ ArchiveOf(new) = ArchiveOf(job) /\ (IsPack(job) => ArchiveOf(job) # NoArchive)
    \/ new.state # "completed" /\ v # NoArchive /\ ArchiveOf(new) = v

\* What a step does to the jobs of jobs.json.
Marks ==
    /\ \A j \in Retained(disk) : MarkStep(disk.jobs[j], disk'.jobs[j], verifying[j])
    /\ \A j \in Retained(disk') \ Retained(disk) :
          disk'.jobs[j].state # "completed" /\ ArchiveOf(disk'.jobs[j]) = NoArchive

\* A job that gets an event, and another state or error, keeps its marker.
LEMMA ChangedMarks ==
  ASSUME NEW job \in Job, NEW mid \in Job, mid.marker = job.marker, mid.state # "completed", NEW v
  PROVE  MarkStep(job, AppendEvent(mid), v)
<1>1. AppendEvent(mid).state = mid.state /\ AppendEvent(mid).marker = mid.marker
  BY AppendEventType
<1> QED BY <1>1 DEF MarkStep, ArchiveOf

LEMMA RunningMarks ==
  ASSUME NEW job \in Job, NEW absent \in BOOLEAN, NEW v
  PROVE  MarkStep(job, Running(job, absent), v)
<1> DEFINE m == PrepareMarker(job, absent)
           mid == [job EXCEPT !.state = "running", !.marker = m]
<1>1. m \in Markers /\ m.published_archive = NoArchive
  BY PrepareMarkerType
<1> HIDE DEF m
<1>2. mid \in Job /\ mid.state = "running" /\ mid.marker = m
  BY <1>1 DEF Job, JobStates
<1>3. Running(job, absent) = AppendEvent(mid)
  BY DEF Running, m
<1> HIDE DEF mid
<1>4. AppendEvent(mid).state = "running" /\ AppendEvent(mid).marker = m
  BY <1>2, AppendEventType
<1> QED BY <1>1, <1>3, <1>4 DEF MarkStep, ArchiveOf

LEMMA CancellingMarks ==
  ASSUME NEW job \in Job, NEW v
  PROVE  MarkStep(job, AppendEvent([job EXCEPT !.state = "cancelling"]), v)
<1> DEFINE mid == [job EXCEPT !.state = "cancelling"]
<1>1. mid \in Job /\ mid.marker = job.marker /\ mid.state # "completed"
  BY DEF Job, JobStates
<1> HIDE DEF mid
<1>2. MarkStep(job, AppendEvent(mid), v)
  BY <1>1, ChangedMarks
<1> QED BY <1>2 DEF mid

LEMMA CancelledMarks ==
  ASSUME NEW job \in Job, NEW v PROVE MarkStep(job, Cancelled(job), v)
<1> DEFINE mid == [job EXCEPT !.state = "cancelled", !.error = "cancelled"]
<1>1. mid \in Job /\ mid.marker = job.marker /\ mid.state # "completed"
  BY DEF Job, JobStates, TerminalStates, Errors
<1> HIDE DEF mid
<1>2. MarkStep(job, AppendEvent(mid), v)
  BY <1>1, ChangedMarks
<1> QED BY <1>2 DEF mid, Cancelled

LEMMA FailedMarks ==
  ASSUME NEW job \in Job, NEW error \in Errors, NEW v PROVE MarkStep(job, Failed(job, error), v)
<1> DEFINE mid == [job EXCEPT !.state = IF error = "cancelled" THEN "cancelled" ELSE "failed",
                              !.result = "none", !.error = error]
<1>1. mid \in Job /\ mid.marker = job.marker /\ mid.state # "completed"
  BY DEF Job, JobStates, TerminalStates
<1> HIDE DEF mid
<1>2. MarkStep(job, AppendEvent(mid), v)
  BY <1>1, ChangedMarks
<1> QED BY <1>2 DEF mid, Failed

LEMMA CompletedMarks ==
  ASSUME NEW job \in Job, IsPack(job) => ArchiveOf(job) # NoArchive, NEW v
  PROVE  MarkStep(job, Completed(job), v)
<1> DEFINE mid == [job EXCEPT !.state = "completed", !.result = "value", !.error = "none"]
<1>1. mid \in Job /\ mid.marker = job.marker
  BY DEF Job, JobStates, TerminalStates, Errors
<1> HIDE DEF mid
<1>2. AppendEvent(mid).marker = job.marker
  BY <1>1, AppendEventType
<1>3. Completed(job) = AppendEvent(mid)
  BY DEF mid, Completed
<1> QED BY <1>2, <1>3 DEF MarkStep, ArchiveOf

LEMMA PublishedMarks ==
  ASSUME NEW job \in Job, job.state # "completed", NEW archive \in Archives
  PROVE  MarkStep(job, Published(job, archive), archive)
<1> DEFINE m == [job.marker EXCEPT !.published_archive = archive]
           mid == [job EXCEPT !.marker.published_archive = archive]
<1>1. m \in Markers /\ m.published_archive = archive
  BY DEF Job, Markers
<1>2. mid = [job EXCEPT !.marker = m]
  BY DEF Job
<1> HIDE DEF m, mid
<1>3. mid \in Job /\ mid.state = job.state /\ mid.marker = m
  BY <1>1, <1>2 DEF Job
<1>4. AppendEvent(mid).marker = m /\ AppendEvent(mid).state = job.state
  BY <1>3, AppendEventType
<1>5. Published(job, archive) = AppendEvent(mid)
  BY DEF mid, Published
<1>6. archive # NoArchive
  BY JobStoreAssumption DEF Archives, Foreign, JobIds, NoArchive
<1> QED BY <1>1, <1>4, <1>5, <1>6 DEF MarkStep, ArchiveOf

LEMMA OtherMarks ==
  ASSUME NEW job \in Job, NEW v
  PROVE  /\ MarkStep(job, CancelRequested(job), v)
         /\ MarkStep(job, DeadlineExpired(job), v)
         /\ MarkStep(job, ShutDown(job), v)
<1>1. "other" \in Errors /\ "cancelled" \in Errors
  BY DEF Errors
<1>2. MarkStep(job, job, v)
  BY DEF MarkStep
<1>3. /\ MarkStep(job, Cancelled(job), v) /\ MarkStep(job, Failed(job, "other"), v)
      /\ MarkStep(job, Failed(job, "cancelled"), v)
      /\ MarkStep(job, AppendEvent([job EXCEPT !.state = "cancelling"]), v)
  BY <1>1, CancelledMarks, FailedMarks, CancellingMarks
<1>4. MarkStep(job, CancelRequested(job), v)
  <2>1. CASE job.state = "queued"
    BY <1>3, <2>1 DEF CancelRequested, Cancelled
  <2>2. CASE job.state = "running"
    BY <1>3, <2>2 DEF CancelRequested
  <2>3. CASE job.state \notin {"queued", "running"}
    BY <1>2, <2>3 DEF CancelRequested
  <2> QED BY <2>1, <2>2, <2>3
<1>5. MarkStep(job, DeadlineExpired(job), v)
  <2>1. CASE job.state = "queued"
    BY <1>3, <2>1 DEF DeadlineExpired
  <2>2. CASE job.state = "running"
    BY <1>3, <2>2 DEF DeadlineExpired
  <2>3. CASE job.state \notin {"queued", "running"}
    BY <1>2, <2>3 DEF DeadlineExpired
  <2> QED BY <2>1, <2>2, <2>3
<1>6. MarkStep(job, ShutDown(job), v)
  <2>1. CASE job.state = "queued"
    BY <1>3, <2>1 DEF ShutDown
  <2>2. CASE job.state = "running"
    BY <1>3, <2>2 DEF ShutDown
  <2>3. CASE job.state \notin {"queued", "running"}
    BY <1>2, <2>3 DEF ShutDown
  <2> QED BY <2>1, <2>2, <2>3
<1> QED BY <1>4, <1>5, <1>6

LEMMA RecoveredMarks ==
  ASSUME NEW job \in Job, WellFormed(job), NEW found, NEW v
  PROVE  MarkStep(job, Recovered(job, found), v)
<1>1. CASE IsTerminal(job)
  BY <1>1, RecoveredSuccessor DEF MarkStep
<1>2. CASE ~IsTerminal(job) /\ RecoversArchive(job, found)
  <2>1. ArchiveOf(job) # NoArchive
    BY <1>2 DEF RecoversArchive, ArchiveOf
  <2> QED BY <1>2, <2>1, CompletedMarks DEF Recovered
<1>3. CASE ~IsTerminal(job) /\ ~RecoversArchive(job, found)
  <2>1. "other" \in Errors
    BY DEF Errors
  <2> QED BY <1>3, <2>1, FailedMarks DEF Recovered
<1> QED BY <1>1, <1>2, <1>3

LEMMA NewMarks ==
  ASSUME NEW owner \in Owners, NEW key \in Keys, NEW params \in Params
  PROVE  /\ NewJob(owner, key, params).state # "completed"
         /\ ArchiveOf(NewJob(owner, key, params)) = NoArchive
<1> DEFINE raw == [owner |-> owner, key |-> key, params |-> params,
                   state |-> "queued", result |-> "none", error |-> "none",
                   events |-> <<>>, next_sequence |-> 1, marker |-> NoMarker]
<1>1. raw \in Job /\ raw.state = "queued" /\ raw.marker = NoMarker
  BY NoMarkerType DEF Job, JobStates, Errors
<1>2. NewJob(owner, key, params) = AppendEvent(raw)
  BY DEF NewJob
<1> HIDE DEF raw
<1>3. AppendEvent(raw).state = "queued" /\ AppendEvent(raw).marker = NoMarker
  BY <1>1, AppendEventType
<1>4. NoMarker.published_archive = NoArchive
  BY DEF NoMarker
<1> QED BY <1>2, <1>3, <1>4 DEF ArchiveOf

\* A step that leaves jobs.json alone leaves the markers alone.
LEMMA SameMarks == ASSUME disk' = disk PROVE Marks
  BY DEF Marks, MarkStep

\* update_owned changes the marker of its own job only.
LEMMA OwnedMarks ==
  ASSUME StoreInv, NEW io \in CommitOutcomes, NEW j, NEW new, Live(j),
         Successor(mem.jobs[j], new), IsTerminal(mem.jobs[j]) => new = mem.jobs[j],
         MarkStep(mem.jobs[j], new, verifying[j]),
         UpdateOwned(j, new, io)
  PROVE  Marks
<1>1. up /\ j \in Retained(mem) /\ mem = disk /\ disk \in PersistentState /\ ValidState(disk, TRUE)
  BY DEF Live, StoreInv, MemoryIsDisk, TypeOK
<1>2. UpdatedFrom(mem, WithJob(mem, j, new))
  BY <1>1, WithJobUpdates
<1>3. (io # "refused" => disk' = WithJob(mem, j, new)) /\ (io = "refused" => disk' = disk)
  <2>1. Commit(WithJob(mem, j, new), io)
    BY DEF UpdateOwned
  <2> QED BY <1>1, <1>2, <2>1, CommitStep
<1>4. CASE disk' = disk
  BY <1>4, SameMarks
<1>5. CASE disk' = WithJob(mem, j, new)
  <2>1. disk.jobs \in [JobIds -> Job \cup {NoJob}] /\ j \in JobIds
    BY <1>1, StoreTypes DEF Retained
  <2>2. disk'.jobs = [disk.jobs EXCEPT ![j] = new]
    BY <1>1, <1>5 DEF WithJob, PersistentState
  <2>3. disk'.jobs[j] = new /\ \A k \in JobIds : k # j => disk'.jobs[k] = disk.jobs[k]
    BY <2>1, <2>2
  <2>4. Retained(disk') = Retained(disk)
    BY <1>1, <1>2, <1>5, UpdatedValid
  <2>5. \A k \in Retained(disk) : MarkStep(disk.jobs[k], disk'.jobs[k], verifying[k])
    <3> TAKE k \in Retained(disk)
    <3>1. CASE k = j
      BY <3>1, <2>3, <1>1
    <3>2. CASE k # j
      <4>1. disk'.jobs[k] = disk.jobs[k]
        BY <3>2, <2>3 DEF Retained
      <4> QED BY <4>1 DEF MarkStep
    <3> QED BY <3>1, <3>2
  <2> QED BY <2>4, <2>5 DEF Marks
<1> QED BY <1>3, <1>4, <1>5

\* The operations made of one update_owned.
LEMMA UpdateCallMarks ==
  ASSUME StoreInv, NEW io \in CommitOutcomes, NEW j,
         \/ StartRunning(j, io)
         \/ RequestCancel(j, io)
         \/ FinishCancelled(j, io)
         \/ Complete(j, io)
         \/ \E error \in Errors \ {"none"} : Fail(j, error, io)
         \/ ExpireDeadline(j, io)
  PROVE  Marks
<1>1. Live(j)
  BY DEF StartRunning, RequestCancel, FinishCancelled, Complete, Fail, ExpireDeadline
<1>2. mem.jobs[j] \in Job /\ WellFormed(mem.jobs[j])
  BY <1>1, LiveJob
<1> DEFINE job == mem.jobs[j]
<1>3. \E new : /\ Successor(job, new)
               /\ IsTerminal(job) => new = job
               /\ MarkStep(job, new, verifying[j])
               /\ UpdateOwned(j, new, io)
  <2>1. CASE StartRunning(j, io)
    <3> DEFINE absent == IsPack(job) /\ files[Output(job)] = Absent
    <3>1. job.state = "queued" /\ UpdateOwned(j, Running(job, absent), io) /\ absent \in BOOLEAN
      BY <2>1 DEF StartRunning, ValidTransition
    <3>2. Successor(job, Running(job, absent)) /\ MarkStep(job, Running(job, absent), verifying[j])
      BY <1>2, <3>1, RunningSuccessor, RunningMarks
    <3> QED BY <3>1, <3>2 DEF IsTerminal, TerminalStates
  <2>2. CASE RequestCancel(j, io)
    BY <2>2, <1>2, CancelRequestedSuccessor, OtherMarks DEF RequestCancel
  <2>3. CASE FinishCancelled(j, io)
    BY <2>3, <1>2, CancelledSuccessor, CancelledMarks DEF FinishCancelled, IsTerminal, TerminalStates
  <2>4. CASE Complete(j, io)
    <3>1. IsPack(job) => ArchiveOf(job) # NoArchive
      BY <2>4 DEF Complete, PublicationRecorded, ArchiveOf
    <3> QED BY <2>4, <1>2, <3>1, CompletedSuccessor, CompletedMarks
            DEF Complete, IsTerminal, TerminalStates
  <2>5. CASE \E error \in Errors \ {"none"} : Fail(j, error, io)
    BY <2>5, <1>2, FailedSuccessor, FailedMarks DEF Fail
  <2>6. CASE ExpireDeadline(j, io)
    BY <2>6, <1>2, DeadlineSuccessor, OtherMarks DEF ExpireDeadline, IsTerminal, TerminalStates
  <2> QED BY <2>1, <2>2, <2>3, <2>4, <2>5, <2>6
<1> QED BY <1>1, <1>3, OwnedMarks

\* record_pack_publication notes the identity it read.
LEMMA RecordMarks ==
  ASSUME StoreInv, NEW j \in JobIds, NEW io \in CommitOutcomes, RecordCommit(j, io)
  PROVE  Marks
<1> DEFINE job == mem.jobs[j]
           accepted == /\ job.state \in {"running", "cancelling"}
                       /\ job.marker.present /\ job.marker.output_was_absent
                       /\ job.marker.published_archive \in {NoArchive, verifying[j]}
           new == IF job.marker.published_archive = NoArchive
                  THEN Published(job, verifying[j]) ELSE job
<1>1. Live(j) /\ TypeOK /\ verifying[j] # NoArchive
      /\ (IF accepted THEN UpdateOwned(j, new, io) ELSE UNCHANGED <<mem, disk, up, healthy, closed>>)
  BY DEF RecordCommit, StoreInv
<1>2. job \in Job /\ WellFormed(job)
  BY <1>1, LiveJob
<1>3. verifying[j] \in Archives
  BY <1>1 DEF TypeOK
<1>4. CASE accepted
  <2>1. Successor(job, new)
    BY <1>4, <1>2, <1>3, PublishedSuccessor, SelfSuccessor
  <2>2. MarkStep(job, new, verifying[j])
    <3>1. MarkStep(job, job, verifying[j])
      BY DEF MarkStep
    <3>2. MarkStep(job, Published(job, verifying[j]), verifying[j])
      BY <1>4, <1>2, <1>3, PublishedMarks
    <3> QED BY <3>1, <3>2
  <2>3. IsTerminal(job) => new = job
    BY <1>4 DEF IsTerminal, TerminalStates
  <2>4. UpdateOwned(j, new, io)
    BY <1>4, <1>1
  <2> HIDE DEF new, accepted
  <2> QED BY <1>1, <2>1, <2>2, <2>3, <2>4, OwnedMarks
<1>5. CASE ~accepted
  BY <1>5, <1>1, SameMarks
<1> QED BY <1>4, <1>5

\* Replacing the whole jobs map.
LEMMA MappedMarks ==
  ASSUME NEW s \in PersistentState, NEW f, disk = s, disk' = [s EXCEPT !.jobs = f],
         Retained(disk') = Retained(s),
         \A j \in Retained(s) : MarkStep(s.jobs[j], f[j], verifying[j])
  PROVE  Marks
<1>1. disk'.jobs = f
  BY DEF PersistentState
<1> QED BY <1>1 DEF Marks

\* close_and_cancel_all completes nothing and clears no marker.
LEMMA CloseMarks ==
  ASSUME StoreInv, NEW io \in CommitOutcomes, CloseAndCancelAll(io)
  PROVE  Marks
<1> DEFINE f == [j \in JobIds |-> IF j \in Nonterminal(mem) THEN ShutDown(mem.jobs[j]) ELSE mem.jobs[j]]
           next == [mem EXCEPT !.jobs = f]
<1>1. up /\ mem = disk /\ mem \in PersistentState /\ ValidState(mem, TRUE)
  BY DEF CloseAndCancelAll, StoreInv, MemoryIsDisk, TypeOK
<1>2. UpdatedFrom(mem, next)
  BY <1>1, ClosedUpdates
<1>3. IF next # mem THEN Commit(next, io) ELSE UNCHANGED <<mem, disk, healthy>>
  BY DEF CloseAndCancelAll
<1>4. \A j \in Retained(mem) : MarkStep(mem.jobs[j], f[j], verifying[j])
  <2> TAKE j \in Retained(mem)
  <2>1. j \in JobIds /\ mem.jobs[j] \in Job
    BY <1>1, RetainedJob
  <2>2. MarkStep(mem.jobs[j], mem.jobs[j], verifying[j])
    BY DEF MarkStep
  <2>3. MarkStep(mem.jobs[j], ShutDown(mem.jobs[j]), verifying[j])
    BY <2>1, OtherMarks
  <2> QED BY <2>1, <2>2, <2>3
<1>5. disk' = disk \/ disk' = next
  <2> HIDE DEF next
  <2>1. CASE next # mem
    BY <2>1, <1>1, <1>2, <1>3, CommitStep
  <2>2. CASE next = mem
    BY <2>2, <1>3
  <2> QED BY <2>1, <2>2
<1>6. CASE disk' = next
  <2>1. Retained(next) = Retained(mem)
    BY <1>1, <1>2, UpdatedValid
  <2> HIDE DEF f
  <2> QED BY <1>1, <1>4, <1>6, <2>1, MappedMarks
<1> QED BY <1>5, <1>6, SameMarks

\* Recovery completes a pack only with the identity its marker recorded.
LEMMA OpenMarks ==
  ASSUME StoreInv, NEW io \in CommitOutcomes, Open(io)
  PROVE  Marks
<1> DEFINE found(j) == IF IsPack(disk.jobs[j]) THEN files[Output(disk.jobs[j])] ELSE Absent
           f == [j \in JobIds |-> IF disk.jobs[j] = NoJob THEN NoJob
                                  ELSE Recovered(disk.jobs[j], found(j))]
<1>1. disk \in PersistentState /\ ValidState(disk, TRUE) /\ disk' = RecoveredState(disk)
  BY DEF Open, StoreInv, TypeOK
<1>2. disk' = [disk EXCEPT !.jobs = f]
  BY <1>1 DEF RecoveredState
<1>3. Retained(disk') = Retained(disk)
  BY <1>1, RecoveredUpdates, UpdatedValid
<1>4. \A j \in Retained(disk) : MarkStep(disk.jobs[j], f[j], verifying[j])
  <2> TAKE j \in Retained(disk)
  <2>1. j \in JobIds /\ disk.jobs[j] # NoJob /\ disk.jobs[j] \in Job /\ WellFormed(disk.jobs[j])
    BY <1>1, RetainedJob, RetainedWellFormed DEF Retained
  <2>2. f[j] = Recovered(disk.jobs[j], found(j))
    BY <2>1
  <2> HIDE DEF f, found
  <2> QED BY <2>1, <2>2, RecoveredMarks
<1> HIDE DEF f
<1> QED BY <1>1, <1>2, <1>3, <1>4, MappedMarks

\* A submission adds a queued job without a marker.
LEMMA SubmitMarks ==
  ASSUME StoreInv, NEW owner \in Owners, NEW key \in Keys, NEW params \in Params,
         NEW io \in CommitOutcomes, Submit(owner, key, params, io)
  PROVE  Marks
<1> DEFINE new == NewJob(owner, key, params)
           next == [next_job |-> mem.next_job + 1,
                    jobs |-> [mem.jobs EXCEPT ![mem.next_job] = new],
                    idempotency |-> [mem.idempotency EXCEPT ![<<owner, key>>] = mem.next_job]]
<1>1. up /\ mem = disk /\ mem \in PersistentState /\ ValidState(mem, TRUE) /\ Commit(next, io)
  BY DEF Submit, StoreInv, TypeOK, MemoryIsDisk
<1>2. mem.next_job \in JobIds /\ mem.next_job \notin Retained(mem)
  <2>1. mem.next_job \in JobIds
    BY SubmitStep
  <2>2. \A j \in Retained(mem) : j < mem.next_job
    BY <1>1, RetainedIndexed
  <2> QED BY <2>1, <2>2, JobStoreAssumption DEF JobIds
<1>3. SubmittedFrom(mem, next)
  BY <1>2 DEF Submit, SubmittedFrom
<1>4. disk' = disk \/ disk' = next
  <2> HIDE DEF next
  <2> QED BY <1>1, <1>3, CommitStep
<1>5. CASE disk' = next
  <2>1. disk'.jobs = [disk.jobs EXCEPT ![disk.next_job] = new]
    BY <1>1, <1>5
  <2>2. disk.jobs \in [JobIds -> Job \cup {NoJob}]
    BY <1>1, StoreTypes
  <2> HIDE DEF new
  <2>3. disk'.jobs[disk.next_job] = new
        /\ \A j \in JobIds : j # disk.next_job => disk'.jobs[j] = disk.jobs[j]
    BY <1>1, <1>2, <2>1, <2>2
  <2>4. \A j \in Retained(disk) : MarkStep(disk.jobs[j], disk'.jobs[j], verifying[j])
    BY <1>1, <1>2, <2>3 DEF Retained, MarkStep
  <2>5. \A j \in Retained(disk') \ Retained(disk) : disk'.jobs[j] = new
    BY <2>3 DEF Retained
  <2>6. new.state # "completed" /\ ArchiveOf(new) = NoArchive
    BY NewMarks DEF new
  <2> QED BY <2>4, <2>5, <2>6 DEF Marks
<1> QED BY <1>4, <1>5, SameMarks

\* What every step does to the markers.
LEMMA NextMarks ==
  ASSUME StoreInv, [Next]_vars
  PROVE  Marks
<1>1. CASE \E io \in CommitOutcomes : Calls(io)
  <2> PICK io \in CommitOutcomes : Calls(io)
    BY <1>1
  <2>1. CASE \E owner \in Owners, key \in Keys, params \in Params : Submit(owner, key, params, io)
    BY <2>1, SubmitMarks
  <2>2. CASE \E j \in JobIds : \/ StartRunning(j, io)
                               \/ RequestCancel(j, io)
                               \/ FinishCancelled(j, io)
                               \/ Complete(j, io)
                               \/ \E error \in Errors \ {"none"} : Fail(j, error, io)
                               \/ ExpireDeadline(j, io)
    BY <2>2, UpdateCallMarks
  <2>3. CASE \E j \in JobIds : RecordCommit(j, io)
    BY <2>3, RecordMarks
  <2>4. CASE CloseAndCancelAll(io)
    BY <2>4, CloseMarks
  <2>5. CASE Open(io)
    BY <2>5, OpenMarks
  <2> QED BY <2>1, <2>2, <2>3, <2>4, <2>5 DEF Calls
<1>2. CASE ~\E io \in CommitOutcomes : Calls(io)
  BY <1>2, QuietStep, SameMarks DEF Next
<1> QED BY <1>1, <1>2

\* A job stays in jobs.json, with its parameters.
LEMMA StepKeepsJobs ==
  ASSUME StoreInv, StoreStep, NEW j \in Retained(disk)
  PROVE  j \in Retained(disk') /\ disk'.jobs[j].params = disk.jobs[j].params
<1>1. disk \in PersistentState /\ ValidState(disk, TRUE)
  BY DEF StoreInv, TypeOK
<1>2. j \in JobIds /\ disk.jobs[j] # NoJob /\ j # disk.next_job
  <2>1. j < disk.next_job /\ disk.next_job \in 1 .. MaxJobNumber
    BY <1>1, RetainedIndexed, StoreTypes
  <2> QED BY <2>1, JobStoreAssumption DEF Retained, JobIds
<1>3. CASE UpdatedFrom(disk, disk')
  <2>1. Successor(disk.jobs[j], disk'.jobs[j])
    BY <1>2, <1>3 DEF UpdatedFrom
  <2>2. Retained(disk') = Retained(disk)
    BY <1>1, <1>3, UpdatedValid
  <2> QED BY <2>1, <2>2 DEF Successor
<1>4. CASE SubmittedFrom(disk, disk')
  <2>1. disk.jobs \in [JobIds -> Job \cup {NoJob}]
    BY <1>1, StoreTypes
  <2>2. PICK owner \in Owners, key \in Keys, params \in Params :
             disk'.jobs = [disk.jobs EXCEPT ![disk.next_job] = NewJob(owner, key, params)]
    BY <1>4 DEF SubmittedFrom
  <2>3. disk'.jobs[j] = disk.jobs[j]
    BY <1>2, <2>1, <2>2
  <2> QED BY <1>2, <2>3 DEF Retained
<1>5. CASE disk' = disk
  BY <1>5 DEF Retained
<1> QED BY <1>3, <1>4, <1>5 DEF StoreStep

\* What a step does to the output paths and to what record calls have read: a worker
\* publishes at a free path, an archive goes away only with its job noted as tampered,
\* and a record call reads the archive at its own job's path.
LEMMA PathSteps ==
  ASSUME StoreInv, [Next]_vars
  PROVE  /\ published \subseteq published' /\ tampered \subseteq tampered'
         /\ \A j \in JobIds, o \in Outputs :
               files[o] = j /\ j \notin tampered' => files'[o] = j
         /\ \A j \in published' \ published :
               j \in Retained(disk) /\ IsPack(disk.jobs[j]) /\ files'[Output(disk.jobs[j])] = j
         /\ \A j \in JobIds : verifying'[j] \notin {NoArchive, verifying[j]} =>
               /\ j \in Retained(disk) \cap published /\ IsPack(disk.jobs[j])
               /\ verifying'[j] = files[Output(disk.jobs[j])]
<1>1. TypeOK /\ (up => mem = disk)
  BY DEF StoreInv, MemoryIsDisk
<1>2. files \in [Outputs -> Archives \cup {Absent}]
      /\ verifying \in [JobIds -> Archives \cup {NoArchive}]
  BY <1>1 DEF TypeOK
<1>3. CASE \E j \in JobIds : RecordVerify(j)
  <2> PICK j \in JobIds : RecordVerify(j)
    BY <1>3
  <2>1. /\ up /\ j \in Retained(mem) \cap published /\ IsPack(mem.jobs[j])
        /\ verifying' = [verifying EXCEPT ![j] = files[Output(mem.jobs[j])]]
        /\ UNCHANGED envVars
    BY DEF RecordVerify
  <2> QED BY <1>1, <1>2, <2>1 DEF envVars
<1>4. CASE \E j \in JobIds : WorkerPublish(j)
  <2> PICK j \in JobIds : WorkerPublish(j)
    BY <1>4
  <2>1. /\ up /\ j \in Retained(mem) /\ IsPack(mem.jobs[j])
        /\ files[Output(mem.jobs[j])] = Absent
        /\ files' = [files EXCEPT ![Output(mem.jobs[j])] = j]
        /\ published' = published \cup {j}
        /\ verifying' = verifying /\ tampered' = tampered
    BY DEF WorkerPublish, registryVars
  <2>2. Output(mem.jobs[j]) \in Outputs
    BY <2>1, JobStoreAssumption DEF IsPack, Output
  <2>3. \A k \in JobIds : k # Absent
    BY JobStoreAssumption DEF JobIds, Absent
  <2> QED BY <1>1, <1>2, <2>1, <2>2, <2>3
<1>5. CASE \E o \in Outputs : ForeignArchive(o) \/ RemoveFile(o)
  <2> PICK o \in Outputs : ForeignArchive(o) \/ RemoveFile(o)
    BY <1>5
  <2>1. UNCHANGED <<verifying, published>>
    BY DEF ForeignArchive, RemoveFile, registryVars
  <2>2. \A k \in JobIds : k # Absent
    BY JobStoreAssumption DEF JobIds, Absent
  <2>3. CASE ForeignArchive(o)
    BY <1>2, <2>1, <2>2, <2>3 DEF ForeignArchive
  <2>4. CASE RemoveFile(o)
    BY <1>2, <2>1, <2>2, <2>4 DEF RemoveFile
  <2> QED BY <2>3, <2>4
<1>6. CASE Crash
  BY <1>2, <1>6 DEF Crash, envVars
<1>7. CASE \E j \in JobIds, io \in CommitOutcomes : RecordCommit(j, io)
  BY <1>2, <1>7 DEF RecordCommit, envVars
<1>8. CASE UNCHANGED <<verifying, envVars>>
  BY <1>8 DEF envVars
<1>9. CASE \E io \in CommitOutcomes : Calls(io)
  BY <1>9, <1>7, <1>8 DEF Calls, Submit, StartRunning, RequestCancel, FinishCancelled,
     Complete, Fail, ExpireDeadline, CloseAndCancelAll, Open, CommitOutcomes
<1>10. CASE \E owner \in Owners, key \in Keys, params \in Params : Replay(owner, key, params)
  BY <1>8, <1>10 DEF Replay
<1>11. CASE UNCHANGED vars
  BY <1>8, <1>11 DEF vars, registryVars
<1> QED BY <1>3, <1>4, <1>5, <1>6, <1>9, <1>10, <1>11 DEF Next

\* Every step preserves the invariant of archive ownership.
LEMMA OwnNext ==
  ASSUME StoreInv, OwnInv, [Next]_vars
  PROVE  OwnInv'
<1>1. StoreInv' /\ StoreStep
  BY StoreNext
<1>2. Marks
  BY NextMarks
<1>3. /\ published \subseteq published' /\ tampered \subseteq tampered'
      /\ published' \subseteq JobIds
  BY <1>1, PathSteps DEF StoreInv, TypeOK
<1>4. \A j \in Retained(disk) :
         /\ j \in Retained(disk') /\ disk'.jobs[j].params = disk.jobs[j].params
         /\ IsPack(disk'.jobs[j]) = IsPack(disk.jobs[j])
         /\ Output(disk'.jobs[j]) = Output(disk.jobs[j])
  BY <1>1, StepKeepsJobs DEF IsPack, Output
<1>5. \A j \in Retained(disk) : IsPack(disk.jobs[j]) => Output(disk.jobs[j]) \in Outputs
  BY JobStoreAssumption DEF IsPack, Output
<1>6. ASSUME NEW j \in published' \ tampered'
      PROVE  j \in Retained(disk') /\ IsPack(disk'.jobs[j]) /\ files'[Output(disk'.jobs[j])] = j
  <2>1. j \in JobIds
    BY <1>3
  <2>2. j \in Retained(disk) /\ IsPack(disk.jobs[j]) /\ files'[Output(disk.jobs[j])] = j
    <3>1. CASE j \in published
      <4>1. j \in Retained(disk) /\ IsPack(disk.jobs[j]) /\ files[Output(disk.jobs[j])] = j
        BY <3>1, <1>3 DEF OwnInv
      <4> QED BY <2>1, <4>1, <1>5, PathSteps
    <3>2. CASE j \notin published
      BY <3>2, PathSteps
    <3> QED BY <3>1, <3>2
  <2> QED BY <2>2, <1>4
<1>7. ASSUME NEW j \in JobIds, verifying'[j] # NoArchive
      PROVE  j \in published' /\ (j \notin tampered' => verifying'[j] = j)
  <2>1. CASE verifying'[j] = verifying[j]
    BY <2>1, <1>7, <1>3 DEF OwnInv
  <2>2. CASE verifying'[j] # verifying[j]
    <3>1. j \in published /\ verifying'[j] = files[Output(disk.jobs[j])]
      BY <2>2, <1>7, PathSteps
    <3>2. j \notin tampered' => files[Output(disk.jobs[j])] = j
      BY <3>1, <1>3 DEF OwnInv
    <3> QED BY <3>1, <3>2, <1>3
  <2> QED BY <2>1, <2>2
<1>8. ASSUME NEW j \in Retained(disk')
      PROVE  /\ ArchiveOf(disk'.jobs[j]) # NoArchive =>
                   j \in published' /\ (j \notin tampered' => ArchiveOf(disk'.jobs[j]) = j)
             /\ IsPack(disk'.jobs[j]) /\ disk'.jobs[j].state = "completed" =>
                   ArchiveOf(disk'.jobs[j]) # NoArchive
  <2>1. CASE j \in Retained(disk)
    <3> DEFINE job == disk.jobs[j]
               new == disk'.jobs[j]
    <3>1. MarkStep(job, new, verifying[j])
      BY <2>1, <1>2 DEF Marks
    <3>2. ArchiveOf(job) # NoArchive =>
             j \in published' /\ (j \notin tampered' => ArchiveOf(job) = j)
      BY <2>1, <1>3 DEF OwnInv
    <3>3. IsPack(job) /\ job.state = "completed" => ArchiveOf(job) # NoArchive
      BY <2>1 DEF OwnInv
    <3>4. verifying[j] # NoArchive =>
             j \in published' /\ (j \notin tampered' => verifying[j] = j)
      BY <2>1, <1>3 DEF OwnInv, Retained
    <3>5. IsPack(new) = IsPack(job)
      BY <2>1, <1>4
    <3> HIDE DEF job, new
    <3>6. CASE new = job
      BY <3>6, <3>2, <3>3 DEF job, new
    <3>7. CASE new.state # "completed" /\ ArchiveOf(new) \in {NoArchive, ArchiveOf(job)}
      BY <3>7, <3>2 DEF new
    <3>8. CASE ArchiveOf(new) = ArchiveOf(job) /\ (IsPack(job) => ArchiveOf(job) # NoArchive)
      BY <3>8, <3>2, <3>5 DEF new
    <3>9. CASE new.state # "completed" /\ verifying[j] # NoArchive /\ ArchiveOf(new) = verifying[j]
      BY <3>9, <3>4 DEF new
    <3> QED BY <3>1, <3>6, <3>7, <3>8, <3>9 DEF MarkStep
  <2>2. CASE j \notin Retained(disk)
    BY <2>2, <1>2 DEF Marks
  <2> QED BY <2>1, <2>2
<1> QED BY <1>6, <1>7, <1>8 DEF OwnInv

\* No pack is recorded as completed with an archive that is not its own: neither a
\* record call that verifies outside the lock, nor a foreign archive at the path, nor
\* recovery after a crash at any point makes it claim one.
THEOREM PacksOwnTheirArchives == Spec => []CompletedPackOwnsArchive
<1>1. Init => OwnInv
  BY DEF Init, OwnInv, EmptyState, Retained
<1>2. StoreInv /\ OwnInv /\ [Next]_vars => OwnInv'
  BY OwnNext
<1>3. OwnInv => CompletedPackOwnsArchive
  BY DEF OwnInv, CompletedPackOwnsArchive, ArchiveOf
<1> QED BY <1>1, <1>2, <1>3, StoreInvariant, PTL DEF Spec
=============================================================================
