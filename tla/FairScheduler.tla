--------------------------- MODULE FairScheduler ---------------------------
(***************************************************************************)
(* FairScheduler of crates/pithos-daemon/src/scheduler.rs: the daemon's    *)
(* queue of accepted jobs.  Each priority has a lane; a lane serves its    *)
(* sessions in turn; lanes are served in rounds in which a lane has as     *)
(* many credits as its weight.                                             *)
(*                                                                         *)
(* The service keeps the scheduler behind one mutex, so a call is never    *)
(* interleaved with another.  The loop of `pop` is modelled iteration by   *)
(* iteration, so that its termination can be stated.                       *)
(*                                                                         *)
(* PriorityLane::pop skips an entry of `order` whose session has no queue, *)
(* and may return None; OrderIsSessions says neither can happen, and the   *)
(* model takes the first entry of `order` to have a job.                   *)
(***************************************************************************)
EXTENDS Integers, Sequences, FiniteSets

CONSTANTS
    NumLanes,   \* number of priorities (6 in the code)
    Weights,    \* PRIORITY_WEIGHTS
    Before,     \* Before[l]: the weights of the lanes below l, added up
    Owners,     \* session ids
    Jobs        \* job names; a name that left the scheduler may stand for a later job

Lanes == 0 .. (NumLanes - 1)

ASSUME FairSchedulerAssumption ==
    /\ NumLanes \in Nat \ {0}
    /\ Weights \in [Lanes -> Nat \ {0}]
    /\ Before \in [0 .. NumLanes -> Nat]
    /\ Before[0] = 0
    /\ \A l \in Lanes : Before[l + 1] = Before[l] + Weights[l]
    /\ \A l, k \in 0 .. NumLanes : l <= k => Before[l] <= Before[k]

VARIABLES
    order,      \* PriorityLane.order of every lane
    queue,      \* PriorityLane.sessions of every lane; an absent session is <<>>
    credits,
    cursor,
    len,
    phase,      \* the call that holds the mutex: "idle", "pop" or "drain"
    waited,     \* history: jobs of other lanes served while lane l waits for its turn
    overtaken   \* history: overtaken[l][<<o, p>>] jobs of p served in l while o waits

vars == <<order, queue, credits, cursor, len, phase, waited, overtaken>>

Init ==
    /\ order = [l \in Lanes |-> <<>>]
    /\ queue = [l \in Lanes |-> [o \in Owners |-> <<>>]]
    /\ credits = Weights
    /\ cursor = 0
    /\ len = 0
    /\ phase = "idle"
    /\ waited = [l \in Lanes |-> 0]
    /\ overtaken = [l \in Lanes |-> [pair \in Owners \X Owners |-> 0]]

\* The places of the queues that hold a job.
SlotsOf(l, o) == {<<l, o, i>> : i \in 1 .. Len(queue[l][o])}
Slots == UNION {SlotsOf(l, o) : l \in Lanes, o \in Owners}
Queued(j) == \E l \in Lanes, o \in Owners : \E i \in 1 .. Len(queue[l][o]) : queue[l][o][i] = j
LaneEmpty(l) == order[l] = <<>>

-----------------------------------------------------------------------------
\* Mutant: lets a session in once per job.
EnteredAlways(l, o) == [order EXCEPT ![l] = Append(@, o)]

\* PriorityLane::push: a session without jobs joins at the end of the order.
Entered(l, o) ==
    IF queue[l][o] = <<>> THEN [order EXCEPT ![l] = Append(@, o)] ELSE order

Push(l, o, j) ==
    /\ phase = "idle"
    /\ ~Queued(j)
    /\ order' = Entered(l, o)
    /\ queue' = [queue EXCEPT ![l][o] = Append(@, j)]
    /\ len' = len + 1
    /\ waited' = IF LaneEmpty(l) THEN [waited EXCEPT ![l] = 0] ELSE waited
    /\ overtaken' = IF queue[l][o] = <<>>
                    THEN [overtaken EXCEPT ![l] = [pair \in Owners \X Owners |->
                            IF pair[1] = o THEN 0 ELSE overtaken[l][pair]]]
                    ELSE overtaken
    /\ UNCHANGED <<credits, cursor, phase>>

\* pop returns None at once when len is 0.
StartPop ==
    /\ phase = "idle"
    /\ len # 0
    /\ phase' = "pop"
    /\ UNCHANGED <<order, queue, credits, cursor, len, waited, overtaken>>

\* drain pops until pop returns None.
StartDrain ==
    /\ phase = "idle"
    /\ phase' = "drain"
    /\ UNCHANGED <<order, queue, credits, cursor, len, waited, overtaken>>

EndDrain ==
    /\ phase = "drain"
    /\ len = 0
    /\ phase' = "idle"
    /\ UNCHANGED <<order, queue, credits, cursor, len, waited, overtaken>>

-----------------------------------------------------------------------------
(* One iteration of the loop of pop.                                       *)
\* Mutant: credits are never given back.
RoundNeverOver == FALSE

RoundOver == \A l \in Lanes : credits[l] = 0
RoundCredits == IF RoundOver THEN Weights ELSE credits
RoundCursor == IF RoundOver THEN 0 ELSE cursor

NextLane(l) == (l + 1) % NumLanes

\* An empty lane loses the credits it has left in this round.
Skipped(c, l) == [c EXCEPT ![l] = 0]

Skip ==
    /\ phase \in {"pop", "drain"}
    /\ len # 0
    /\ RoundCredits[RoundCursor] = 0 \/ LaneEmpty(RoundCursor)
    /\ credits' = Skipped(RoundCredits, RoundCursor)
    /\ cursor' = NextLane(RoundCursor)
    /\ UNCHANGED <<order, queue, len, phase, waited, overtaken>>

\* Mutant: the session served stays first.
RotatedBack(l, more) == IF more THEN order ELSE [order EXCEPT ![l] = Tail(@)]

\* The session served goes to the end of the order if it has more jobs.
Rotated(l, more) ==
    [order EXCEPT ![l] = IF more THEN Append(Tail(@), Head(@)) ELSE Tail(@)]

\* Mutant: a lane keeps its turn until it is empty.
SpentNever(l) == RoundCredits

Spent(l) == [RoundCredits EXCEPT ![l] = @ - 1]

Serve ==
    LET l == RoundCursor
        o == Head(order[l])
        more == Len(queue[l][o]) > 1
    IN  /\ phase \in {"pop", "drain"}
        /\ len # 0
        /\ RoundCredits[l] # 0 /\ ~LaneEmpty(l)
        /\ order' = Rotated(l, more)
        /\ queue' = [queue EXCEPT ![l][o] = Tail(@)]
        /\ credits' = Spent(l)
        /\ cursor' = IF credits'[l] = 0 THEN NextLane(l) ELSE l
        /\ len' = len - 1
        /\ phase' = IF phase = "pop" THEN "idle" ELSE phase
        /\ waited' = [k \in Lanes |-> IF k = l THEN 0
                                      ELSE IF LaneEmpty(k) THEN waited[k] ELSE waited[k] + 1]
        /\ overtaken' = [overtaken EXCEPT ![l] = [pair \in Owners \X Owners |->
                            IF pair[1] = o THEN 0
                            ELSE IF pair[2] = o /\ queue[l][pair[1]] # <<>>
                                 THEN overtaken[l][pair] + 1
                                 ELSE overtaken[l][pair]]]

Next ==
    \/ \E l \in Lanes, o \in Owners, j \in Jobs : Push(l, o, j)
    \/ StartPop
    \/ StartDrain
    \/ Skip
    \/ Serve
    \/ EndDrain

Spec == Init /\ [][Next]_vars

\* drain_scheduler pops whenever the queue is not empty and a job slot is free,
\* and running jobs end; a loop that runs takes its next iteration.
Fairness == WF_vars(StartPop) /\ WF_vars(Skip \/ Serve) /\ WF_vars(EndDrain)
FairSpec == Spec /\ Fairness

-----------------------------------------------------------------------------
(* Properties.                                                             *)

\* Types; a credit is never driven below zero (it is a u8 in the code).
TypeOK ==
    /\ order \in [Lanes -> Seq(Owners)]
    /\ queue \in [Lanes -> [Owners -> Seq(Jobs)]]
    /\ credits \in [Lanes -> Nat]
    /\ cursor \in Lanes
    /\ len \in Nat
    /\ phase \in {"idle", "pop", "drain"}
    /\ waited \in [Lanes -> Nat]
    /\ overtaken \in [Lanes -> [Owners \X Owners -> Nat]]

\* order and sessions of a lane never drift apart: order lists exactly the
\* sessions that have a job in the lane, each once.  is_empty looks at order
\* only, and pop trusts it.
OrderIsSessions ==
    \A l \in Lanes :
        /\ \A i \in 1 .. Len(order[l]) : queue[l][order[l][i]] # <<>>
        /\ \A o \in Owners : queue[l][o] # <<>> =>
                \E i \in 1 .. Len(order[l]) : order[l][i] = o
        /\ \A i, k \in 1 .. Len(order[l]) : order[l][i] = order[l][k] => i = k

\* len is the number of queued jobs: pop would loop for ever if len were too
\* large, and would refuse to serve if it were too small.
LenIsQueued == len = Cardinality(Slots)

\* Within a round, lanes before the cursor are out of credit and lanes after it
\* have all of theirs; the round is over only at lane 0.
RoundShape ==
    \/ cursor = 0 /\ \A l \in Lanes : credits[l] = 0
    \/ /\ credits[cursor] \in 1 .. Weights[cursor]
       /\ \A l \in Lanes : l < cursor => credits[l] = 0
       /\ \A l \in Lanes : l > cursor => credits[l] = Weights[l]

\* Bounded waiting between priorities: while a lane has a job, at most one
\* round's worth of jobs of the other lanes is served before it is.
LaneWaitBounded ==
    \A l \in Lanes : ~LaneEmpty(l) => waited[l] <= Before[NumLanes] - Weights[l]

\* Sessions of a lane take turns: while a session waits, another is served once.
SessionsTakeTurns ==
    \A l \in Lanes : \A pair \in Owners \X Owners :
        queue[l][pair[1]] # <<>> => overtaken[l][pair] <= 1

\* No job starves, although jobs of other sessions and priorities keep coming.
NoJobStarves == \A j \in Jobs : Queued(j) ~> ~Queued(j)
=============================================================================
