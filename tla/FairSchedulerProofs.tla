------------------------ MODULE FairSchedulerProofs ------------------------
(***************************************************************************)
(* Proofs about FairScheduler, for every number of lanes, all weights and  *)
(* every set of sessions and jobs: types, agreement of the redundant state *)
(* of a lane and of the scheduler, the shape of a round, and the bound on  *)
(* how long a lane waits.                                                  *)
(***************************************************************************)
EXTENDS FairScheduler, FiniteSetTheorems, TLAPS

-----------------------------------------------------------------------------
(* The lanes and their weights.                                            *)

\* A remainder of a number below the divisor, and of the divisor itself.
LEMMA SmallRemainder ==
    ASSUME NEW n \in Nat, n > 0, NEW a \in Nat, a < n
    PROVE  a % n = a
  OBVIOUS

LEMMA OwnRemainder ==
    ASSUME NEW n \in Nat, n > 0
    PROVE  n % n = 0
  OBVIOUS

\* The lane after l: NextLane wraps around behind the last lane.
LEMMA NextLaneCases ==
    ASSUME NEW l \in Lanes
    PROVE  /\ l + 1 = NumLanes => NextLane(l) = 0
           /\ l + 1 # NumLanes => NextLane(l) = l + 1
           /\ NextLane(l) \in Lanes
  <1>1. NumLanes \in Nat /\ NumLanes > 0 /\ l + 1 \in Nat /\ l + 1 <= NumLanes /\ l \in Nat
    BY FairSchedulerAssumption DEF Lanes
  <1>2. CASE l + 1 = NumLanes
    <2>1. NextLane(l) = 0
      BY <1>1, <1>2, OwnRemainder DEF NextLane
    <2> QED BY <1>1, <1>2, <2>1 DEF Lanes
  <1>3. CASE l + 1 # NumLanes
    <2>1. l + 1 < NumLanes
      BY <1>1, <1>3
    <2>2. NextLane(l) = l + 1
      BY <1>1, <2>1, SmallRemainder DEF NextLane
    <2> QED BY <1>1, <1>3, <2>1, <2>2 DEF Lanes
  <1> QED BY <1>2, <1>3

\* Before adds up the weights, and no lane has more than all lanes together.
LEMMA BeforeFacts ==
    ASSUME NEW l \in Lanes
    PROVE  /\ l \in 0 .. NumLanes /\ l + 1 \in 0 .. NumLanes /\ NumLanes \in 0 .. NumLanes
           /\ Before[l] \in Nat /\ Before[l + 1] \in Nat /\ Before[NumLanes] \in Nat
           /\ Weights[l] \in Nat /\ Weights[l] >= 1
           /\ Before[l + 1] = Before[l] + Weights[l]
           /\ Before[l + 1] <= Before[NumLanes]
  <1>1. NumLanes \in Nat \ {0}
    BY FairSchedulerAssumption
  <1>2. l \in 0 .. NumLanes /\ l + 1 \in 0 .. NumLanes /\ NumLanes \in 0 .. NumLanes
    BY <1>1 DEF Lanes
  <1>3. Before[l] \in Nat /\ Before[l + 1] \in Nat /\ Before[NumLanes] \in Nat
    BY <1>2, FairSchedulerAssumption
  <1>4. Weights[l] \in Nat /\ Weights[l] >= 1
    BY FairSchedulerAssumption
  <1>5. Before[l + 1] = Before[l] + Weights[l]
    BY FairSchedulerAssumption
  <1>6. Before[l + 1] <= Before[NumLanes]
    BY <1>1, <1>2, FairSchedulerAssumption
  <1> QED BY <1>2, <1>3, <1>4, <1>5, <1>6

-----------------------------------------------------------------------------
(* Sequences that start with their first element.                          *)

\* What Tail does to a nonempty sequence.
LEMMA TailFacts ==
    ASSUME NEW S, NEW s \in Seq(S), s # <<>>
    PROVE  /\ Head(s) \in S /\ Head(s) = s[1]
           /\ Tail(s) \in Seq(S)
           /\ Len(s) \in Nat /\ Len(s) >= 1
           /\ Len(Tail(s)) = Len(s) - 1
           /\ \A i \in 1 .. Len(Tail(s)) : Tail(s)[i] = s[i + 1]
  OBVIOUS

\* Only the tail of a sequence with one element is empty.
LEMMA TailEmpty ==
    ASSUME NEW S, NEW s \in Seq(S), s # <<>>
    PROVE  /\ Len(s) <= 1 => Tail(s) = <<>>
           /\ Len(s) > 1 => Tail(s) # <<>>
  <1>1. Tail(s) \in Seq(S) /\ Len(s) \in Nat /\ Len(s) >= 1 /\ Len(Tail(s)) = Len(s) - 1
    BY TailFacts
  <1>2. \A t \in Seq(S) : Len(t) = 0 <=> t = <<>>
    OBVIOUS
  <1>3. Tail(s) = <<>> <=> Len(Tail(s)) = 0
    BY <1>1, <1>2
  <1> QED BY <1>1, <1>3

\* What Append does.
LEMMA AppendFacts ==
    ASSUME NEW S, NEW s \in Seq(S), NEW e \in S
    PROVE  /\ Append(s, e) \in Seq(S)
           /\ Append(s, e) # <<>>
           /\ Len(s) \in Nat
           /\ Len(Append(s, e)) = Len(s) + 1
           /\ Append(s, e)[Len(s) + 1] = e
           /\ \A i \in 1 .. Len(s) : Append(s, e)[i] = s[i]
  OBVIOUS

-----------------------------------------------------------------------------
(* One lane: its order s agrees with its queues q.                         *)

LaneAgrees(s, q) ==
    /\ \A i \in 1 .. Len(s) : q[s[i]] # <<>>
    /\ \A o \in Owners : q[o] # <<>> => \E i \in 1 .. Len(s) : s[i] = o
    /\ \A i, k \in 1 .. Len(s) : s[i] = s[k] => i = k

\* A push for a session that has no job in the lane: it joins at the end.
LEMMA PushJoins ==
    ASSUME NEW s \in Seq(Owners), NEW q \in [Owners -> Seq(Jobs)],
           NEW o \in Owners, NEW j \in Jobs,
           LaneAgrees(s, q), q[o] = <<>>
    PROVE  LaneAgrees(Append(s, o), [q EXCEPT ![o] = Append(@, j)])
  <1> DEFINE t == Append(s, o)
             r == [q EXCEPT ![o] = Append(@, j)]
             n == Len(s)
  <1>1. /\ t \in Seq(Owners) /\ n \in Nat /\ Len(t) = n + 1 /\ t[n + 1] = o
        /\ \A i \in 1 .. n : t[i] = s[i]
    BY AppendFacts
  <1>2. r[o] # <<>> /\ \A p \in Owners : p # o => r[p] = q[p]
    <2>1. Append(q[o], j) # <<>>
      BY AppendFacts
    <2> QED BY <2>1
  <1>3. \A i \in 1 .. n : s[i] \in Owners /\ s[i] # o /\ q[s[i]] # <<>>
    BY DEF LaneAgrees
  <1>4. \A i, k \in 1 .. n : s[i] = s[k] => i = k
    BY DEF LaneAgrees
  <1>5. \A p \in Owners : q[p] # <<>> => \E i \in 1 .. n : s[i] = p
    BY DEF LaneAgrees
  <1> HIDE DEF t, r, n
  <1>6. \A i \in 1 .. Len(t) : i \in 1 .. n \/ i = n + 1
    BY <1>1
  <1>7. \A i \in 1 .. Len(t) : r[t[i]] # <<>>
    BY <1>1, <1>2, <1>3, <1>6
  <1>8. \A p \in Owners : r[p] # <<>> => \E i \in 1 .. Len(t) : t[i] = p
    <2> TAKE p \in Owners
    <2> HAVE r[p] # <<>>
    <2>1. CASE p = o
      <3>1. n + 1 \in 1 .. Len(t)
        BY <1>1
      <3> QED BY <2>1, <3>1, <1>1
    <2>2. CASE p # o
      <3>1. PICK i \in 1 .. n : s[i] = p
        BY <2>2, <1>2, <1>5
      <3>2. i \in 1 .. Len(t)
        BY <1>1
      <3> QED BY <3>1, <3>2, <1>1
    <2> QED BY <2>1, <2>2
  <1>9. \A i, k \in 1 .. Len(t) : t[i] = t[k] => i = k
    BY <1>1, <1>3, <1>4, <1>6
  <1> QED BY <1>7, <1>8, <1>9 DEF LaneAgrees, t, r

\* A push for a session that already has a job leaves the order alone.
LEMMA PushStays ==
    ASSUME NEW s \in Seq(Owners), NEW q \in [Owners -> Seq(Jobs)],
           NEW o \in Owners, NEW j \in Jobs,
           LaneAgrees(s, q), q[o] # <<>>
    PROVE  LaneAgrees(s, [q EXCEPT ![o] = Append(@, j)])
  <1> DEFINE r == [q EXCEPT ![o] = Append(@, j)]
  <1>1. \A p \in Owners : r[p] # <<>> <=> q[p] # <<>>
    <2>1. Append(q[o], j) # <<>>
      BY AppendFacts
    <2> QED BY <2>1
  <1>2. \A i \in 1 .. Len(s) : s[i] \in Owners
    OBVIOUS
  <1> HIDE DEF r
  <1>3. LaneAgrees(s, r)
    BY <1>1, <1>2 DEF LaneAgrees
  <1> QED BY <1>3 DEF r

\* Serving a session whose last job this is: it leaves the order.
LEMMA ServeLeaves ==
    ASSUME NEW s \in Seq(Owners), NEW q \in [Owners -> Seq(Jobs)],
           s # <<>>, LaneAgrees(s, q), Len(q[Head(s)]) <= 1
    PROVE  LaneAgrees(Tail(s), [q EXCEPT ![Head(s)] = Tail(@)])
  <1> DEFINE o == Head(s)
             t == Tail(s)
             r == [q EXCEPT ![o] = Tail(@)]
             n == Len(s)
  <1>1. /\ o \in Owners /\ o = s[1] /\ t \in Seq(Owners) /\ n \in Nat /\ n >= 1
        /\ Len(t) = n - 1 /\ \A i \in 1 .. Len(t) : t[i] = s[i + 1]
    BY TailFacts
  <1>2. r[o] = <<>> /\ \A p \in Owners : p # o => r[p] = q[p]
    <2>1. q[o] \in Seq(Jobs) /\ q[o] # <<>>
      BY <1>1 DEF LaneAgrees
    <2>3. Tail(q[o]) = <<>>
      BY <2>1, TailEmpty
    <2> QED BY <1>1, <2>3
  <1>3. \A i \in 1 .. n : s[i] \in Owners /\ q[s[i]] # <<>>
    BY DEF LaneAgrees
  <1>4. \A i, k \in 1 .. n : s[i] = s[k] => i = k
    BY DEF LaneAgrees
  <1>5. \A p \in Owners : q[p] # <<>> => \E i \in 1 .. n : s[i] = p
    BY DEF LaneAgrees
  <1> HIDE DEF o, t, r, n
  <1>6. \A i \in 1 .. Len(t) : i + 1 \in 1 .. n /\ t[i] = s[i + 1] /\ t[i] # o
    BY <1>1, <1>4
  <1>7. \A i \in 1 .. Len(t) : r[t[i]] # <<>>
    BY <1>2, <1>3, <1>6
  <1>8. \A p \in Owners : r[p] # <<>> => \E i \in 1 .. Len(t) : t[i] = p
    <2> TAKE p \in Owners
    <2> HAVE r[p] # <<>>
    <2>1. p # o /\ q[p] # <<>>
      BY <1>2
    <2>2. PICK i \in 1 .. n : s[i] = p
      BY <2>1, <1>5
    <2>3. i - 1 \in 1 .. Len(t) /\ (i - 1) + 1 = i
      BY <2>1, <2>2, <1>1
    <2>4. t[i - 1] = s[i]
      BY <2>3, <1>6
    <2> QED BY <2>2, <2>3, <2>4
  <1>9. \A i, k \in 1 .. Len(t) : t[i] = t[k] => i = k
    BY <1>1, <1>4, <1>6
  <1> QED BY <1>7, <1>8, <1>9 DEF LaneAgrees, t, r, o

\* Serving a session that has more jobs: it goes to the end of the order.
LEMMA ServeRotates ==
    ASSUME NEW s \in Seq(Owners), NEW q \in [Owners -> Seq(Jobs)],
           s # <<>>, LaneAgrees(s, q), Len(q[Head(s)]) > 1
    PROVE  LaneAgrees(Append(Tail(s), Head(s)), [q EXCEPT ![Head(s)] = Tail(@)])
  <1> DEFINE o == Head(s)
             t == Append(Tail(s), o)
             r == [q EXCEPT ![o] = Tail(@)]
             n == Len(s)
  <1>1. /\ o \in Owners /\ o = s[1] /\ Tail(s) \in Seq(Owners) /\ n \in Nat /\ n >= 1
        /\ Len(Tail(s)) = n - 1 /\ \A i \in 1 .. Len(Tail(s)) : Tail(s)[i] = s[i + 1]
    BY TailFacts
  <1>2. /\ t \in Seq(Owners) /\ Len(t) = n /\ t[n] = o
        /\ \A i \in 1 .. (n - 1) : t[i] = s[i + 1]
    BY <1>1, AppendFacts
  <1>3. \A p \in Owners : r[p] # <<>> <=> q[p] # <<>>
    <2>1. q[o] \in Seq(Jobs) /\ q[o] # <<>>
      BY <1>1 DEF LaneAgrees
    <2>3. Tail(q[o]) # <<>>
      BY <2>1, TailEmpty
    <2> QED BY <1>1, <2>1, <2>3
  <1>4. \A i \in 1 .. n : s[i] \in Owners /\ q[s[i]] # <<>>
    BY DEF LaneAgrees
  <1>5. \A i, k \in 1 .. n : s[i] = s[k] => i = k
    BY DEF LaneAgrees
  <1>6. \A p \in Owners : q[p] # <<>> => \E i \in 1 .. n : s[i] = p
    BY DEF LaneAgrees
  <1> HIDE DEF o, t, r, n
  <1>7. \A i \in 1 .. n : \/ i = n /\ t[i] = s[1]
                          \/ i \in 1 .. (n - 1) /\ i + 1 \in 1 .. n /\ t[i] = s[i + 1]
    BY <1>1, <1>2
  <1>8. 1 \in 1 .. n
    BY <1>1
  <1>9. \A i \in 1 .. n : r[t[i]] # <<>>
    BY <1>3, <1>4, <1>7, <1>8
  <1>10. \A p \in Owners : r[p] # <<>> => \E i \in 1 .. n : t[i] = p
    <2> TAKE p \in Owners
    <2> HAVE r[p] # <<>>
    <2>1. PICK i \in 1 .. n : s[i] = p
      BY <1>3, <1>6
    <2>2. CASE i = 1
      <3>1. n \in 1 .. n /\ t[n] = p
        BY <2>1, <2>2, <1>1, <1>2
      <3> QED BY <3>1
    <2>3. CASE i # 1
      <3>1. i - 1 \in 1 .. (n - 1) /\ i - 1 \in 1 .. n /\ (i - 1) + 1 = i
        BY <2>3, <1>1
      <3>2. t[i - 1] = s[i]
        BY <3>1, <1>2
      <3> QED BY <2>1, <3>1, <3>2
    <2> QED BY <2>2, <2>3
  <1>11. \A i, k \in 1 .. n : t[i] = t[k] => i = k
    <2> TAKE i, k \in 1 .. n
    <2> HAVE t[i] = t[k]
    <2>1. CASE i = n /\ k = n
      BY <2>1
    <2>2. CASE i = n /\ k # n
      <3>1. k \in 1 .. (n - 1) /\ k + 1 \in 1 .. n /\ s[1] = s[k + 1]
        BY <2>2, <1>7
      <3>2. 1 = k + 1
        BY <3>1, <1>5, <1>8
      <3> QED BY <3>1, <3>2
    <2>3. CASE i # n /\ k = n
      <3>1. i \in 1 .. (n - 1) /\ i + 1 \in 1 .. n /\ s[1] = s[i + 1]
        BY <2>3, <1>7
      <3>2. 1 = i + 1
        BY <3>1, <1>5, <1>8
      <3> QED BY <3>1, <3>2
    <2>4. CASE i # n /\ k # n
      <3>1. i + 1 \in 1 .. n /\ k + 1 \in 1 .. n /\ s[i + 1] = s[k + 1]
        BY <2>4, <1>7
      <3>2. i + 1 = k + 1
        BY <3>1, <1>5
      <3> QED BY <3>2
    <2> QED BY <2>1, <2>2, <2>3, <2>4
  <1> QED BY <1>2, <1>9, <1>10, <1>11 DEF LaneAgrees, t, r, o

-----------------------------------------------------------------------------
(* Types and the order of the sessions.                                    *)

\* Types and agreement are inductive only together: pop takes the tail of the
\* queue of the first session, which has the right type if it is not empty.
LaneInv == TypeOK /\ OrderIsSessions

\* OrderIsSessions lane by lane.
LEMMA OrderByLane == OrderIsSessions <=> \A l \in Lanes : LaneAgrees(order[l], queue[l])
  BY DEF OrderIsSessions, LaneAgrees

\* The same in the next state.
LEMMA OrderByLaneNext ==
    OrderIsSessions' <=> \A l \in Lanes : LaneAgrees(order'[l], queue'[l])
  BY DEF OrderIsSessions, LaneAgrees

\* What an iteration of pop starts from.
LEMMA RoundTypes ==
    ASSUME TypeOK
    PROVE  /\ RoundCredits \in [Lanes -> Nat]
           /\ RoundCursor \in Lanes
  <1>1. 0 \in Lanes
    BY FairSchedulerAssumption DEF Lanes
  <1>2. Weights \in [Lanes -> Nat]
    BY FairSchedulerAssumption
  <1> QED BY <1>1, <1>2 DEF TypeOK, RoundCredits, RoundCursor

\* The lane and the session that pop serves.
LEMMA ServeFacts ==
    ASSUME LaneInv, Serve
    PROVE  LET l == RoundCursor
               o == Head(order[l])
           IN  /\ l \in Lanes /\ order[l] \in Seq(Owners) /\ order[l] # <<>>
               /\ o \in Owners
               /\ queue[l] \in [Owners -> Seq(Jobs)]
               /\ queue[l][o] \in Seq(Jobs) /\ queue[l][o] # <<>>
               /\ RoundCredits \in [Lanes -> Nat] /\ RoundCredits[l] # 0
               /\ LaneAgrees(order[l], queue[l])
  <1> DEFINE l == RoundCursor
             o == Head(order[l])
  <1>1. l \in Lanes /\ RoundCredits \in [Lanes -> Nat]
    BY RoundTypes DEF LaneInv
  <1> HIDE DEF l
  <1>2. order[l] \in Seq(Owners) /\ order[l] # <<>> /\ RoundCredits[l] # 0
    BY <1>1 DEF LaneInv, TypeOK, Serve, LaneEmpty, l
  <1>3. o \in Owners /\ o = order[l][1] /\ Len(order[l]) \in Nat /\ Len(order[l]) >= 1
    BY <1>2, TailFacts
  <1>4. LaneAgrees(order[l], queue[l])
    BY <1>1, OrderByLane DEF LaneInv
  <1>5. queue[l] \in [Owners -> Seq(Jobs)]
    BY <1>1 DEF LaneInv, TypeOK
  <1>6. queue[l][o] # <<>>
    BY <1>3, <1>4 DEF LaneAgrees
  <1> QED BY <1>1, <1>2, <1>3, <1>4, <1>5, <1>6 DEF l

\* Push keeps the types and the agreement.
LEMMA PushLaneInv ==
    ASSUME LaneInv, NEW l \in Lanes, NEW o \in Owners, NEW j \in Jobs, Push(l, o, j)
    PROVE  LaneInv'
  <1>1. TypeOK /\ LaneAgrees(order[l], queue[l])
    BY OrderByLane DEF LaneInv
  <1>2. order[l] \in Seq(Owners) /\ queue[l] \in [Owners -> Seq(Jobs)]
    BY <1>1 DEF TypeOK
  <1>3. Append(order[l], o) \in Seq(Owners) /\ Append(queue[l][o], j) \in Seq(Jobs)
    BY <1>2, AppendFacts
  <1>4. order' \in [Lanes -> Seq(Owners)]
    BY <1>1, <1>3 DEF Push, Entered, TypeOK
  <1>5. queue' = [queue EXCEPT ![l] = [queue[l] EXCEPT ![o] = Append(@, j)]]
    BY <1>1, <1>2 DEF Push, TypeOK
  <1>6. queue' \in [Lanes -> [Owners -> Seq(Jobs)]]
    <2>1. [queue[l] EXCEPT ![o] = Append(@, j)] \in [Owners -> Seq(Jobs)]
      BY <1>2, <1>3
    <2> QED BY <1>1, <1>5, <2>1 DEF TypeOK
  <1>7. overtaken' \in [Lanes -> [Owners \X Owners -> Nat]]
    BY <1>1 DEF Push, TypeOK
  <1>8. TypeOK'
    <2>1. waited' \in [Lanes -> Nat]
      BY <1>1 DEF Push, TypeOK
    <2>2. len' \in Nat /\ credits' = credits /\ cursor' = cursor /\ phase' = phase
      BY <1>1 DEF Push, TypeOK
    <2> QED BY <1>1, <1>4, <1>6, <1>7, <2>1, <2>2 DEF TypeOK
  <1>9. ASSUME NEW k \in Lanes PROVE LaneAgrees(order'[k], queue'[k])
    <2>1. CASE k # l
      <3>1. order'[k] = order[k] /\ queue'[k] = queue[k]
        BY <1>1, <1>5, <2>1 DEF Push, Entered, TypeOK
      <3> QED BY <3>1, OrderByLane DEF LaneInv
    <2>2. CASE k = l
      <3>1. queue'[k] = [queue[l] EXCEPT ![o] = Append(@, j)]
        BY <1>1, <1>5, <2>2 DEF TypeOK
      <3>2. CASE queue[l][o] = <<>>
        <4>1. order'[k] = Append(order[l], o)
          BY <1>1, <2>2, <3>2 DEF Push, Entered, TypeOK
        <4>2. LaneAgrees(Append(order[l], o), [queue[l] EXCEPT ![o] = Append(@, j)])
          BY <1>1, <1>2, <3>2, PushJoins
        <4> QED BY <3>1, <4>1, <4>2
      <3>3. CASE queue[l][o] # <<>>
        <4>1. order'[k] = order[l]
          BY <2>2, <3>3 DEF Push, Entered
        <4>2. LaneAgrees(order[l], [queue[l] EXCEPT ![o] = Append(@, j)])
          BY <1>1, <1>2, <3>3, PushStays
        <4> QED BY <3>1, <4>1, <4>2
      <3> QED BY <3>2, <3>3
    <2> QED BY <2>1, <2>2
  <1> QED BY <1>8, <1>9, OrderByLaneNext DEF LaneInv

\* Skipping a lane keeps the types and the agreement.
LEMMA SkipLaneInv ==
    ASSUME LaneInv, Skip
    PROVE  LaneInv'
  <1>1. RoundCredits \in [Lanes -> Nat] /\ RoundCursor \in Lanes
    BY RoundTypes DEF LaneInv
  <1>2. credits' \in [Lanes -> Nat]
    BY <1>1 DEF Skip, Skipped
  <1>3. cursor' \in Lanes
    BY <1>1, NextLaneCases DEF Skip
  <1>4. TypeOK'
    BY <1>2, <1>3 DEF LaneInv, TypeOK, Skip
  <1>5. OrderIsSessions'
    BY OrderByLane, OrderByLaneNext DEF LaneInv, Skip
  <1> QED BY <1>4, <1>5 DEF LaneInv

\* Serving a job keeps the types and the agreement.
LEMMA ServeLaneInv ==
    ASSUME LaneInv, Serve
    PROVE  LaneInv'
  <1> DEFINE l == RoundCursor
             o == Head(order[l])
             more == Len(queue[l][o]) > 1
             q == [queue[l] EXCEPT ![o] = Tail(@)]
             s == IF more THEN Append(Tail(order[l]), o) ELSE Tail(order[l])
  <1>1. /\ l \in Lanes /\ order[l] \in Seq(Owners) /\ order[l] # <<>>
        /\ o \in Owners
        /\ queue[l] \in [Owners -> Seq(Jobs)]
        /\ queue[l][o] \in Seq(Jobs) /\ queue[l][o] # <<>>
        /\ RoundCredits \in [Lanes -> Nat] /\ RoundCredits[l] # 0
        /\ LaneAgrees(order[l], queue[l])
    BY ServeFacts
  <1>2. TypeOK
    BY DEF LaneInv
  <1>3. Tail(order[l]) \in Seq(Owners) /\ Tail(queue[l][o]) \in Seq(Jobs)
    BY <1>1, TailFacts
  <1>4. s \in Seq(Owners)
    BY <1>1, <1>3, AppendFacts
  <1>5. q \in [Owners -> Seq(Jobs)]
    BY <1>1, <1>3
  <1>6. LaneAgrees(s, q)
    <2>1. CASE more
      BY <1>1, <2>1, ServeRotates
    <2>2. CASE ~more
      <3>1. Len(queue[l][o]) <= 1
        BY <1>1, <2>2, TailFacts
      <3> QED BY <1>1, <2>2, <3>1, ServeLeaves
    <2> QED BY <2>1, <2>2
  <1>7. order' = [order EXCEPT ![l] = s]
    BY <1>1, <1>2 DEF Serve, Rotated, TypeOK
  <1>8. queue' = [queue EXCEPT ![l] = q]
    BY <1>1, <1>2 DEF Serve, TypeOK
  <1>9. credits' = [RoundCredits EXCEPT ![l] = @ - 1]
    BY DEF Serve, Spent
  <1>10. cursor' = IF credits'[l] = 0 THEN NextLane(l) ELSE l
    BY DEF Serve
  <1>11. waited' \in [Lanes -> Nat]
    BY <1>2 DEF Serve, TypeOK
  <1>12. overtaken' \in [Lanes -> [Owners \X Owners -> Nat]]
    <2> DEFINE f == [pair \in Owners \X Owners |->
                        IF pair[1] = o THEN 0
                        ELSE IF pair[2] = o /\ queue[l][pair[1]] # <<>>
                             THEN overtaken[l][pair] + 1
                             ELSE overtaken[l][pair]]
    <2>1. f \in [Owners \X Owners -> Nat]
      <3>1. \A pair \in Owners \X Owners : overtaken[l][pair] \in Nat
        BY <1>1, <1>2 DEF TypeOK
      <3> HIDE DEF l, o
      <3> QED BY <3>1
    <2>2. overtaken' = [overtaken EXCEPT ![l] = f]
      BY DEF Serve
    <2> HIDE DEF f, l
    <2> QED BY <1>1, <1>2, <2>1, <2>2 DEF TypeOK
  <1>13. len' \in Nat /\ phase' \in {"idle", "pop", "drain"}
    BY <1>2 DEF Serve, TypeOK
  <1> HIDE DEF l, o, s, q
  <1>14. order' \in [Lanes -> Seq(Owners)] /\ queue' \in [Lanes -> [Owners -> Seq(Jobs)]]
    BY <1>1, <1>2, <1>4, <1>5, <1>7, <1>8 DEF TypeOK
  <1>15. credits' \in [Lanes -> Nat]
    BY <1>1, <1>9
  <1>16. cursor' \in Lanes
    BY <1>1, <1>10, NextLaneCases
  <1>17. TypeOK'
    BY <1>11, <1>12, <1>13, <1>14, <1>15, <1>16 DEF TypeOK
  <1>18. ASSUME NEW k \in Lanes PROVE LaneAgrees(order'[k], queue'[k])
    <2>1. CASE k = l
      BY <1>1, <1>2, <1>6, <1>7, <1>8, <2>1 DEF TypeOK
    <2>2. CASE k # l
      <3>1. order'[k] = order[k] /\ queue'[k] = queue[k]
        BY <1>1, <1>2, <1>7, <1>8, <2>2 DEF TypeOK
      <3> QED BY <3>1, OrderByLane DEF LaneInv
    <2> QED BY <2>1, <2>2
  <1> QED BY <1>17, <1>18, OrderByLaneNext DEF LaneInv

\* LaneInv holds initially.
LEMMA InitLaneInv == Init => LaneInv
  <1> SUFFICES ASSUME Init PROVE LaneInv
    OBVIOUS
  <1>1. 0 \in Lanes /\ Weights \in [Lanes -> Nat]
    BY FairSchedulerAssumption DEF Lanes
  <1>2. TypeOK
    BY <1>1 DEF Init, TypeOK
  <1>3. \A l \in Lanes : LaneAgrees(order[l], queue[l])
    BY DEF Init, LaneAgrees
  <1> QED BY <1>2, <1>3, OrderByLane DEF LaneInv

\* LaneInv is inductive.
LEMMA NextLaneInv == LaneInv /\ [Next]_vars => LaneInv'
  <1> SUFFICES ASSUME LaneInv, [Next]_vars PROVE LaneInv'
    OBVIOUS
  <1>1. ASSUME NEW l \in Lanes, NEW o \in Owners, NEW j \in Jobs, Push(l, o, j)
        PROVE  LaneInv'
    BY <1>1, PushLaneInv
  <1>2. CASE StartPop
    BY <1>2 DEF StartPop, LaneInv, TypeOK, OrderIsSessions
  <1>3. CASE StartDrain
    BY <1>3 DEF StartDrain, LaneInv, TypeOK, OrderIsSessions
  <1>4. CASE Skip
    BY <1>4, SkipLaneInv
  <1>5. CASE Serve
    BY <1>5, ServeLaneInv
  <1>6. CASE EndDrain
    BY <1>6 DEF EndDrain, LaneInv, TypeOK, OrderIsSessions
  <1>7. CASE UNCHANGED vars
    BY <1>7 DEF vars, LaneInv, TypeOK, OrderIsSessions
  <1> QED BY <1>1, <1>2, <1>3, <1>4, <1>5, <1>6, <1>7 DEF Next

\* Types and agreement hold in every state.
LEMMA LaneInvAlways == Spec => []LaneInv
  BY InitLaneInv, NextLaneInv, PTL DEF Spec

\* The scheduler is well typed: in particular no credit and no length is ever
\* decremented below zero, whatever calls are made.
THEOREM SchedulerTyped == Spec => []TypeOK
  <1>1. LaneInv => TypeOK
    BY DEF LaneInv
  <1> QED BY <1>1, LaneInvAlways, PTL

\* The order of a lane lists exactly the sessions that have jobs in it.
THEOREM OrderAgrees == Spec => []OrderIsSessions
  <1>1. LaneInv => OrderIsSessions
    BY DEF LaneInv
  <1> QED BY <1>1, LaneInvAlways, PTL

-----------------------------------------------------------------------------
(* Rounds.                                                                 *)

\* The cursor cu is inside a round with credits cr.
InRound(cr, cu) ==
    /\ cr[cu] \in 1 .. Weights[cu]
    /\ \A l \in Lanes : l < cu => cr[l] = 0
    /\ \A l \in Lanes : l > cu => cr[l] = Weights[l]

\* The round is over and the next has not begun.
BetweenRounds(cr, cu) == cu = 0 /\ \A l \in Lanes : cr[l] = 0

\* How many jobs of other lanes can be served before lane l has its turn: the
\* credits of the cursor's lane and the weights of the lanes from there to l.
Ahead(cr, cu, l) ==
    IF \A k \in Lanes : cr[k] = 0 THEN Before[l]
    ELSE IF cu = l THEN 0
    ELSE IF cu < l THEN cr[cu] + Before[l] - Before[cu + 1]
    ELSE cr[cu] + Before[NumLanes] - Before[cu + 1] + Before[l]

\* Inside a round, the lane at the cursor has a credit.
LEMMA AheadInRound ==
    ASSUME NEW cr \in [Lanes -> Nat], NEW cu \in Lanes, InRound(cr, cu), NEW l \in Lanes
    PROVE  Ahead(cr, cu, l) = IF cu = l THEN 0
                              ELSE IF cu < l THEN cr[cu] + Before[l] - Before[cu + 1]
                              ELSE cr[cu] + Before[NumLanes] - Before[cu + 1] + Before[l]
  <1>1. cr[cu] # 0
    BY BeforeFacts DEF InRound
  <1> QED BY <1>1 DEF Ahead

\* Between rounds, the lanes below l are ahead of it.
LEMMA AheadBetween ==
    ASSUME NEW cr, NEW cu, BetweenRounds(cr, cu), NEW l
    PROVE  Ahead(cr, cu, l) = Before[l]
  BY DEF BetweenRounds, Ahead

\* No more jobs are ahead of a lane than the weights of the others.
LEMMA AheadBounded ==
    ASSUME NEW cr \in [Lanes -> Nat], NEW cu \in Lanes, NEW l \in Lanes,
           InRound(cr, cu) \/ BetweenRounds(cr, cu)
    PROVE  Ahead(cr, cu, l) \in Nat /\ Ahead(cr, cu, l) <= Before[NumLanes] - Weights[l]
  <1>1. /\ Before[l] \in Nat /\ Before[l + 1] \in Nat /\ Before[NumLanes] \in Nat
        /\ Weights[l] \in Nat /\ Before[l + 1] = Before[l] + Weights[l]
        /\ Before[l + 1] <= Before[NumLanes]
    BY BeforeFacts
  <1>2. /\ Before[cu] \in Nat /\ Before[cu + 1] \in Nat
        /\ Weights[cu] \in Nat /\ Before[cu + 1] = Before[cu] + Weights[cu]
        /\ Before[cu + 1] <= Before[NumLanes]
    BY BeforeFacts
  <1>3. CASE BetweenRounds(cr, cu)
    BY <1>1, <1>3, AheadBetween
  <1>4. CASE InRound(cr, cu)
    <2>1. cr[cu] \in Nat /\ cr[cu] <= Weights[cu]
      BY <1>2, <1>4 DEF InRound
    <2>2. l \in 0 .. NumLanes /\ l + 1 \in 0 .. NumLanes /\ cu \in 0 .. NumLanes /\ cu + 1 \in 0 .. NumLanes
      BY BeforeFacts
    <2>3. CASE cu = l
      <3>1. Ahead(cr, cu, l) = 0
        BY <1>4, <2>3, AheadInRound
      <3> QED BY <1>1, <3>1
    <2>4. CASE cu < l
      <3>1. Before[cu + 1] <= Before[l]
        BY <2>2, <2>4, FairSchedulerAssumption
      <3>2. Ahead(cr, cu, l) = cr[cu] + Before[l] - Before[cu + 1]
        <4>1. cu # l
          BY <2>2, <2>4
        <4> QED BY <1>4, <2>4, <4>1, AheadInRound
      <3> QED BY ONLY <1>1, <1>2, <2>1, <3>1, <3>2
    <2>5. CASE l < cu
      <3>1. Before[l + 1] <= Before[cu]
        BY <2>2, <2>5, FairSchedulerAssumption
      <3>2. Ahead(cr, cu, l) = cr[cu] + Before[NumLanes] - Before[cu + 1] + Before[l]
        <4>1. cu # l /\ ~(cu < l)
          BY <2>2, <2>5
        <4> QED BY <1>4, <4>1, AheadInRound
      <3> QED BY ONLY <1>1, <1>2, <2>1, <3>1, <3>2
    <2> QED BY <2>3, <2>4, <2>5 DEF Lanes
  <1> QED BY <1>3, <1>4

\* A new round starts where the last one ended: nothing moves ahead of a lane.
LEMMA RoundStarts ==
    ASSUME TypeOK, RoundShape
    PROVE  /\ InRound(RoundCredits, RoundCursor)
           /\ \A l \in Lanes : Ahead(RoundCredits, RoundCursor, l) = Ahead(credits, cursor, l)
  <1>1. CASE RoundOver
    <2>1. RoundCredits = Weights /\ RoundCursor = 0 /\ 0 \in Lanes /\ Weights \in [Lanes -> Nat]
      BY <1>1, FairSchedulerAssumption DEF RoundCredits, RoundCursor, Lanes
    <2>2. Weights[0] \in Nat /\ Weights[0] >= 1 /\ Before[1] = Before[0] + Weights[0] /\ Before[0] = 0
      BY <2>1, BeforeFacts, FairSchedulerAssumption
    <2>3. InRound(Weights, 0)
      BY <2>1, <2>2 DEF InRound, Lanes
    <2>4. ASSUME NEW l \in Lanes
          PROVE  Ahead(Weights, 0, l) = Before[l]
      <3>1. Before[l] \in Nat /\ l \in Nat
        BY BeforeFacts DEF Lanes
      <3>2. CASE l = 0
        BY <2>1, <2>2, <2>3, <3>2, AheadInRound
      <3>3. CASE 0 < l
        <4>1. Ahead(Weights, 0, l) = Weights[0] + Before[l] - Before[0 + 1]
          BY <2>1, <2>3, <3>3, AheadInRound
        <4> QED BY <2>2, <3>1, <4>1
      <3> QED BY <3>1, <3>2, <3>3
    <2>5. \A l \in Lanes : Ahead(credits, cursor, l) = Before[l]
      BY <1>1 DEF Ahead, RoundOver
    <2> QED BY <2>1, <2>3, <2>4, <2>5
  <1>2. CASE ~RoundOver
    <2>1. RoundCredits = credits /\ RoundCursor = cursor
      BY <1>2 DEF RoundCredits, RoundCursor
    <2>2. InRound(credits, cursor)
      BY <1>2 DEF RoundShape, RoundOver, InRound
    <2> QED BY <2>1, <2>2
  <1> QED BY <1>1, <1>2

\* The cursor leaves its lane, whose credits are spent or lost: what was ahead
\* of another lane because of them is not any more.
LEMMA CursorLeaves ==
    ASSUME NEW cr \in [Lanes -> Nat], NEW cu \in Lanes, InRound(cr, cu)
    PROVE  LET cr2 == [cr EXCEPT ![cu] = 0]
               cu2 == NextLane(cu)
           IN  /\ InRound(cr2, cu2) \/ BetweenRounds(cr2, cu2)
               /\ \A l \in Lanes : l # cu => Ahead(cr2, cu2, l) = Ahead(cr, cu, l) - cr[cu]
  <1> DEFINE cr2 == [cr EXCEPT ![cu] = 0]
             cu2 == NextLane(cu)
  <1> SUFFICES /\ InRound(cr2, cu2) \/ BetweenRounds(cr2, cu2)
               /\ \A l \in Lanes : l # cu => Ahead(cr2, cu2, l) = Ahead(cr, cu, l) - cr[cu]
    OBVIOUS
  <1>0. cu2 = NextLane(cu)
    OBVIOUS
  <1>1. cr2 \in [Lanes -> Nat] /\ cr2[cu] = 0 /\ \A k \in Lanes : k # cu => cr2[k] = cr[k]
    OBVIOUS
  <1> HIDE DEF cr2, cu2
  <1>2. cu2 \in Lanes /\ cr[cu] \in Nat /\ Before[cu + 1] \in Nat /\ Before[NumLanes] \in Nat
    BY <1>0, NextLaneCases, BeforeFacts
  <1>3. \A l \in Lanes : Before[l] \in Nat
    BY BeforeFacts
  <1>4. CASE cu + 1 = NumLanes
    <2>1. cu2 = 0 /\ \A l \in Lanes : cr2[l] = 0
      <3>1. cu2 = 0
        BY <1>0, <1>4, NextLaneCases
      <3>2. \A l \in Lanes : l = cu \/ l < cu
        BY <1>4 DEF Lanes
      <3> QED BY <1>1, <3>1, <3>2 DEF InRound
    <2>2. BetweenRounds(cr2, cu2)
      BY <2>1 DEF BetweenRounds
    <2>3. ASSUME NEW l \in Lanes, l # cu
          PROVE  Ahead(cr2, cu2, l) = Ahead(cr, cu, l) - cr[cu]
      <3>1. Ahead(cr2, cu2, l) = Before[l]
        BY <2>2, AheadBetween
      <3>2. l < cu /\ ~(cu < l)
        BY <1>4, <2>3 DEF Lanes
      <3>3. Ahead(cr, cu, l) = cr[cu] + Before[NumLanes] - Before[cu + 1] + Before[l]
        BY <2>3, <3>2, AheadInRound
      <3>4. Before[cu + 1] = Before[NumLanes]
        BY <1>4
      <3>5. Before[l] \in Nat
        BY <1>3
      <3> QED BY ONLY <1>2, <3>1, <3>3, <3>4, <3>5
    <2> QED BY <2>2, <2>3
  <1>5. CASE cu + 1 # NumLanes
    <2>1. cu2 = cu + 1 /\ cu2 \in Lanes /\ cu \in Int
      BY <1>0, <1>5, NextLaneCases DEF Lanes
    <2>2. /\ Weights[cu2] \in Nat /\ Weights[cu2] >= 1
          /\ Before[cu2 + 1] = Before[cu2] + Weights[cu2] /\ Before[cu2] \in Nat
      BY <2>1, BeforeFacts
    <2>3. cr2[cu2] = Weights[cu2]
      <3>1. cu2 > cu /\ cu2 # cu
        BY <2>1
      <3> QED BY <1>1, <2>1, <3>1 DEF InRound
    <2>4. InRound(cr2, cu2)
      <3>1. \A l \in Lanes : l < cu2 => cr2[l] = 0
        BY <1>1, <2>1 DEF InRound, Lanes
      <3>2. \A l \in Lanes : l > cu2 => cr2[l] = Weights[l]
        BY <1>1, <2>1 DEF InRound, Lanes
      <3> QED BY <2>2, <2>3, <3>1, <3>2 DEF InRound
    <2>5. ASSUME NEW l \in Lanes, l # cu
          PROVE  Ahead(cr2, cu2, l) = Ahead(cr, cu, l) - cr[cu]
      <3>1. Before[l] \in Nat /\ l \in Int
        BY <1>3 DEF Lanes
      <3>2. Ahead(cr2, cu2, l) = IF cu2 = l THEN 0
                              ELSE IF cu2 < l THEN cr2[cu2] + Before[l] - Before[cu2 + 1]
                              ELSE cr2[cu2] + Before[NumLanes] - Before[cu2 + 1] + Before[l]
        BY <1>1, <1>2, <2>4, AheadInRound
      <3>3. CASE cu < l
        <4>1. Ahead(cr, cu, l) = cr[cu] + Before[l] - Before[cu2]
          BY <2>1, <3>3, AheadInRound
        <4>2. CASE cu2 = l
          BY ONLY <1>2, <3>1, <3>2, <4>1, <4>2
        <4>3. CASE cu2 < l
          <5>1. cu2 # l
            BY <4>3, <2>1, <3>1
          <5>2. Ahead(cr2, cu2, l) = cr2[cu2] + Before[l] - Before[cu2 + 1]
            BY <3>2, <4>3, <5>1
          <5> QED BY ONLY <1>2, <2>2, <2>3, <3>1, <4>1, <5>2
        <4> QED BY <2>1, <3>1, <3>3, <4>2, <4>3
      <3>4. CASE l < cu
        <4>1. Ahead(cr, cu, l) = cr[cu] + Before[NumLanes] - Before[cu2] + Before[l]
          <5>1. ~(cu < l)
            BY <2>1, <3>1, <3>4
          <5> QED BY <2>1, <2>5, <5>1, AheadInRound
        <4>2. cu2 # l /\ ~(cu2 < l)
          BY <2>1, <3>1, <3>4
        <4>3. Ahead(cr2, cu2, l) = cr2[cu2] + Before[NumLanes] - Before[cu2 + 1] + Before[l]
          BY <3>2, <4>2
        <4> QED BY ONLY <1>2, <2>2, <2>3, <3>1, <4>1, <4>3
      <3> QED BY <2>1, <2>5, <3>1, <3>3, <3>4
    <2> QED BY <2>4, <2>5
  <1> QED BY <1>4, <1>5

\* The cursor stays and its lane has one credit less.
LEMMA CursorStays ==
    ASSUME NEW cr \in [Lanes -> Nat], NEW cu \in Lanes, InRound(cr, cu), cr[cu] > 1
    PROVE  LET cr2 == [cr EXCEPT ![cu] = @ - 1]
           IN  /\ InRound(cr2, cu)
               /\ \A l \in Lanes : l # cu => Ahead(cr2, cu, l) = Ahead(cr, cu, l) - 1
  <1> DEFINE cr2 == [cr EXCEPT ![cu] = @ - 1]
  <1>1. /\ cr2 \in [Lanes -> Nat] /\ cr2[cu] = cr[cu] - 1
        /\ \A k \in Lanes : k # cu => cr2[k] = cr[k]
    OBVIOUS
  <1> HIDE DEF cr2
  <1>2. Weights[cu] \in Nat
    BY BeforeFacts
  <1>3. InRound(cr2, cu)
    BY <1>1, <1>2 DEF InRound, Lanes
  <1>4. ASSUME NEW l \in Lanes, l # cu
        PROVE  Ahead(cr2, cu, l) = Ahead(cr, cu, l) - 1
    <2>1. /\ Before[l] \in Nat /\ Before[cu + 1] \in Nat /\ Before[NumLanes] \in Nat
          /\ cr[cu] \in Nat
      BY BeforeFacts
    <2>2. CASE cu < l
      <3>1. Ahead(cr, cu, l) = cr[cu] + Before[l] - Before[cu + 1]
        BY <1>4, <2>2, AheadInRound
      <3>2. Ahead(cr2, cu, l) = cr2[cu] + Before[l] - Before[cu + 1]
        BY <1>1, <1>3, <1>4, <2>2, AheadInRound
      <3> QED BY ONLY <1>1, <2>1, <3>1, <3>2
    <2>3. CASE ~(cu < l)
      <3>1. Ahead(cr, cu, l) = cr[cu] + Before[NumLanes] - Before[cu + 1] + Before[l]
        BY <1>4, <2>3, AheadInRound
      <3>2. Ahead(cr2, cu, l) = cr2[cu] + Before[NumLanes] - Before[cu + 1] + Before[l]
        BY <1>1, <1>3, <1>4, <2>3, AheadInRound
      <3> QED BY ONLY <1>1, <2>1, <3>1, <3>2
    <2> QED BY <2>2, <2>3
  <1> QED BY <1>3, <1>4 DEF cr2

-----------------------------------------------------------------------------
(* The shape of a round and the bound on a lane's wait.                    *)

\* LaneWaitBounded is not inductive: what a lane has waited says nothing of what
\* is still ahead of it.  Their sum is bounded, and a pop moves one job from the
\* second to the first.
WaitBudget ==
    \A l \in Lanes : ~LaneEmpty(l) =>
        waited[l] + Ahead(credits, cursor, l) <= Before[NumLanes] - Weights[l]

RoundInv == LaneInv /\ RoundShape /\ WaitBudget

\* RoundShape in terms of InRound and BetweenRounds.
LEMMA ShapeCases ==
    /\ RoundShape <=> InRound(credits, cursor) \/ BetweenRounds(credits, cursor)
    /\ RoundShape' <=> InRound(credits', cursor') \/ BetweenRounds(credits', cursor')
  BY DEF RoundShape, InRound, BetweenRounds

\* What is ahead of a lane is a natural number within the weights of the others.
LEMMA AheadNow ==
    ASSUME TypeOK, RoundShape, NEW l \in Lanes
    PROVE  /\ Ahead(credits, cursor, l) \in Nat
           /\ Ahead(credits, cursor, l) <= Before[NumLanes] - Weights[l]
  BY ShapeCases, AheadBounded DEF TypeOK

\* A push does not move the cursor; a lane that was empty starts to wait.
LEMMA PushRoundInv ==
    ASSUME RoundInv, NEW l \in Lanes, NEW o \in Owners, NEW j \in Jobs, Push(l, o, j)
    PROVE  RoundShape' /\ WaitBudget'
  <1>1. TypeOK /\ RoundShape /\ credits' = credits /\ cursor' = cursor
    BY DEF RoundInv, LaneInv, Push
  <1>2. RoundShape'
    BY <1>1 DEF RoundShape
  <1>3. ASSUME NEW k \in Lanes, order'[k] # <<>>
        PROVE  waited'[k] + Ahead(credits', cursor', k) <= Before[NumLanes] - Weights[k]
    <2>1. CASE order[k] # <<>>
      <3>1. waited'[k] = waited[k]
        BY <1>1, <2>1 DEF Push, LaneEmpty, TypeOK
      <3> QED BY <1>1, <2>1, <3>1 DEF RoundInv, WaitBudget, LaneEmpty
    <2>2. CASE order[k] = <<>>
      <3>1. k = l
        BY <1>1, <1>3, <2>2 DEF Push, Entered, TypeOK
      <3>2. waited'[k] = 0
        BY <1>1, <2>2, <3>1 DEF Push, LaneEmpty, TypeOK
      <3>3. /\ Ahead(credits, cursor, k) \in Nat
            /\ Ahead(credits, cursor, k) <= Before[NumLanes] - Weights[k]
        BY <1>1, AheadNow
      <3> QED BY <1>1, <3>2, <3>3
    <2> QED BY <2>1, <2>2
  <1>4. WaitBudget'
    BY <1>3 DEF WaitBudget, LaneEmpty
  <1> QED BY <1>2, <1>4

\* Skipping an empty lane takes its credits from what is ahead of the others.
LEMMA SkipRoundInv ==
    ASSUME RoundInv, Skip
    PROVE  RoundShape' /\ WaitBudget'
  <1> DEFINE cr == RoundCredits
             cu == RoundCursor
  <1>1. TypeOK /\ RoundShape
    BY DEF RoundInv, LaneInv
  <1>2. cr \in [Lanes -> Nat] /\ cu \in Lanes
    BY <1>1, RoundTypes
  <1>3. InRound(cr, cu) /\ \A l \in Lanes : Ahead(cr, cu, l) = Ahead(credits, cursor, l)
    BY <1>1, RoundStarts
  <1>4. credits' = [cr EXCEPT ![cu] = 0] /\ cursor' = NextLane(cu)
    BY DEF Skip, Skipped
  <1>5. order' = order /\ waited' = waited
    BY DEF Skip
  <1>6. cr[cu] = 0 \/ order[cu] = <<>>
    BY DEF Skip, LaneEmpty
  <1> HIDE DEF cr, cu
  <1>7. /\ InRound(credits', cursor') \/ BetweenRounds(credits', cursor')
        /\ \A l \in Lanes : l # cu => Ahead(credits', cursor', l) = Ahead(cr, cu, l) - cr[cu]
    <2>1. /\ \/ InRound([cr EXCEPT ![cu] = 0], NextLane(cu))
             \/ BetweenRounds([cr EXCEPT ![cu] = 0], NextLane(cu))
          /\ \A l \in Lanes : l # cu =>
                Ahead([cr EXCEPT ![cu] = 0], NextLane(cu), l) = Ahead(cr, cu, l) - cr[cu]
      BY <1>2, <1>3, CursorLeaves
    <2> QED BY <1>4, <2>1
  <1>8. RoundShape'
    BY <1>7, ShapeCases
  <1>9. cr[cu] \in Nat /\ cr[cu] # 0
    BY <1>2, <1>3, BeforeFacts DEF InRound
  <1>10. ASSUME NEW l \in Lanes, order[l] # <<>>
         PROVE  waited[l] + Ahead(credits', cursor', l) <= Before[NumLanes] - Weights[l]
    <2>1. l # cu
      BY <1>6, <1>9, <1>10
    <2>2. Ahead(credits', cursor', l) = Ahead(credits, cursor, l) - cr[cu]
      BY <1>3, <1>7, <2>1
    <2>3. Ahead(credits, cursor, l) \in Nat
      BY <1>1, AheadNow
    <2>4. waited[l] + Ahead(credits, cursor, l) <= Before[NumLanes] - Weights[l]
      BY <1>10 DEF RoundInv, WaitBudget, LaneEmpty
    <2>5. waited[l] \in Nat /\ Before[NumLanes] \in Nat /\ Weights[l] \in Nat
      BY <1>1, BeforeFacts DEF TypeOK
    <2> QED BY ONLY <1>9, <2>2, <2>3, <2>4, <2>5
  <1>11. WaitBudget'
    BY <1>5, <1>10 DEF WaitBudget, LaneEmpty
  <1> QED BY <1>8, <1>11

\* Serving a job spends one credit: one job less is ahead of the other lanes,
\* and each of them has waited for one job more.
LEMMA ServeRoundInv ==
    ASSUME RoundInv, Serve
    PROVE  RoundShape' /\ WaitBudget'
  <1> DEFINE cr == RoundCredits
             cu == RoundCursor
  <1>1. TypeOK /\ RoundShape
    BY DEF RoundInv, LaneInv
  <1>2. cr \in [Lanes -> Nat] /\ cu \in Lanes
    BY <1>1, RoundTypes
  <1>3. InRound(cr, cu) /\ \A l \in Lanes : Ahead(cr, cu, l) = Ahead(credits, cursor, l)
    BY <1>1, RoundStarts
  <1>4. /\ credits' = [cr EXCEPT ![cu] = @ - 1]
        /\ cursor' = IF credits'[cu] = 0 THEN NextLane(cu) ELSE cu
    BY DEF Serve, Spent
  <1>5. waited' = [k \in Lanes |-> IF k = cu THEN 0
                                   ELSE IF order[k] = <<>> THEN waited[k] ELSE waited[k] + 1]
    BY DEF Serve, LaneEmpty
  <1>6. \A k \in Lanes : k # cu => order'[k] = order[k]
    BY <1>1, <1>2 DEF Serve, Rotated, TypeOK
  <1> HIDE DEF cr, cu
  <1>7. cr[cu] \in Nat /\ cr[cu] # 0 /\ credits'[cu] = cr[cu] - 1
    BY <1>2, <1>3, <1>4, BeforeFacts DEF InRound
  <1>8. /\ InRound(credits', cursor') \/ BetweenRounds(credits', cursor')
        /\ \A l \in Lanes : l # cu => Ahead(credits', cursor', l) = Ahead(cr, cu, l) - 1
    <2>1. CASE cr[cu] = 1
      <3>1. credits' = [cr EXCEPT ![cu] = 0] /\ cursor' = NextLane(cu)
        BY <1>2, <1>4, <1>7, <2>1
      <3>2. /\ InRound(credits', cursor') \/ BetweenRounds(credits', cursor')
            /\ \A l \in Lanes : l # cu => Ahead(credits', cursor', l) = Ahead(cr, cu, l) - cr[cu]
        <4>1. /\ \/ InRound([cr EXCEPT ![cu] = 0], NextLane(cu))
                 \/ BetweenRounds([cr EXCEPT ![cu] = 0], NextLane(cu))
              /\ \A l \in Lanes : l # cu =>
                    Ahead([cr EXCEPT ![cu] = 0], NextLane(cu), l) = Ahead(cr, cu, l) - cr[cu]
          BY <1>2, <1>3, CursorLeaves
        <4> QED BY <3>1, <4>1
      <3> QED BY <2>1, <3>2
    <2>2. CASE cr[cu] > 1
      <3>1. cursor' = cu
        BY <1>4, <1>7, <2>2
      <3>2. /\ InRound(credits', cu)
            /\ \A l \in Lanes : l # cu => Ahead(credits', cu, l) = Ahead(cr, cu, l) - 1
        <4>1. /\ InRound([cr EXCEPT ![cu] = @ - 1], cu)
              /\ \A l \in Lanes : l # cu =>
                    Ahead([cr EXCEPT ![cu] = @ - 1], cu, l) = Ahead(cr, cu, l) - 1
          BY <1>2, <1>3, <2>2, CursorStays
        <4> QED BY <1>4, <4>1
      <3> QED BY <3>1, <3>2
    <2> QED BY <1>7, <2>1, <2>2
  <1>9. RoundShape'
    BY <1>8, ShapeCases
  <1>10. credits' \in [Lanes -> Nat] /\ cursor' \in Lanes
    BY <1>2, <1>4, <1>7, NextLaneCases
  <1>11. ASSUME NEW l \in Lanes, order'[l] # <<>>
         PROVE  waited'[l] + Ahead(credits', cursor', l) <= Before[NumLanes] - Weights[l]
    <2>1. waited[l] \in Nat /\ Before[NumLanes] \in Nat /\ Weights[l] \in Nat
      BY <1>1, BeforeFacts DEF TypeOK
    <2>2. CASE l = cu
      <3>1. waited'[l] = 0
        BY <1>5, <2>2
      <3>2. /\ Ahead(credits', cursor', l) \in Nat
            /\ Ahead(credits', cursor', l) <= Before[NumLanes] - Weights[l]
        BY <1>8, <1>10, AheadBounded
      <3> QED BY ONLY <3>1, <3>2, <2>1
    <2>3. CASE l # cu
      <3>1. order[l] # <<>>
        BY <1>6, <1>11, <2>3
      <3>2. waited'[l] = waited[l] + 1
        BY <1>5, <2>3, <3>1
      <3>3. Ahead(credits', cursor', l) = Ahead(credits, cursor, l) - 1
        BY <1>3, <1>8, <2>3
      <3>4. Ahead(credits, cursor, l) \in Nat
        BY <1>1, AheadNow
      <3>5. waited[l] + Ahead(credits, cursor, l) <= Before[NumLanes] - Weights[l]
        BY <3>1 DEF RoundInv, WaitBudget, LaneEmpty
      <3> QED BY ONLY <2>1, <3>2, <3>3, <3>4, <3>5
    <2> QED BY <2>2, <2>3
  <1>12. WaitBudget'
    BY <1>11 DEF WaitBudget, LaneEmpty
  <1> QED BY <1>9, <1>12

\* The invariant holds initially: the first round starts with full credits.
LEMMA InitRoundInv == Init => RoundInv
  <1> SUFFICES ASSUME Init PROVE RoundInv
    OBVIOUS
  <1>1. LaneInv
    BY InitLaneInv
  <1>2. 0 \in Lanes /\ \A l \in Lanes : Weights[l] \in Nat /\ Weights[l] >= 1
    BY BeforeFacts, FairSchedulerAssumption DEF Lanes
  <1>3. RoundShape
    BY <1>2 DEF Init, RoundShape, Lanes
  <1>4. WaitBudget
    BY DEF Init, WaitBudget, LaneEmpty
  <1> QED BY <1>1, <1>3, <1>4 DEF RoundInv

\* The invariant is inductive.
LEMMA NextRoundInv == RoundInv /\ [Next]_vars => RoundInv'
  <1> SUFFICES ASSUME RoundInv, [Next]_vars PROVE RoundInv'
    OBVIOUS
  <1>1. LaneInv'
    BY NextLaneInv DEF RoundInv
  <1>2. ASSUME UNCHANGED <<order, credits, cursor, waited>>
        PROVE  RoundShape' /\ WaitBudget'
    BY <1>2 DEF RoundInv, RoundShape, WaitBudget, LaneEmpty
  <1>3. RoundShape' /\ WaitBudget'
    <2>1. ASSUME NEW l \in Lanes, NEW o \in Owners, NEW j \in Jobs, Push(l, o, j)
          PROVE  RoundShape' /\ WaitBudget'
      BY <2>1, PushRoundInv
    <2>2. CASE StartPop
      BY <1>2, <2>2 DEF StartPop
    <2>3. CASE StartDrain
      BY <1>2, <2>3 DEF StartDrain
    <2>4. CASE Skip
      BY <2>4, SkipRoundInv
    <2>5. CASE Serve
      BY <2>5, ServeRoundInv
    <2>6. CASE EndDrain
      BY <1>2, <2>6 DEF EndDrain
    <2>7. CASE UNCHANGED vars
      BY <1>2, <2>7 DEF vars
    <2> QED BY <2>1, <2>2, <2>3, <2>4, <2>5, <2>6, <2>7 DEF Next
  <1> QED BY <1>1, <1>3 DEF RoundInv

\* A round runs from lane 0 upwards and ends only with every credit used.
THEOREM RoundsKeepShape == Spec => []RoundShape
  <1>1. RoundInv => RoundShape
    BY DEF RoundInv
  <1> QED BY <1>1, InitRoundInv, NextRoundInv, PTL DEF Spec

\* A lane that has a job is served before the other lanes have been served more
\* often than their weights add up to.
THEOREM LaneWaitIsBounded == Spec => []LaneWaitBounded
  <1>1. RoundInv => LaneWaitBounded
    <2> SUFFICES ASSUME RoundInv, NEW l \in Lanes, ~LaneEmpty(l)
                 PROVE  waited[l] <= Before[NumLanes] - Weights[l]
      BY DEF LaneWaitBounded
    <2>1. Ahead(credits, cursor, l) \in Nat
      BY AheadNow DEF RoundInv, LaneInv
    <2>2. waited[l] + Ahead(credits, cursor, l) <= Before[NumLanes] - Weights[l]
      BY DEF RoundInv, WaitBudget
    <2>3. waited[l] \in Nat /\ Before[NumLanes] \in Nat /\ Weights[l] \in Nat
      BY BeforeFacts DEF RoundInv, LaneInv, TypeOK
    <2> QED BY ONLY <2>1, <2>2, <2>3
  <1> QED BY <1>1, InitRoundInv, NextRoundInv, PTL DEF Spec

-----------------------------------------------------------------------------
(* The number of queued jobs.                                              *)

SlotInv == LaneInv /\ IsFiniteSet(Slots) /\ LenIsQueued

\* A slot is a lane, a session and a place in the queue of the session.
LEMMA SlotMembers ==
    /\ \A x : x \in Slots <=> \E l \in Lanes, o \in Owners :
                                \E i \in 1 .. Len(queue[l][o]) : x = <<l, o, i>>
    /\ \A x : x \in Slots' <=> \E l \in Lanes, o \in Owners :
                                 \E i \in 1 .. Len(queue'[l][o]) : x = <<l, o, i>>
  <1> DEFINE Families == {SlotsOf(l, o) : l \in Lanes, o \in Owners}
  <1>1. \A T : T \in Families <=> \E l \in Lanes, o \in Owners : T = SlotsOf(l, o)
    OBVIOUS
  <1>2. \A T : T \in Families' <=> \E l \in Lanes, o \in Owners : T = SlotsOf(l, o)'
    OBVIOUS
  <1>3. Slots = UNION Families /\ Slots' = UNION (Families')
    BY DEF Slots
  <1> HIDE DEF Families
  <1>4. \A x : x \in Slots <=> \E l \in Lanes, o \in Owners : x \in SlotsOf(l, o)
    BY <1>1, <1>3
  <1>5. \A x : x \in Slots' <=> \E l \in Lanes, o \in Owners : x \in SlotsOf(l, o)'
    BY <1>2, <1>3
  <1>6. ASSUME NEW l \in Lanes, NEW o \in Owners, NEW x
        PROVE  x \in SlotsOf(l, o) <=> \E i \in 1 .. Len(queue[l][o]) : x = <<l, o, i>>
    BY DEF SlotsOf
  <1>7. ASSUME NEW l \in Lanes, NEW o \in Owners, NEW x
        PROVE  x \in SlotsOf(l, o)' <=> \E i \in 1 .. Len(queue'[l][o]) : x = <<l, o, i>>
    BY DEF SlotsOf
  <1> QED BY <1>4, <1>5, <1>6, <1>7

\* A push adds the slot behind the last job of the session.
LEMMA PushSlots ==
    ASSUME LaneInv, NEW l \in Lanes, NEW o \in Owners, NEW j \in Jobs, Push(l, o, j)
    PROVE  LET x == <<l, o, Len(queue[l][o]) + 1>>
           IN  x \notin Slots /\ Slots' = Slots \cup {x}
  <1> DEFINE n == Len(queue[l][o])
             x == <<l, o, n + 1>>
  <1>1. queue \in [Lanes -> [Owners -> Seq(Jobs)]] /\ queue[l][o] \in Seq(Jobs)
    BY DEF LaneInv, TypeOK
  <1>2. n \in Nat /\ Len(Append(queue[l][o], j)) = n + 1
    BY <1>1, AppendFacts
  <1>3. queue' = [queue EXCEPT ![l][o] = Append(@, j)]
    BY DEF Push
  <1>4. \A k \in Lanes, p \in Owners :
            Len(queue'[k][p]) = IF k = l /\ p = o THEN n + 1 ELSE Len(queue[k][p])
    BY <1>1, <1>2, <1>3
  <1> HIDE DEF n
  <1>5. x \notin Slots
    <2> SUFFICES ASSUME NEW k \in Lanes, NEW p \in Owners, NEW i \in 1 .. Len(queue[k][p]),
                        x = <<k, p, i>>
                 PROVE  FALSE
      BY SlotMembers
    <2>1. k = l /\ p = o /\ i = n + 1
      OBVIOUS
    <2>2. i \in 1 .. n
      BY <2>1 DEF n
    <2> QED BY ONLY <2>1, <2>2, <1>2
  <1>6. ASSUME NEW y \in Slots PROVE y \in Slots'
    <2>1. PICK k \in Lanes, p \in Owners : \E i \in 1 .. Len(queue[k][p]) : y = <<k, p, i>>
      BY SlotMembers
    <2>2. PICK i \in 1 .. Len(queue[k][p]) : y = <<k, p, i>>
      BY <2>1
    <2>3. i \in 1 .. Len(queue'[k][p])
      BY <1>2, <1>4 DEF n
    <2> QED BY <2>2, <2>3, SlotMembers
  <1>7. x \in Slots'
    <2>1. n + 1 \in 1 .. Len(queue'[l][o])
      BY <1>2, <1>4
    <2> QED BY <2>1, SlotMembers
  <1>8. ASSUME NEW y \in Slots', y # x PROVE y \in Slots
    <2>1. PICK k \in Lanes, p \in Owners : \E i \in 1 .. Len(queue'[k][p]) : y = <<k, p, i>>
      BY SlotMembers
    <2>2. PICK i \in 1 .. Len(queue'[k][p]) : y = <<k, p, i>>
      BY <2>1
    <2>3. i \in 1 .. Len(queue[k][p])
      BY <1>2, <1>4, <1>8, <2>2 DEF n
    <2> QED BY <2>2, <2>3, SlotMembers
  <1>9. Slots' = Slots \cup {x}
    BY <1>6, <1>7, <1>8
  <1> QED BY <1>5, <1>9 DEF n

\* Serving removes the last slot of the session: its jobs move up.
LEMMA ServeSlots ==
    ASSUME LaneInv, Serve
    PROVE  LET x == <<RoundCursor, Head(order[RoundCursor]),
                      Len(queue[RoundCursor][Head(order[RoundCursor])])>>
           IN  x \in Slots /\ Slots' = Slots \ {x}
  <1> DEFINE l == RoundCursor
             o == Head(order[l])
             n == Len(queue[l][o])
             x == <<l, o, n>>
  <1> SUFFICES x \in Slots /\ Slots' = Slots \ {x}
    OBVIOUS
  <1>1. l \in Lanes /\ o \in Owners /\ queue[l][o] \in Seq(Jobs) /\ queue[l][o] # <<>>
    BY ServeFacts
  <1>2. queue \in [Lanes -> [Owners -> Seq(Jobs)]]
    BY DEF LaneInv, TypeOK
  <1>3. n \in Nat /\ n >= 1 /\ Len(Tail(queue[l][o])) = n - 1
    BY <1>1, TailFacts
  <1>4. queue' = [queue EXCEPT ![l][o] = Tail(@)]
    BY DEF Serve
  <1> HIDE DEF l, o
  <1>5. \A k \in Lanes, p \in Owners :
            Len(queue'[k][p]) = IF k = l /\ p = o THEN n - 1 ELSE Len(queue[k][p])
    BY <1>1, <1>2, <1>3, <1>4
  <1> HIDE DEF n
  <1>6. x \in Slots
    <2>1. n \in 1 .. Len(queue[l][o])
      BY <1>3 DEF n
    <2> QED BY <1>1, <2>1, SlotMembers
  <1>7. ASSUME NEW y \in Slots' PROVE y \in Slots /\ y # x
    <2>1. PICK k \in Lanes, p \in Owners : \E i \in 1 .. Len(queue'[k][p]) : y = <<k, p, i>>
      BY SlotMembers
    <2>2. PICK i \in 1 .. Len(queue'[k][p]) : y = <<k, p, i>>
      BY <2>1
    <2>3. i \in 1 .. Len(queue[k][p])
      BY <1>3, <1>5 DEF n
    <2>4. y # x
      BY <1>3, <1>5, <2>2
    <2> QED BY <2>2, <2>3, <2>4, SlotMembers
  <1>8. ASSUME NEW y \in Slots, y # x PROVE y \in Slots'
    <2>1. PICK k \in Lanes, p \in Owners : \E i \in 1 .. Len(queue[k][p]) : y = <<k, p, i>>
      BY SlotMembers
    <2>2. PICK i \in 1 .. Len(queue[k][p]) : y = <<k, p, i>>
      BY <2>1
    <2>3. i \in 1 .. Len(queue'[k][p])
      <3>1. CASE k = l /\ p = o
        <4>1. i \in 1 .. n /\ i # n
          BY <1>8, <2>2, <3>1 DEF n
        <4>2. Len(queue'[k][p]) = n - 1
          BY <1>5, <3>1
        <4> QED BY <1>3, <4>1, <4>2
      <3>2. CASE ~(k = l /\ p = o)
        BY <1>5, <3>2
      <3> QED BY <3>1, <3>2
    <2> QED BY <2>2, <2>3, SlotMembers
  <1> QED BY <1>6, <1>7, <1>8

\* The length is exact initially.
LEMMA InitSlotInv == Init => SlotInv
  <1> SUFFICES ASSUME Init PROVE SlotInv
    OBVIOUS
  <1>1. \A l \in Lanes, o \in Owners : queue[l][o] = <<>>
    BY DEF Init
  <1>2. Slots = {}
    BY <1>1, SlotMembers
  <1>3. IsFiniteSet(Slots) /\ Cardinality(Slots) = 0
    BY <1>2, FS_EmptySet
  <1>4. len = 0
    BY DEF Init
  <1> QED BY <1>3, <1>4, InitLaneInv DEF SlotInv, LenIsQueued

\* The length stays exact.
LEMMA NextSlotInv == SlotInv /\ [Next]_vars => SlotInv'
  <1> SUFFICES ASSUME SlotInv, [Next]_vars PROVE SlotInv'
    OBVIOUS
  <1>1. LaneInv'
    BY NextLaneInv DEF SlotInv
  <1>2. LaneInv /\ IsFiniteSet(Slots) /\ len = Cardinality(Slots) /\ len \in Nat
    BY DEF SlotInv, LenIsQueued, LaneInv, TypeOK
  <1>3. ASSUME UNCHANGED <<queue, len>>
        PROVE  IsFiniteSet(Slots') /\ len' = Cardinality(Slots')
    <2>1. Slots' = Slots
      BY <1>3 DEF Slots, SlotsOf
    <2> QED BY <1>2, <1>3, <2>1
  <1>4. IsFiniteSet(Slots') /\ len' = Cardinality(Slots')
    <2>1. ASSUME NEW l \in Lanes, NEW o \in Owners, NEW j \in Jobs, Push(l, o, j)
          PROVE  IsFiniteSet(Slots') /\ len' = Cardinality(Slots')
      <3> DEFINE x == <<l, o, Len(queue[l][o]) + 1>>
      <3>1. x \notin Slots /\ Slots' = Slots \cup {x}
        BY <1>2, <2>1, PushSlots
      <3>2. len' = len + 1
        BY <2>1 DEF Push
      <3> HIDE DEF x
      <3>3. IsFiniteSet(Slots \cup {x}) /\ Cardinality(Slots \cup {x}) = Cardinality(Slots) + 1
        BY <1>2, <3>1, FS_AddElement
      <3> QED BY <1>2, <3>1, <3>2, <3>3
    <2>2. CASE StartPop
      BY <1>3, <2>2 DEF StartPop
    <2>3. CASE StartDrain
      BY <1>3, <2>3 DEF StartDrain
    <2>4. CASE Skip
      BY <1>3, <2>4 DEF Skip
    <2>5. CASE Serve
      <3> DEFINE x == <<RoundCursor, Head(order[RoundCursor]),
                        Len(queue[RoundCursor][Head(order[RoundCursor])])>>
      <3>1. x \in Slots /\ Slots' = Slots \ {x}
        BY <1>2, <2>5, ServeSlots
      <3>2. len' = len - 1
        BY <2>5 DEF Serve
      <3> HIDE DEF x
      <3>3. IsFiniteSet(Slots \ {x}) /\ Cardinality(Slots \ {x}) = Cardinality(Slots) - 1
        BY <1>2, <3>1, FS_RemoveElement
      <3> QED BY <1>2, <3>1, <3>2, <3>3
    <2>6. CASE EndDrain
      BY <1>3, <2>6 DEF EndDrain
    <2>7. CASE UNCHANGED vars
      BY <1>3, <2>7 DEF vars
    <2> QED BY <2>1, <2>2, <2>3, <2>4, <2>5, <2>6, <2>7 DEF Next
  <1>5. SlotInv' <=> LaneInv' /\ IsFiniteSet(Slots') /\ len' = Cardinality(Slots')
    BY DEF SlotInv, LenIsQueued
  <1> QED BY <1>1, <1>4, <1>5

\* len is the number of queued jobs, however pushes, pops and drains follow each
\* other.
THEOREM LenIsExact == Spec => []LenIsQueued
  <1>1. SlotInv => LenIsQueued
    BY DEF SlotInv
  <1> QED BY <1>1, InitSlotInv, NextSlotInv, PTL DEF Spec

-----------------------------------------------------------------------------
(* Turns of the sessions of a lane.                                        *)

\* A session has not been overtaken by the ones that stand before it, and by any
\* other at most once.
Turns(s, q, ov) ==
    /\ \A i, k \in 1 .. Len(s) : i < k => ov[<<s[k], s[i]>>] = 0
    /\ \A a, b \in Owners : q[a] # <<>> => ov[<<a, b>>] <= 1

TurnInv == LaneInv /\ \A l \in Lanes : Turns(order[l], queue[l], overtaken[l])

\* What a push for a session o without jobs counts: it starts to wait.
Forgotten(ov, o) == [pair \in Owners \X Owners |-> IF pair[1] = o THEN 0 ELSE ov[pair]]

\* A session that joins is behind all others and has not been overtaken.
LEMMA JoinTurns ==
    ASSUME NEW s \in Seq(Owners), NEW q \in [Owners -> Seq(Jobs)],
           NEW ov \in [Owners \X Owners -> Nat], NEW o \in Owners, NEW j \in Jobs,
           LaneAgrees(s, q), Turns(s, q, ov), q[o] = <<>>
    PROVE  Turns(Append(s, o), [q EXCEPT ![o] = Append(@, j)], Forgotten(ov, o))
  <1> DEFINE t == Append(s, o)
             r == [q EXCEPT ![o] = Append(@, j)]
             ow == Forgotten(ov, o)
             n == Len(s)
  <1> SUFFICES Turns(t, r, ow)
    OBVIOUS
  <1>1. /\ t \in Seq(Owners) /\ n \in Nat /\ Len(t) = n + 1 /\ t[n + 1] = o
        /\ \A i \in 1 .. n : t[i] = s[i]
    BY AppendFacts
  <1>2. \A p \in Owners : p # o => r[p] = q[p]
    OBVIOUS
  <1>3. \A a, b \in Owners : ow[<<a, b>>] = IF a = o THEN 0 ELSE ov[<<a, b>>]
    BY DEF Forgotten
  <1>4. \A i \in 1 .. n : s[i] \in Owners /\ s[i] # o
    BY DEF LaneAgrees
  <1>5. \A i, k \in 1 .. n : i < k => ov[<<s[k], s[i]>>] = 0
    BY DEF Turns
  <1>6. \A a, b \in Owners : q[a] # <<>> => ov[<<a, b>>] <= 1
    BY DEF Turns
  <1> HIDE DEF t, r, ow, n
  <1>7. ASSUME NEW i \in 1 .. Len(t), NEW k \in 1 .. Len(t), i < k
        PROVE  ow[<<t[k], t[i]>>] = 0
    <2>1. i \in 1 .. n /\ (k = n + 1 \/ k \in 1 .. n)
      BY <1>1, <1>7
    <2>2. t[i] \in Owners
      BY <1>1, <1>4, <2>1
    <2>3. CASE k = n + 1
      BY <1>1, <1>3, <2>2, <2>3
    <2>4. CASE k \in 1 .. n
      <3>1. t[k] = s[k] /\ t[i] = s[i] /\ s[k] \in Owners /\ s[i] \in Owners /\ s[k] # o
        BY <1>1, <1>4, <2>1, <2>4
      <3>2. ov[<<s[k], s[i]>>] = 0
        BY <1>5, <1>7, <2>1, <2>4
      <3> QED BY <1>3, <3>1, <3>2
    <2> QED BY <2>1, <2>3, <2>4
  <1>8. ASSUME NEW a \in Owners, NEW b \in Owners, r[a] # <<>>
        PROVE  ow[<<a, b>>] <= 1
    BY <1>2, <1>3, <1>6, <1>8
  <1> QED BY <1>7, <1>8 DEF Turns

\* What serving session o counts.
Counted(q, ov, o) ==
    [pair \in Owners \X Owners |->
        IF pair[1] = o THEN 0
        ELSE IF pair[2] = o /\ q[pair[1]] # <<>> THEN ov[pair] + 1 ELSE ov[pair]]

\* The first session is served and goes to the end or leaves: it had not overtaken
\* the others before, and has overtaken each of them once now.
LEMMA ServeTurns ==
    ASSUME NEW s \in Seq(Owners), NEW q \in [Owners -> Seq(Jobs)],
           NEW ov \in [Owners \X Owners -> Nat], s # <<>>,
           LaneAgrees(s, q), Turns(s, q, ov), NEW more \in BOOLEAN
    PROVE  Turns(IF more THEN Append(Tail(s), Head(s)) ELSE Tail(s),
                 [q EXCEPT ![Head(s)] = Tail(@)], Counted(q, ov, Head(s)))
  <1> DEFINE o == Head(s)
             t == IF more THEN Append(Tail(s), o) ELSE Tail(s)
             r == [q EXCEPT ![o] = Tail(@)]
             ow == Counted(q, ov, o)
             n == Len(s)
  <1> SUFFICES Turns(t, r, ow)
    OBVIOUS
  <1>1. /\ o \in Owners /\ o = s[1] /\ Tail(s) \in Seq(Owners) /\ n \in Nat /\ n >= 1
        /\ Len(Tail(s)) = n - 1 /\ \A i \in 1 .. (n - 1) : Tail(s)[i] = s[i + 1]
    BY TailFacts
  <1>2. /\ Len(t) = IF more THEN n ELSE n - 1
        /\ \A i \in 1 .. (n - 1) : t[i] = s[i + 1]
        /\ more => t[n] = o
    BY <1>1, AppendFacts
  <1>3. \A p \in Owners : p # o => r[p] = q[p]
    OBVIOUS
  <1>4. \A a, b \in Owners : ow[<<a, b>>] = IF a = o THEN 0
                ELSE IF b = o /\ q[a] # <<>> THEN ov[<<a, b>>] + 1 ELSE ov[<<a, b>>]
    BY DEF Counted
  <1>5. \A i \in 1 .. n : s[i] \in Owners
    OBVIOUS
  <1>6. \A i, k \in 1 .. n : i < k => ov[<<s[k], s[i]>>] = 0
    BY DEF Turns
  <1>7. \A a, b \in Owners : q[a] # <<>> => ov[<<a, b>>] <= 1
    BY DEF Turns
  <1>8. \A i, k \in 1 .. n : s[i] = s[k] => i = k
    BY DEF LaneAgrees
  <1>9. \A p \in Owners : q[p] # <<>> => \E i \in 1 .. n : s[i] = p
    BY DEF LaneAgrees
  <1> HIDE DEF o, t, r, ow, n
  <1>10. ASSUME NEW i \in 1 .. Len(t), NEW k \in 1 .. Len(t), i < k
         PROVE  ow[<<t[k], t[i]>>] = 0
    <2>1. i \in 1 .. (n - 1) /\ i + 1 \in 1 .. n /\ i + 1 # 1
      BY <1>1, <1>2, <1>10
    <2>2. t[i] = s[i + 1] /\ s[i + 1] \in Owners
      BY <1>2, <1>5, <2>1
    <2>3. s[i + 1] # o
      BY <1>1, <1>8, <2>1
    <2>4. CASE k \in 1 .. (n - 1)
      <3>1. k + 1 \in 1 .. n /\ k + 1 # 1 /\ i + 1 < k + 1
        BY <1>1, <1>10, <2>4
      <3>2. t[k] = s[k + 1] /\ s[k + 1] \in Owners /\ s[k + 1] # o
        BY <1>1, <1>2, <1>5, <1>8, <2>4, <3>1
      <3>3. ov[<<s[k + 1], s[i + 1]>>] = 0
        BY <1>6, <2>1, <3>1
      <3> QED BY <1>4, <2>2, <2>3, <3>2, <3>3
    <2>5. CASE k = n /\ more
      BY <1>1, <1>2, <1>4, <2>2, <2>5
    <2> QED BY <1>1, <1>2, <2>4, <2>5
  <1>11. ASSUME NEW a \in Owners, NEW b \in Owners, r[a] # <<>>
         PROVE  ow[<<a, b>>] <= 1
    <2>1. CASE a = o
      BY <1>4, <2>1
    <2>2. CASE a # o /\ b # o
      BY <1>3, <1>4, <1>7, <1>11, <2>2
    <2>3. CASE a # o /\ b = o
      <3>1. q[a] # <<>>
        BY <1>3, <1>11, <2>3
      <3>2. PICK k \in 1 .. n : s[k] = a
        BY <1>9, <3>1
      <3>3. k # 1 /\ 1 \in 1 .. n /\ 1 < k
        BY <1>1, <2>3, <3>2
      <3>4. ov[<<a, b>>] = 0
        BY <1>1, <1>6, <2>3, <3>2, <3>3
      <3> QED BY <1>4, <2>3, <3>1, <3>4
    <2> QED BY <2>1, <2>2, <2>3
  <1> QED BY <1>10, <1>11 DEF Turns

\* Turns hold initially: nobody waits.
LEMMA InitTurnInv == Init => TurnInv
  <1> SUFFICES ASSUME Init PROVE TurnInv
    OBVIOUS
  <1>1. \A l \in Lanes : Turns(order[l], queue[l], overtaken[l])
    BY DEF Init, Turns
  <1> QED BY <1>1, InitLaneInv DEF TurnInv

\* A push keeps the turns.
LEMMA PushTurnInv ==
    ASSUME TurnInv, NEW l \in Lanes, NEW o \in Owners, NEW j \in Jobs, Push(l, o, j),
           NEW k \in Lanes
    PROVE  Turns(order'[k], queue'[k], overtaken'[k])
  <1>1. TypeOK /\ LaneAgrees(order[l], queue[l]) /\ Turns(order[l], queue[l], overtaken[l])
    BY OrderByLane DEF TurnInv, LaneInv
  <1>2. /\ order[l] \in Seq(Owners) /\ queue[l] \in [Owners -> Seq(Jobs)]
        /\ overtaken[l] \in [Owners \X Owners -> Nat]
    BY <1>1 DEF TypeOK
  <1>3. queue' = [queue EXCEPT ![l] = [queue[l] EXCEPT ![o] = Append(@, j)]]
    BY <1>1, <1>2 DEF Push, TypeOK
  <1>4. CASE k # l
    <2>1. order'[k] = order[k] /\ queue'[k] = queue[k] /\ overtaken'[k] = overtaken[k]
      BY <1>1, <1>3, <1>4 DEF Push, Entered, TypeOK
    <2> QED BY <2>1 DEF TurnInv
  <1>5. CASE k = l
    <2>1. queue'[k] = [queue[l] EXCEPT ![o] = Append(@, j)]
      BY <1>1, <1>3, <1>5 DEF TypeOK
    <2>2. CASE queue[l][o] = <<>>
      <3> DEFINE ow == Forgotten(overtaken[l], o)
      <3>1. order'[k] = Append(order[l], o)
        BY <1>1, <1>5, <2>2 DEF Push, Entered, TypeOK
      <3>2. overtaken' = [overtaken EXCEPT ![l] = ow]
        BY <2>2 DEF Push, Forgotten
      <3>3. Turns(Append(order[l], o), [queue[l] EXCEPT ![o] = Append(@, j)], ow)
        BY <1>1, <1>2, <2>2, JoinTurns
      <3> HIDE DEF ow
      <3>4. overtaken'[k] = ow
        BY <1>1, <1>5, <3>2 DEF TypeOK
      <3> QED BY <2>1, <3>1, <3>3, <3>4
    <2>3. CASE queue[l][o] # <<>>
      <3>1. order'[k] = order[l] /\ overtaken'[k] = overtaken[l]
        BY <1>5, <2>3 DEF Push, Entered
      <3>2. \A a \in Owners : queue'[k][a] # <<>> => queue[l][a] # <<>>
        BY <1>2, <2>1, <2>3
      <3> QED BY <1>1, <3>1, <3>2 DEF Turns
    <2> QED BY <2>2, <2>3
  <1> QED BY <1>4, <1>5

\* Serving a job keeps the turns.
LEMMA ServeTurnInv ==
    ASSUME TurnInv, Serve, NEW k \in Lanes
    PROVE  Turns(order'[k], queue'[k], overtaken'[k])
  <1> DEFINE l == RoundCursor
             o == Head(order[l])
             more == Len(queue[l][o]) > 1
             s == IF more THEN Append(Tail(order[l]), o) ELSE Tail(order[l])
             q == [queue[l] EXCEPT ![o] = Tail(@)]
             ow == Counted(queue[l], overtaken[l], o)
  <1>1. /\ l \in Lanes /\ order[l] \in Seq(Owners) /\ order[l] # <<>>
        /\ o \in Owners /\ queue[l] \in [Owners -> Seq(Jobs)]
        /\ LaneAgrees(order[l], queue[l])
    BY ServeFacts DEF TurnInv
  <1>2. TypeOK /\ Turns(order[l], queue[l], overtaken[l])
    BY <1>1 DEF TurnInv, LaneInv
  <1>3. overtaken[l] \in [Owners \X Owners -> Nat]
    BY <1>1, <1>2 DEF TypeOK
  <1>4. Turns(s, q, ow)
    BY <1>1, <1>2, <1>3, ServeTurns
  <1>5. order' = [order EXCEPT ![l] = s] /\ queue' = [queue EXCEPT ![l] = q]
    BY <1>1, <1>2 DEF Serve, Rotated, TypeOK
  <1>6. overtaken' = [overtaken EXCEPT ![l] = ow]
    BY DEF Serve, Counted
  <1> HIDE DEF l, s, q, ow
  <1>7. CASE k = l
    BY <1>1, <1>2, <1>4, <1>5, <1>6, <1>7 DEF TypeOK
  <1>8. CASE k # l
    <2>1. order'[k] = order[k] /\ queue'[k] = queue[k] /\ overtaken'[k] = overtaken[k]
      BY <1>1, <1>2, <1>5, <1>6, <1>8 DEF TypeOK
    <2> QED BY <2>1 DEF TurnInv
  <1> QED BY <1>7, <1>8

\* Turns are kept by every step.
LEMMA NextTurnInv == TurnInv /\ [Next]_vars => TurnInv'
  <1> SUFFICES ASSUME TurnInv, [Next]_vars PROVE TurnInv'
    OBVIOUS
  <1>1. LaneInv'
    BY NextLaneInv DEF TurnInv
  <1>2. ASSUME UNCHANGED <<order, queue, overtaken>>, NEW k \in Lanes
        PROVE  Turns(order'[k], queue'[k], overtaken'[k])
    BY <1>2 DEF TurnInv
  <1>3. ASSUME NEW k \in Lanes
        PROVE  Turns(order'[k], queue'[k], overtaken'[k])
    <2>1. ASSUME NEW l \in Lanes, NEW o \in Owners, NEW j \in Jobs, Push(l, o, j)
          PROVE  Turns(order'[k], queue'[k], overtaken'[k])
      BY <2>1, PushTurnInv
    <2>2. CASE StartPop
      BY <1>2, <2>2 DEF StartPop
    <2>3. CASE StartDrain
      BY <1>2, <2>3 DEF StartDrain
    <2>4. CASE Skip
      BY <1>2, <2>4 DEF Skip
    <2>5. CASE Serve
      BY <2>5, ServeTurnInv
    <2>6. CASE EndDrain
      BY <1>2, <2>6 DEF EndDrain
    <2>7. CASE UNCHANGED vars
      BY <1>2, <2>7 DEF vars
    <2> QED BY <2>1, <2>2, <2>3, <2>4, <2>5, <2>6, <2>7 DEF Next
  <1>4. TurnInv' <=> LaneInv' /\ \A k \in Lanes : Turns(order'[k], queue'[k], overtaken'[k])
    BY DEF TurnInv, Turns
  <1> QED BY <1>1, <1>3, <1>4

\* The sessions of a lane take turns: none is served twice while another waits.
THEOREM SessionsAlternate == Spec => []SessionsTakeTurns
  <1>1. TurnInv => SessionsTakeTurns
    <2> SUFFICES ASSUME TurnInv, NEW l \in Lanes, NEW pair \in Owners \X Owners,
                        queue[l][pair[1]] # <<>>
                 PROVE  overtaken[l][pair] <= 1
      BY DEF SessionsTakeTurns
    <2>1. pair[1] \in Owners /\ pair[2] \in Owners /\ pair = <<pair[1], pair[2]>>
      OBVIOUS
    <2>2. overtaken[l][<<pair[1], pair[2]>>] <= 1
      BY <2>1 DEF TurnInv, Turns
    <2> QED BY <2>1, <2>2
  <1> QED BY <1>1, InitTurnInv, NextTurnInv, PTL DEF Spec
=============================================================================
