------------------------ MODULE TaskSchedulerProofs ------------------------
(***************************************************************************)
(* Proofs about TaskScheduler, for every graph, every budget and every     *)
(* number of workers: exactly the cyclic graphs are refused, the memory    *)
(* handed out and the memory left add up to the budget, no action runs     *)
(* after the call failed, and a validated graph always has a next task.    *)
(***************************************************************************)
EXTENDS TaskScheduler, FiniteSetTheorems, WellFoundedInduction, TLAPS

-----------------------------------------------------------------------------
(* Sums over finite sets.  MapThenSumSet takes the elements of a set in    *)
(* the order CHOOSE gives them; that the order does not matter is shown by *)
(* looking at a smallest set for which it would.                           *)

\* A nonempty family of subsets of a finite set has a smallest member.
LEMMA SmallestSubset ==
  ASSUME NEW S, IsFiniteSet(S)
  PROVE  \A F \in SUBSET SUBSET S :
            F # {} => \E m \in F : \A s \in F : s \subseteq m => s = m
<1> TAKE F \in SUBSET SUBSET S
<1> HAVE F # {}
<1>1. IsWellFoundedOn(StrictSubsetOrdering(S), FiniteSubsetsOf(S))
  BY FS_StrictSubsetOrderingWellFounded
<1>2. F \subseteq FiniteSubsetsOf(S)
  BY FS_FiniteSubsetsOfFinite
<1>3. \E m \in F : \A s \in F : ~(<<s, m>> \in StrictSubsetOrdering(S))
  BY <1>1, <1>2, WFMin, Zenon
<1> QED
  BY <1>3 DEF StrictSubsetOrdering

First(s) == CHOOSE x \in s : TRUE

\* h adds up f over each subset of S, one element after the other.
Adds(f, S, h) ==
    h = [s \in SUBSET S |-> IF s = {} THEN 0 ELSE f[First(s)] + h[s \ {First(s)}]]

Adder(f, S) == CHOOSE h : Adds(f, S, h)
SumOf(f, S) == Adder(f, S)[S]

LEMMA FirstInSet == ASSUME NEW s, s # {} PROVE First(s) \in s
  BY DEF First

LEMMA AddsUnfold ==
  ASSUME NEW f, NEW S, NEW h, Adds(f, S, h), NEW s \in SUBSET S
  PROVE  h[s] = IF s = {} THEN 0 ELSE f[First(s)] + h[s \ {First(s)}]
<1> DEFINE body(x) == IF x = {} THEN 0 ELSE f[First(x)] + h[x \ {First(x)}]
<1>1. h = [x \in SUBSET S |-> body(x)]
  BY DEF Adds
<1>2. h[s] = body(s)
  <2> HIDE DEF body
  <2> QED BY <1>1
<1> QED BY <1>2

\* Two such functions agree where both are defined.
LEMMA AddersAgree ==
  ASSUME NEW f, NEW S, NEW T, IsFiniteSet(S), NEW g, NEW h, Adds(f, S, g), Adds(f, T, h),
         NEW s \in SUBSET S, s \in SUBSET T
  PROVE  g[s] = h[s]
<1> DEFINE Bad == {x \in SUBSET S : x \in SUBSET T /\ g[x] # h[x]}
<1> SUFFICES ASSUME Bad # {} PROVE FALSE
  OBVIOUS
<1>1. PICK m \in Bad : \A x \in Bad : x \subseteq m => x = m
  <2>1. Bad \subseteq SUBSET S
    OBVIOUS
  <2> HIDE DEF Bad
  <2> QED BY <2>1, SmallestSubset
<1>2. g[m] = IF m = {} THEN 0 ELSE f[First(m)] + g[m \ {First(m)}]
  BY AddsUnfold
<1>3. h[m] = IF m = {} THEN 0 ELSE f[First(m)] + h[m \ {First(m)}]
  BY AddsUnfold
<1>4. m # {}
  BY <1>2, <1>3
<1>5. First(m) \in m
  BY <1>4, FirstInSet
<1>6. m \ {First(m)} \notin Bad
  BY <1>1, <1>5
<1>7. g[m \ {First(m)}] = h[m \ {First(m)}]
  BY <1>6
<1> QED BY <1>2, <1>3, <1>7

\* There is one for every finite set.
LEMMA AdderExists ==
  ASSUME NEW f, NEW S, IsFiniteSet(S)
  PROVE  Adds(f, S, Adder(f, S))
<1> DEFINE Bad == {x \in SUBSET S : ~ \E h : Adds(f, x, h)}
<1>1. ASSUME Bad # {} PROVE FALSE
  <2>1. PICK m \in Bad : \A x \in Bad : x \subseteq m => x = m
    <3>1. Bad \subseteq SUBSET S
      OBVIOUS
    <3> HIDE DEF Bad
    <3> QED BY <1>1, <3>1, SmallestSubset
  <2> DEFINE rest(s) == s \ {First(s)}
             val(s) == IF s = {} THEN 0 ELSE f[First(s)] + SumOf(f, rest(s))
             h == [s \in SUBSET m |-> val(s)]
  <2>2. ASSUME NEW x \in SUBSET m, x # m PROVE Adds(f, x, Adder(f, x))
    <3>1. x \notin Bad /\ x \in SUBSET S
      BY <2>1, <2>2
    <3>2. \E g : Adds(f, x, g)
      BY <3>1
    <3> QED BY <3>2 DEF Adder
  <2>3. ASSUME NEW x \in SUBSET m, x # m PROVE val(x) = SumOf(f, x)
    <3>1. Adds(f, x, Adder(f, x))
      BY <2>2, <2>3
    <3>2. SumOf(f, x) = IF x = {} THEN 0 ELSE f[First(x)] + Adder(f, x)[rest(x)]
      BY <3>1, AddsUnfold DEF SumOf
    <3>3. CASE x = {}
      BY <3>2, <3>3
    <3>4. CASE x # {}
      <4>1. First(x) \in x
        BY <3>4, FirstInSet
      <4>2. rest(x) \in SUBSET m /\ rest(x) # m /\ rest(x) \in SUBSET x
        BY <4>1, <2>3
      <4>3. Adds(f, rest(x), Adder(f, rest(x)))
        BY <4>2, <2>2
      <4>4. IsFiniteSet(x)
        BY <2>1, FS_Subset
      <4>5. Adder(f, x)[rest(x)] = Adder(f, rest(x))[rest(x)]
        BY <3>1, <4>2, <4>3, <4>4, AddersAgree
      <4> QED BY <3>2, <3>4, <4>5 DEF SumOf
    <3> QED BY <3>3, <3>4
  <2>4. ASSUME NEW s \in SUBSET m
        PROVE  val(s) = IF s = {} THEN 0 ELSE f[First(s)] + h[rest(s)]
    <3>1. CASE s = {}
      BY <3>1
    <3>2. CASE s # {}
      <4>1. First(s) \in s
        BY <3>2, FirstInSet
      <4>2. rest(s) \in SUBSET m /\ rest(s) # m
        BY <4>1, <2>4
      <4>3. h[rest(s)] = val(rest(s)) /\ val(rest(s)) = SumOf(f, rest(s))
        <5>1. val(rest(s)) = SumOf(f, rest(s))
          BY <4>2, <2>3
        <5>2. h[rest(s)] = val(rest(s))
          <6> HIDE DEF val, rest
          <6> QED BY <4>2
        <5> QED BY <5>1, <5>2
      <4> QED BY <3>2, <4>3
    <3> QED BY <3>1, <3>2
  <2>5. Adds(f, m, h)
    <3> DEFINE body(s) == IF s = {} THEN 0 ELSE f[First(s)] + h[rest(s)]
    <3>1. \A s \in SUBSET m : val(s) = body(s)
      BY <2>4
    <3>2. h = [s \in SUBSET m |-> body(s)]
      <4> HIDE DEF val, body
      <4> QED BY <3>1
    <3> HIDE DEF h
    <3> QED BY <3>2 DEF Adds
  <2> QED BY <2>1, <2>5
<1>2. S \notin Bad
  BY <1>1
<1> QED BY <1>2 DEF Adder

LEMMA SumUnfold ==
  ASSUME NEW f, NEW S, IsFiniteSet(S)
  PROVE  SumOf(f, S) = IF S = {} THEN 0 ELSE f[First(S)] + SumOf(f, S \ {First(S)})
<1>1. Adds(f, S, Adder(f, S))
  BY AdderExists
<1>2. SumOf(f, S) = IF S = {} THEN 0 ELSE f[First(S)] + Adder(f, S)[S \ {First(S)}]
  BY <1>1, AddsUnfold DEF SumOf
<1> DEFINE T == S \ {First(S)}
<1>3. IsFiniteSet(T) /\ T \in SUBSET S
  BY FS_Subset
<1>4. Adds(f, T, Adder(f, T))
  BY <1>3, AdderExists
<1>5. Adder(f, S)[T] = Adder(f, T)[T]
  BY <1>1, <1>3, <1>4, AddersAgree
<1> QED BY <1>2, <1>5 DEF SumOf

\* The sum of naturals is a natural.
LEMMA SumType ==
  ASSUME NEW D, NEW f \in [D -> Nat], NEW S \in SUBSET D, IsFiniteSet(S)
  PROVE  SumOf(f, S) \in Nat
<1> DEFINE Bad == {x \in SUBSET S : SumOf(f, x) \notin Nat}
<1> SUFFICES ASSUME Bad # {} PROVE FALSE
  OBVIOUS
<1>1. PICK m \in Bad : \A x \in Bad : x \subseteq m => x = m
  <2>1. Bad \subseteq SUBSET S
    OBVIOUS
  <2> HIDE DEF Bad
  <2> QED BY <2>1, SmallestSubset
<1>2. IsFiniteSet(m)
  BY FS_Subset
<1>3. SumOf(f, m) = IF m = {} THEN 0 ELSE f[First(m)] + SumOf(f, m \ {First(m)})
  BY <1>2, SumUnfold
<1>4. m # {}
  BY <1>3
<1>5. First(m) \in m
  BY <1>4, FirstInSet
<1>6. SumOf(f, m \ {First(m)}) \in Nat
  BY <1>1, <1>5
<1>7. f[First(m)] \in Nat
  BY <1>5
<1> QED BY <1>1, <1>3, <1>4, <1>6, <1>7

\* Any element may be taken out first.
LEMMA SumRemove ==
  ASSUME NEW D, NEW f \in [D -> Nat], NEW S \in SUBSET D, IsFiniteSet(S), NEW t \in S
  PROVE  SumOf(f, S) = f[t] + SumOf(f, S \ {t})
<1> DEFINE Bad == {x \in SUBSET S : \E u \in x : SumOf(f, x) # f[u] + SumOf(f, x \ {u})}
<1> SUFFICES ASSUME Bad # {} PROVE FALSE
  OBVIOUS
<1>1. PICK m \in Bad : \A x \in Bad : x \subseteq m => x = m
  <2>1. Bad \subseteq SUBSET S
    OBVIOUS
  <2> HIDE DEF Bad
  <2> QED BY <2>1, SmallestSubset
<1>2. PICK u \in m : SumOf(f, m) # f[u] + SumOf(f, m \ {u})
  BY <1>1
<1> DEFINE v == First(m)
<1>3. v \in m
  BY <1>2, FirstInSet
<1> HIDE DEF v
<1>4. IsFiniteSet(m) /\ IsFiniteSet(m \ {u}) /\ IsFiniteSet(m \ {v})
  BY <1>1, FS_Subset
<1>5. SumOf(f, m) = f[v] + SumOf(f, m \ {v})
  BY <1>2, <1>4, SumUnfold DEF v
<1>6. u # v
  BY <1>2, <1>5
<1> DEFINE r == m \ {u, v}
<1>7. m \ {u} \notin Bad /\ m \ {v} \notin Bad
  BY <1>1, <1>2, <1>3
<1>8. SumOf(f, m \ {v}) = f[u] + SumOf(f, (m \ {v}) \ {u})
  BY <1>2, <1>6, <1>7
<1>9. SumOf(f, m \ {u}) = f[v] + SumOf(f, (m \ {u}) \ {v})
  BY <1>3, <1>6, <1>7
<1>10. (m \ {v}) \ {u} = r /\ (m \ {u}) \ {v} = r
  OBVIOUS
<1>11. SumOf(f, r) \in Nat /\ f[u] \in Nat /\ f[v] \in Nat
  <2>1. r \in SUBSET D /\ u \in D /\ v \in D
    BY <1>1, <1>2, <1>3
  <2>2. IsFiniteSet(r)
    BY <1>4, FS_Subset
  <2> QED BY <2>1, <2>2, SumType
<1> HIDE DEF r
<1> QED BY <1>2, <1>5, <1>8, <1>9, <1>10, <1>11

LEMMA SumEmpty == ASSUME NEW f PROVE SumOf(f, {}) = 0
  BY SumUnfold, FS_EmptySet

-----------------------------------------------------------------------------
(* The invariant.                                                          *)

\* validate_dag has visited the tasks of V: everything they depend on, so there is
\* no cycle among them; what is ready depends on nothing else, and indegrees count
\* the dependencies not visited.
VisitedAre(V) ==
    /\ visited = Cardinality(V)
    /\ \A t \in V : deps[t] \subseteq V
    /\ \A S \in SUBSET V : S # {} => \E t \in S : deps[t] \cap S = {}
    /\ ready = {t \in Tasks \ V : deps[t] \subseteq V}
    /\ \A t \in Tasks : indegree[t] = Cardinality(deps[t] \ V)

GraphInv ==
    /\ deps \in [Tasks -> SUBSET Tasks]
    /\ memory \in [Tasks -> Sizes]
    /\ phase \in {"validate", "dispatch", "receive"} \cup Returned
    /\ phase = "validate" => \E V \in SUBSET Tasks : VisitedAre(V)
    /\ visited \in 0 .. NumTasks /\ indegree \in [Tasks -> Nat] /\ ready \subseteq Tasks
    /\ ValidateIsExact
    /\ phase \in {"dispatch", "receive"} => \A t \in Tasks : memory[t] <= Budget

\* Where the dispatched tasks are: received ones have sent, and a result in the
\* channel is the only one of a task that has sent and was not received.
PlacesInv ==
    /\ work \in [Tasks -> {"none", "spawned", "busy", "sent"}]
    /\ channel \in Seq([task : Tasks, ok : BOOLEAN])
    /\ done \in Seq(Tasks)
    /\ pending = {t \in Tasks : work[t] = "none"}
    /\ \A t \in Completed : work[t] = "sent"
    /\ phase \notin Returned =>
        /\ \A i \in 1 .. Len(channel) :
              work[channel[i].task] = "sent" /\ channel[i].task \notin Completed
        /\ \A i, k \in 1 .. Len(channel) : channel[i].task = channel[k].task => i = k

\* Memory and workers are accounted for by the tasks in flight.
AccountInv ==
    /\ available \in 0 .. Budget /\ running \in 0 .. Workers
    /\ dispatched \in BOOLEAN /\ cancelled \in BOOLEAN
    /\ phase \notin Returned =>
        /\ running = Cardinality(InFlight)
        /\ available + SumOf(memory, InFlight) = Budget
        /\ Len(done) = Cardinality(Completed)
        /\ Len(done) < NumTasks
    /\ phase = "failed" => cancelled
    /\ phase # "stuck"

SchedInv == GraphInv /\ PlacesInv /\ AccountInv


-----------------------------------------------------------------------------
(* Facts the steps need.                                                   *)

\* MemoryOf is the sum.
LEMMA MemoryIsSum == ASSUME NEW S PROVE MemoryOf(S) = SumOf(memory, S)
  BY DEF MemoryOf, MapThenSumSet, MapThenFoldSet, SumOf, Adder, Adds, First

LEMMA TasksFinite ==
  /\ IsFiniteSet(Tasks) /\ Cardinality(Tasks) = NumTasks
  /\ \A S \in SUBSET Tasks : IsFiniteSet(S) /\ Cardinality(S) \in Nat /\ Cardinality(S) <= NumTasks
  /\ \A S \in SUBSET Tasks : Cardinality(S) = NumTasks => S = Tasks
  /\ \A S \in SUBSET Tasks : Cardinality(S) = 0 => S = {}
<1>1. IsFiniteSet(Tasks) /\ Cardinality(Tasks) = NumTasks
  BY TaskSchedulerAssumption, FS_Interval DEF Tasks
<1>2. ASSUME NEW S \in SUBSET Tasks
      PROVE  /\ IsFiniteSet(S) /\ Cardinality(S) \in Nat /\ Cardinality(S) <= NumTasks
             /\ Cardinality(S) = NumTasks => S = Tasks
             /\ Cardinality(S) = 0 => S = {}
  BY <1>1, FS_Subset, FS_CardinalityType, FS_EmptySet
<1> QED BY <1>1, <1>2

\* Min picks an element of a nonempty set of tasks.
LEMMA MinInSet == ASSUME NEW S \in SUBSET Tasks, S # {} PROVE Min(S) \in S
<1> DEFINE F == {1 .. k : k \in S}
<1>1. F \subseteq SUBSET Tasks /\ F # {}
  <2>1. \A k \in S : k \in Nat /\ k <= NumTasks
    BY TaskSchedulerAssumption DEF Tasks
  <2>2. \A k \in S : 1 .. k \subseteq 1 .. NumTasks
    BY <2>1, TaskSchedulerAssumption
  <2> QED BY <2>2 DEF Tasks
<1>2. PICK m \in F : \A s \in F : s \subseteq m => s = m
  <2> HIDE DEF F
  <2> QED BY <1>1, TasksFinite, SmallestSubset
<1>3. PICK x \in S : m = 1 .. x
  BY <1>2
<1>4. ASSUME NEW y \in S PROVE x <= y
  <2> SUFFICES ASSUME y < x PROVE FALSE
    BY DEF Tasks
  <2>1. 1 .. y = 1 .. x
    <3>1. 1 .. y \subseteq 1 .. x
      BY DEF Tasks
    <3>2. 1 .. y \in F
      OBVIOUS
    <3> HIDE DEF F
    <3> QED BY <1>2, <1>3, <3>1, <3>2
  <2>2. x \in 1 .. x
    BY DEF Tasks
  <2>3. x \in 1 .. y
    BY <2>1, <2>2
  <2> QED BY <2>3 DEF Tasks
<1> QED BY <1>4 DEF Min

\* What a task needs is a natural number.
LEMMA MemoryNat == ASSUME GraphInv PROVE memory \in [Tasks -> Nat]
  BY TaskSchedulerAssumption DEF GraphInv

LEMMA CompletedType == ASSUME PlacesInv PROVE Completed \subseteq Tasks
  BY DEF PlacesInv, Completed

LEMMA ChannelType ==
  ASSUME PlacesInv
  PROVE  \A i \in 1 .. Len(channel) : channel[i].task \in Tasks /\ channel[i].ok \in BOOLEAN
<1>1. channel \in Seq([task : Tasks, ok : BOOLEAN])
  BY DEF PlacesInv
<1>2. ASSUME NEW R, channel \in Seq(R) PROVE \A i \in 1 .. Len(channel) : channel[i] \in R
  BY <1>2
<1>3. \A i \in 1 .. Len(channel) : channel[i] \in [task : Tasks, ok : BOOLEAN]
  BY <1>1, <1>2, Zenon
<1>4. ASSUME NEW B, NEW r \in [task : Tasks, ok : B] PROVE r.task \in Tasks /\ r.ok \in B
  OBVIOUS
<1>5. \A r \in [task : Tasks, ok : BOOLEAN] : r.task \in Tasks /\ r.ok \in BOOLEAN
  BY <1>4, Zenon
<1> QED BY <1>3, <1>5, Zenon

LEMMA InitInv == Init => SchedInv
<1> SUFFICES ASSUME Init PROVE SchedInv
  OBVIOUS
<1> USE TaskSchedulerAssumption
<1>1. Completed = {} /\ InFlight = {}
  BY DEF Init, Completed, InFlight
<1>2. VisitedAre({})
  <2>1. \A t \in Tasks : deps[t] \ {} = deps[t]
    OBVIOUS
  <2> QED BY <2>1, FS_EmptySet DEF Init, VisitedAre
<1>3. indegree \in [Tasks -> Nat]
  <2>1. \A t \in Tasks : Cardinality(deps[t]) \in Nat
    BY TasksFinite DEF Init
  <2> QED BY <2>1 DEF Init
<1>4. GraphInv
  BY <1>2, <1>3 DEF Init, GraphInv, ValidateIsExact, Returned
<1>5. PlacesInv
  BY <1>1 DEF Init, PlacesInv
<1>6. AccountInv
  <2>1. Cardinality(InFlight) = 0 /\ Cardinality(Completed) = 0
    BY <1>1, FS_EmptySet
  <2>2. SumOf(memory, InFlight) = 0
    BY <1>1, SumEmpty
  <2>3. Len(done) = 0
    BY DEF Init
  <2>4. phase = "validate" /\ available = Budget /\ running = 0
    BY DEF Init
  <2>5. dispatched \in BOOLEAN /\ cancelled \in BOOLEAN
    BY Zenon DEF Init
  <2> QED BY <2>1, <2>2, <2>3, <2>4, <2>5 DEF AccountInv
<1> QED BY <1>4, <1>5, <1>6 DEF SchedInv

-----------------------------------------------------------------------------
(* validate_dag.                                                           *)

\* One more task is visited.
LEMMA VisitStep == ASSUME SchedInv, NEW t \in Tasks, Visit(t) PROVE SchedInv'
<1> USE DEF SchedInv
<1>1. PICK V \in SUBSET Tasks : VisitedAre(V)
  BY DEF GraphInv, Visit
<1> DEFINE W == V \cup {t}
           left == [c \in Tasks |-> IF t \in deps[c] THEN indegree[c] - 1 ELSE indegree[c]]
<1>2. t \notin V /\ deps[t] \subseteq V /\ deps' = deps /\ phase' = phase /\ phase = "validate"
  BY <1>1 DEF Visit, VisitedAre, graphVars
<1>3. IsFiniteSet(V) /\ W \in SUBSET Tasks
  BY TasksFinite
<1>4. visited' = Cardinality(W)
  BY <1>1, <1>2, <1>3, FS_AddElement DEF Visit, VisitedAre
<1>5. \A u \in W : deps[u] \subseteq W
  BY <1>1, <1>2 DEF VisitedAre
<1>6. ASSUME NEW S \in SUBSET W, S # {} PROVE \E u \in S : deps[u] \cap S = {}
  <2>1. CASE t \notin S
    BY <1>1, <1>6, <2>1 DEF VisitedAre
  <2>2. CASE S = {t}
    BY <1>2, <2>2
  <2>3. CASE S \ {t} # {}
    <3>1. PICK u \in S \ {t} : deps[u] \cap (S \ {t}) = {}
      <4>1. S \ {t} \in SUBSET V
        BY <1>6
      <4> QED BY <1>1, <2>3, <4>1 DEF VisitedAre
    <3>2. t \notin deps[u]
      BY <1>1, <1>2, <1>6, <3>1 DEF VisitedAre
    <3> QED BY <3>1, <3>2
  <2> QED BY <1>6, <2>1, <2>2, <2>3
<1>7. ASSUME NEW c \in Tasks PROVE left[c] = Cardinality(deps[c] \ W) /\ left[c] \in Nat
  <2>1. deps[c] \ V \in SUBSET Tasks /\ deps[c] \ W \in SUBSET Tasks
    BY DEF GraphInv
  <2>2. IsFiniteSet(deps[c] \ V) /\ Cardinality(deps[c] \ W) \in Nat
    BY <2>1, TasksFinite
  <2>3. indegree[c] = Cardinality(deps[c] \ V)
    BY <1>1 DEF VisitedAre
  <2>4. CASE t \in deps[c]
    <3>1. deps[c] \ W = (deps[c] \ V) \ {t} /\ t \in deps[c] \ V
      BY <1>2, <2>4
    <3>2. Cardinality(deps[c] \ W) = Cardinality(deps[c] \ V) - 1
      BY <2>2, <3>1, FS_RemoveElement
    <3> QED BY <2>2, <2>3, <2>4, <3>2
  <2>5. CASE t \notin deps[c]
    <3>1. deps[c] \ W = deps[c] \ V
      BY <2>5
    <3> QED BY <2>2, <2>3, <2>5, <3>1
  <2> QED BY <2>4, <2>5
<1>8. indegree' = left
  BY DEF Visit
<1>9. ready' = {c \in Tasks \ W : deps[c] \subseteq W}
  <2>1. \A c \in Tasks : left[c] = 0 <=> deps[c] \subseteq W
    <3> TAKE c \in Tasks
    <3>1. deps[c] \ W \in SUBSET Tasks
      BY DEF GraphInv
    <3>2. Cardinality(deps[c] \ W) = 0 <=> deps[c] \ W = {}
      BY <3>1, TasksFinite, FS_EmptySet
    <3> QED BY <1>7, <3>2
  <2>2. ready' = (ready \ {t}) \cup {c \in Tasks : t \in deps[c] /\ left[c] = 0}
    BY DEF Visit, Readied
  <2> HIDE DEF left
  <2>3. ready' = (ready \ {t}) \cup {c \in Tasks : t \in deps[c] /\ deps[c] \subseteq W}
    BY <2>1, <2>2
  <2>4. \A c \in Tasks : t \in deps[c] => c \notin W
    BY <1>1, <1>2 DEF VisitedAre
  <2>5. ready = {c \in Tasks \ V : deps[c] \subseteq V}
    BY <1>1 DEF VisitedAre
  <2> QED BY <2>3, <2>4, <2>5
<1>10. VisitedAre(W)'
  <2> HIDE DEF left, W
  <2> QED BY <1>2, <1>4, <1>5, <1>6, <1>7, <1>8, <1>9 DEF VisitedAre
<1>11. visited' \in 0 .. NumTasks
  BY <1>3, <1>4, TasksFinite, TaskSchedulerAssumption
<1>12. indegree' \in [Tasks -> Nat] /\ ready' \subseteq Tasks
  BY <1>7, <1>8, <1>9
<1>13. GraphInv'
  <2> HIDE DEF W
  <2> QED BY <1>2, <1>3, <1>10, <1>11, <1>12
          DEF GraphInv, Visit, ValidateIsExact, graphVars, Returned
<1>14. PlacesInv' /\ AccountInv'
  <2>1. Completed' = Completed /\ InFlight' = InFlight
    BY DEF Visit, InFlight, Completed, loopVars
  <2>2. UNCHANGED <<memory, phase, loopVars, work, channel, cancelled>>
    BY DEF Visit, graphVars
  <2> QED BY <2>1, <2>2 DEF PlacesInv, AccountInv, loopVars
<1> QED BY <1>13, <1>14

\* What validate_dag returns is right.
LEMMA ValidatedStep == ASSUME SchedInv, Validated PROVE SchedInv'
<1> USE DEF SchedInv
<1>1. PICK V \in SUBSET Tasks : VisitedAre(V)
  BY DEF GraphInv, Validated
<1>2. \A t \in Tasks \ V : deps[t] \cap (Tasks \ V) # {}
  BY <1>1 DEF VisitedAre, Validated, GraphInv
<1>3. ASSUME visited # NumTasks PROVE Cyclic
  <2>1. Tasks \ V # {}
    BY <1>1, <1>3, TasksFinite DEF VisitedAre
  <2> QED BY <1>2, <2>1 DEF Cyclic
<1>4. ASSUME visited = NumTasks PROVE ~Cyclic
  <2>1. V = Tasks
    BY <1>1, <1>4, TasksFinite DEF VisitedAre
  <2> QED BY <1>1, <2>1 DEF Cyclic, VisitedAre
<1>5. UNCHANGED <<deps, memory, indegree, ready, visited, pending, available, running, done,
                  dispatched, work, channel, cancelled>>
  BY DEF Validated, graphVars, dagVars, loopVars
<1>6. Cyclic' = Cyclic
  BY <1>5 DEF Cyclic
<1>7. /\ phase' \in {"cycle_found", "cancelled", "over_budget", "dispatch"}
      /\ phase' = "cycle_found" <=> visited # NumTasks
      /\ phase' = "dispatch" => ~(\E t \in Tasks : memory[t] > Budget)
  BY DEF Validated, Goes
<1>8. GraphInv'
  <2>1. ValidateIsExact'
    BY <1>3, <1>4, <1>6, <1>7 DEF ValidateIsExact
  <2>2. phase' = "dispatch" => \A t \in Tasks : memory[t] <= Budget
    BY <1>7, MemoryNat, TaskSchedulerAssumption
  <2> QED BY <1>5, <1>7, <2>1, <2>2 DEF GraphInv, Returned
<1>9. PlacesInv' /\ AccountInv'
  <2>1. Completed' = Completed /\ InFlight' = InFlight
    BY <1>5 DEF InFlight, Completed
  <2>2. phase \notin Returned
    BY DEF Validated, Returned
  <2>3. PlacesInv'
    BY <1>5, <2>1, <2>2 DEF PlacesInv
  <2>4. AccountInv'
    BY <1>5, <1>7, <2>1, <2>2 DEF AccountInv
  <2> QED BY <2>3, <2>4
<1> QED BY <1>8, <1>9

-----------------------------------------------------------------------------
(* The loop.                                                               *)

\* The sum of the memory in flight, and what one task more or less makes of it.
LEMMA FlightSum ==
  ASSUME SchedInv
  PROVE  /\ InFlight \in SUBSET Tasks /\ IsFiniteSet(InFlight)
         /\ Cardinality(InFlight) \in Nat /\ SumOf(memory, InFlight) \in Nat
         /\ \A t \in InFlight :
               /\ SumOf(memory, InFlight) = memory[t] + SumOf(memory, InFlight \ {t})
               /\ SumOf(memory, InFlight \ {t}) \in Nat
               /\ Cardinality(InFlight \ {t}) = Cardinality(InFlight) - 1
         /\ \A t \in Tasks \ InFlight :
               /\ SumOf(memory, InFlight \cup {t}) = memory[t] + SumOf(memory, InFlight)
               /\ Cardinality(InFlight \cup {t}) = Cardinality(InFlight) + 1
<1>1. InFlight \in SUBSET Tasks
  BY DEF InFlight
<1>2. memory \in [Tasks -> Nat]
  BY MemoryNat DEF SchedInv
<1> HIDE DEF InFlight
<1>3. IsFiniteSet(InFlight) /\ Cardinality(InFlight) \in Nat
  BY <1>1, TasksFinite
<1>4. SumOf(memory, InFlight) \in Nat
  BY <1>1, <1>2, <1>3, SumType
<1>5. ASSUME NEW t \in InFlight
      PROVE  /\ SumOf(memory, InFlight) = memory[t] + SumOf(memory, InFlight \ {t})
             /\ SumOf(memory, InFlight \ {t}) \in Nat
             /\ Cardinality(InFlight \ {t}) = Cardinality(InFlight) - 1
  <2>1. InFlight \ {t} \in SUBSET Tasks /\ IsFiniteSet(InFlight \ {t})
    BY <1>1, TasksFinite
  <2>2. SumOf(memory, InFlight \ {t}) \in Nat
    BY <1>2, <2>1, SumType
  <2>3. SumOf(memory, InFlight) = memory[t] + SumOf(memory, InFlight \ {t})
    BY <1>1, <1>2, <1>3, SumRemove
  <2> QED BY <1>3, <2>2, <2>3, FS_RemoveElement
<1>6. ASSUME NEW t \in Tasks \ InFlight
      PROVE  /\ SumOf(memory, InFlight \cup {t}) = memory[t] + SumOf(memory, InFlight)
             /\ Cardinality(InFlight \cup {t}) = Cardinality(InFlight) + 1
  <2> DEFINE T == InFlight \cup {t}
  <2>1. T \in SUBSET Tasks /\ IsFiniteSet(T) /\ t \in T /\ T \ {t} = InFlight
    BY <1>1, TasksFinite
  <2>2. SumOf(memory, T) = memory[t] + SumOf(memory, T \ {t})
    <3> HIDE DEF T
    <3> QED BY <1>2, <2>1, SumRemove
  <2> QED BY <1>3, <2>1, <2>2, FS_AddElement
<1> QED BY <1>1, <1>3, <1>4, <1>5, <1>6

LEMMA DispatchStep == ASSUME SchedInv, Dispatch PROVE SchedInv'
<1> USE DEF SchedInv
<1> DEFINE t == Min(ReadyTasks)
<1>1. t \in ReadyTasks
  <2>1. ReadyTasks \in SUBSET Tasks /\ ReadyTasks # {}
    BY DEF Dispatch, ReadyTasks, PlacesInv
  <2> HIDE DEF ReadyTasks
  <2> QED BY <2>1, MinInSet
<1>2. /\ pending' = pending \ {t}
      /\ available' = available - memory[t]
      /\ work' = [work EXCEPT ![t] = "spawned"]
      /\ running' = running + 1 /\ running < Workers /\ phase = "dispatch"
      /\ dispatched' \in BOOLEAN
      /\ UNCHANGED <<deps, memory, phase, indegree, ready, visited, done, channel, cancelled>>
  BY DEF Dispatch, graphVars, dagVars
<1> HIDE DEF t
<1>3. t \in Tasks /\ work[t] = "none" /\ t \in pending /\ memory[t] <= available
  BY <1>1 DEF ReadyTasks, Fits, PlacesInv
<1>4. Completed' = Completed /\ t \notin Completed
  BY <1>2, <1>3 DEF Completed, PlacesInv
<1>5. t \notin InFlight /\ InFlight' = InFlight \cup {t}
  BY <1>2, <1>3, <1>4 DEF InFlight, PlacesInv
<1>6. GraphInv'
  BY <1>2 DEF GraphInv, ValidateIsExact, Cyclic
<1>7. PlacesInv'
  <2>1. work' \in [Tasks -> {"none", "spawned", "busy", "sent"}]
    BY <1>2, <1>3 DEF PlacesInv
  <2>2. pending' = {u \in Tasks : work'[u] = "none"}
    BY <1>2, <1>3 DEF PlacesInv
  <2>3. \A u \in Tasks : work[u] = "sent" => work'[u] = "sent"
    BY <1>2, <1>3 DEF PlacesInv
  <2>4. \A u \in Completed' : work'[u] = "sent"
    BY <1>4, <2>3, CompletedType DEF PlacesInv
  <2>5. phase \notin Returned
    BY <1>2 DEF Returned
  <2>6. \A i \in 1 .. Len(channel) : channel[i].task \in Tasks
    BY ChannelType
  <2> QED BY <1>2, <1>4, <2>1, <2>2, <2>3, <2>4, <2>5, <2>6 DEF PlacesInv
<1>8. AccountInv'
  <2>1. phase \notin Returned /\ memory[t] \in Nat /\ Budget \in Nat /\ Workers \in Nat
    BY <1>2, <1>3, MemoryNat, TaskSchedulerAssumption DEF Returned
  <2>2. available' \in 0 .. Budget /\ running' \in 0 .. Workers
    BY <1>2, <1>3, <2>1 DEF AccountInv
  <2>3. /\ SumOf(memory, InFlight \cup {t}) = memory[t] + SumOf(memory, InFlight)
        /\ SumOf(memory, InFlight) \in Nat /\ Cardinality(InFlight) \in Nat
        /\ Cardinality(InFlight \cup {t}) = Cardinality(InFlight) + 1
    BY <1>3, <1>5, FlightSum
  <2>4. /\ running' = Cardinality(InFlight')
        /\ available' + SumOf(memory', InFlight') = Budget
    BY <1>2, <1>5, <2>1, <2>3 DEF AccountInv
  <2> QED BY <1>2, <1>4, <2>1, <2>2, <2>4 DEF AccountInv
<1> QED BY <1>6, <1>7, <1>8

\* When nothing runs and the token is not set, something fits: a pending task that
\* depends on no pending task, which exists in a graph without a cycle.
LEMMA SomethingFits ==
  ASSUME SchedInv, phase = "dispatch", running = 0
  PROVE  ReadyTasks # {}
<1> USE DEF SchedInv
<1>1. phase \notin Returned
  BY DEF Returned
<1>2. InFlight = {}
  <2>1. Cardinality(InFlight) = 0 /\ InFlight \in SUBSET Tasks
    BY <1>1 DEF AccountInv, InFlight
  <2> QED BY <2>1, TasksFinite
<1>3. available = Budget
  <2>1. SumOf(memory, InFlight) = 0
    BY <1>2, SumEmpty
  <2> QED BY <1>1, <2>1, TaskSchedulerAssumption DEF AccountInv
<1>4. \A t \in Tasks : t \in pending \/ t \in Completed
  BY <1>2 DEF PlacesInv, InFlight
<1>5. pending # {}
  <2> SUFFICES ASSUME pending = {} PROVE FALSE
    OBVIOUS
  <2>1. Completed = Tasks
    BY <1>4, CompletedType
  <2> QED BY <1>1, <2>1, TasksFinite, TaskSchedulerAssumption DEF AccountInv
<1>6. pending \in SUBSET Tasks
  BY DEF PlacesInv
<1>7. ~Cyclic
  BY DEF GraphInv, ValidateIsExact
<1>8. PICK t \in pending : deps[t] \cap pending = {}
  BY <1>5, <1>6, <1>7 DEF Cyclic
<1>9. deps[t] \subseteq Completed
  BY <1>4, <1>6, <1>8 DEF GraphInv
<1>10. memory[t] <= available
  BY <1>3, <1>6, <1>8 DEF GraphInv
<1> QED BY <1>8, <1>9, <1>10 DEF ReadyTasks, Fits

LEMMA LeaveDispatchStep == ASSUME SchedInv, LeaveDispatch PROVE SchedInv'
<1> USE DEF SchedInv
<1>1. /\ UNCHANGED <<deps, memory, indegree, ready, visited, pending, available, running, done,
                    work, channel, cancelled>>
      /\ phase = "dispatch" /\ dispatched' \in BOOLEAN
  BY DEF LeaveDispatch, graphVars, dagVars
<1>2. phase' \in {"cancelled", "receive", "dispatch"}
  <2>1. CASE running = 0 /\ ~cancelled
    <3>1. 0 < Workers
      BY TaskSchedulerAssumption
    <3>2. ~(running >= Workers)
      BY <2>1, <3>1, TaskSchedulerAssumption
    <3> QED BY <1>1, <2>1, <3>2, SomethingFits DEF LeaveDispatch
  <2>2. CASE ~(running = 0 /\ ~cancelled)
    BY <2>2 DEF LeaveDispatch, Goes
  <2> QED BY <2>1, <2>2
<1>3. Completed' = Completed /\ InFlight' = InFlight /\ Cyclic' = Cyclic
  BY <1>1 DEF Completed, InFlight, Cyclic
<1>4. GraphInv'
  BY <1>1, <1>2, <1>3 DEF GraphInv, ValidateIsExact, Returned
<1>5. phase \notin Returned
  BY <1>1 DEF Returned
<1>6. PlacesInv'
  BY <1>1, <1>3, <1>5 DEF PlacesInv
<1>7. AccountInv'
  BY <1>1, <1>2, <1>3, <1>5 DEF AccountInv
<1> QED BY <1>4, <1>6, <1>7

\* A result is received: its task leaves the flight and gives its memory back.
LEMMA ReceiveStep == ASSUME SchedInv, Receive PROVE SchedInv'
<1> USE DEF SchedInv
<1> DEFINE r == Head(channel)
           t == r.task
<1>1. /\ phase = "receive" /\ channel # <<>> /\ channel' = Tail(channel)
      /\ available' = available + memory[t] /\ running' = running - 1
      /\ UNCHANGED <<deps, memory, indegree, ready, visited, pending, dispatched, work>>
  BY DEF Receive, ReturnedMemory, graphVars, dagVars
<1>2. cancelled' = (cancelled \/ ~r.ok)
  BY Zenon DEF Receive, TokenAfter
<1>3. \/ /\ r.ok /\ done' = Append(done, t)
         /\ phase' = IF Len(done) + 1 = NumTasks THEN "ok" ELSE "dispatch"
      \/ ~r.ok /\ phase' = "failed" /\ done' = done
  BY DEF Receive, Goes
<1>4. phase \notin Returned
  BY <1>1 DEF Returned
<1>5. Len(channel) >= 1 /\ r = channel[1]
  BY <1>1 DEF PlacesInv
<1>6. t \in Tasks /\ r.ok \in BOOLEAN
  BY <1>5, ChannelType
<1>7. work[t] = "sent" /\ t \notin Completed
  BY <1>4, <1>5 DEF PlacesInv
<1>8. t \in InFlight
  BY <1>6, <1>7 DEF InFlight
<1> HIDE DEF r, t
<1>9. /\ done' \in Seq(Tasks) /\ Completed' \subseteq Completed \cup {t}
      /\ r.ok => Completed' = Completed \cup {t} /\ Len(done') = Len(done) + 1
  <2>1. CASE done' = done
    BY <1>3, <2>1 DEF PlacesInv, Completed
  <2>2. CASE done' = Append(done, t)
    <3>1. done \in Seq(Tasks)
      BY DEF PlacesInv
    <3>2. Len(done') = Len(done) + 1 /\ done' \in Seq(Tasks) /\ Len(done) \in Nat
      BY <1>6, <2>2, <3>1
    <3>3. \A i \in 1 .. Len(done) : done'[i] = done[i]
      BY <1>6, <2>2, <3>1
    <3>4. done'[Len(done) + 1] = t
      BY <1>6, <2>2, <3>1
    <3>5. Completed' = Completed \cup {t}
      BY <3>2, <3>3, <3>4 DEF Completed
    <3> QED BY <3>2, <3>5
  <2> QED BY <1>3, <2>1, <2>2
<1>10. GraphInv'
  <2>1. Cyclic' = Cyclic
    BY <1>1 DEF Cyclic
  <2> QED BY <1>1, <1>3, <2>1 DEF GraphInv, ValidateIsExact, Returned
<1>11. PlacesInv'
  <2>1. channel \in Seq([task : Tasks, ok : BOOLEAN])
    BY DEF PlacesInv
  <2>2. channel' \in Seq([task : Tasks, ok : BOOLEAN]) /\ Len(channel') = Len(channel) - 1
    BY <1>1, <2>1
  <2>3. \A i \in 1 .. Len(channel') : channel'[i] = channel[i + 1] /\ i + 1 \in 1 .. Len(channel)
    BY <1>1, <2>1
  <2>4. \A u \in Completed' : work'[u] = "sent"
    BY <1>1, <1>7, <1>9 DEF PlacesInv
  <2>5. \A i \in 1 .. Len(channel') :
           work'[channel'[i].task] = "sent" /\ channel'[i].task \notin Completed'
    <3> TAKE i \in 1 .. Len(channel')
    <3>1. i + 1 \in 1 .. Len(channel) /\ i + 1 # 1 /\ 1 \in 1 .. Len(channel)
      BY <1>5, <2>2, <2>3
    <3>2. channel[i + 1].task # channel[1].task
      BY <1>4, <3>1 DEF PlacesInv
    <3>3. channel[1].task = t
      BY <1>5 DEF t
    <3> QED BY <1>1, <1>4, <1>9, <2>3, <3>1, <3>2, <3>3 DEF PlacesInv
  <2>6. ASSUME NEW i \in 1 .. Len(channel'), NEW k \in 1 .. Len(channel'),
               channel'[i].task = channel'[k].task
        PROVE  i = k
    <3>1. i + 1 = k + 1
      BY <1>4, <2>3, <2>6 DEF PlacesInv
    <3> QED BY <3>1
  <2> QED BY <1>1, <1>9, <2>2, <2>4, <2>5, <2>6 DEF PlacesInv
<1>12. AccountInv'
  <2>1. /\ SumOf(memory, InFlight) = memory[t] + SumOf(memory, InFlight \ {t})
        /\ SumOf(memory, InFlight \ {t}) \in Nat /\ Cardinality(InFlight) \in Nat
        /\ Cardinality(InFlight \ {t}) = Cardinality(InFlight) - 1
    BY <1>8, FlightSum
  <2>2. memory[t] \in Nat /\ Budget \in Nat /\ Workers \in Nat /\ NumTasks \in Nat
    BY <1>6, MemoryNat, TaskSchedulerAssumption
  <2>3. /\ available' + SumOf(memory, InFlight \ {t}) = Budget
        /\ running' = Cardinality(InFlight \ {t})
    BY <1>1, <1>4, <2>1, <2>2 DEF AccountInv
  <2>4. Cardinality(InFlight \ {t}) \in Nat
    <3>1. InFlight \ {t} \in SUBSET Tasks
      BY DEF InFlight
    <3> QED BY <3>1, TasksFinite
  <2>5. available' \in 0 .. Budget
    BY <1>1, <2>1, <2>2, <2>3 DEF AccountInv
  <2>6. running' \in 0 .. Workers
    BY <1>1, <2>2, <2>3, <2>4 DEF AccountInv
  <2>7. dispatched' \in BOOLEAN /\ cancelled' \in BOOLEAN
    BY <1>1, <1>2, <1>6 DEF AccountInv
  <2>8. CASE r.ok
    <3>1. InFlight' = InFlight \ {t}
      BY <1>1, <1>9, <2>8 DEF InFlight
    <3>2. Cardinality(Completed') = Cardinality(Completed) + 1
      <4>1. IsFiniteSet(Completed)
        BY CompletedType, TasksFinite
      <4> QED BY <1>7, <1>9, <2>8, <4>1, FS_AddElement
    <3>3. Len(done') = Cardinality(Completed')
      BY <1>4, <1>9, <2>8, <3>2 DEF AccountInv
    <3>4. phase' # "ok" => Len(done') < NumTasks
      <4>1. Len(done) \in Nat
        BY DEF PlacesInv
      <4> QED BY <1>3, <1>4, <1>9, <2>2, <2>8, <4>1 DEF AccountInv
    <3>5. phase' \in {"ok", "dispatch"}
      BY <1>3, <2>8
    <3>6. phase' \notin Returned => phase' # "ok"
      BY DEF Returned
    <3> QED BY <1>1, <2>3, <2>5, <2>6, <2>7, <3>1, <3>3, <3>4, <3>5, <3>6 DEF AccountInv
  <2>9. CASE ~r.ok
    <3>1. phase' = "failed" /\ cancelled' /\ phase' \in Returned
      BY <1>2, <1>3, <2>9 DEF Returned
    <3> QED BY <2>5, <2>6, <2>7, <3>1 DEF AccountInv
  <2> QED BY <2>8, <2>9
<1> QED BY <1>10, <1>11, <1>12

-----------------------------------------------------------------------------
(* The workers and the token.                                              *)

\* A worker's step leaves the tasks in flight as they are.
LEMMA WorkStep ==
  ASSUME SchedInv, NEW t \in Tasks, NEW s \in {"busy", "sent"}, work[t] # "none",
         work' = [work EXCEPT ![t] = s], t \notin Completed,
         UNCHANGED <<deps, memory, phase, indegree, ready, visited, pending, available, running,
                     done, dispatched, cancelled>>
  PROVE  /\ GraphInv' /\ AccountInv' /\ Completed' = Completed
         /\ work' \in [Tasks -> {"none", "spawned", "busy", "sent"}]
         /\ pending' = {u \in Tasks : work'[u] = "none"}
         /\ \A u \in Tasks \ {t} : work'[u] = work[u]
         /\ work'[t] = s
<1> USE DEF SchedInv
<1>1. Completed' = Completed
  BY DEF Completed
<1>2. /\ work' \in [Tasks -> {"none", "spawned", "busy", "sent"}]
      /\ \A u \in Tasks \ {t} : work'[u] = work[u]
      /\ work'[t] = s
  BY DEF PlacesInv
<1>3. \A u \in Tasks : work'[u] = "none" <=> work[u] = "none"
  BY <1>2
<1>4. InFlight' = InFlight
  BY <1>1, <1>3 DEF InFlight
<1>5. GraphInv'
  <2>1. Cyclic' = Cyclic
    BY DEF Cyclic
  <2>2. \A V : VisitedAre(V) => VisitedAre(V)'
    BY DEF VisitedAre
  <2> QED BY <2>1, <2>2 DEF GraphInv, ValidateIsExact
<1>6. AccountInv'
  BY <1>1, <1>4 DEF AccountInv
<1> QED BY <1>1, <1>2, <1>3, <1>5, <1>6 DEF PlacesInv

LEMMA WorkerStartsStep == ASSUME SchedInv, NEW t \in Tasks, WorkerStarts(t) PROVE SchedInv'
<1> USE DEF SchedInv
<1>1. /\ work[t] = "spawned" /\ work' = [work EXCEPT ![t] = "busy"]
      /\ UNCHANGED <<deps, memory, phase, indegree, ready, visited, pending, available, running,
                     done, dispatched, cancelled, channel>>
  BY DEF WorkerStarts, graphVars, dagVars, loopVars
<1>2. t \notin Completed
  BY <1>1 DEF PlacesInv
<1>3. /\ GraphInv' /\ AccountInv' /\ Completed' = Completed
      /\ work' \in [Tasks -> {"none", "spawned", "busy", "sent"}]
      /\ pending' = {u \in Tasks : work'[u] = "none"}
      /\ \A u \in Tasks \ {t} : work'[u] = work[u]
  BY <1>1, <1>2, WorkStep
<1>4. \A u \in Tasks : work[u] = "sent" => work'[u] = "sent"
  BY <1>1, <1>3
<1>5. PlacesInv'
  BY <1>1, <1>3, <1>4, CompletedType, ChannelType DEF PlacesInv
<1> QED BY <1>3, <1>5

LEMMA SendStep ==
  ASSUME SchedInv, NEW t \in Tasks, NEW ok \in BOOLEAN, work[t] \in {"spawned", "busy"}, Send(t, ok),
         UNCHANGED <<graphVars, phase, dagVars, loopVars, cancelled>>
  PROVE  SchedInv'
<1> USE DEF SchedInv
<1>1. /\ work' = [work EXCEPT ![t] = "sent"]
      /\ UNCHANGED <<deps, memory, phase, indegree, ready, visited, pending, available, running,
                     done, dispatched, cancelled>>
  BY DEF Send, graphVars, dagVars, loopVars
<1>2. t \notin Completed
  BY DEF PlacesInv
<1>3. /\ GraphInv' /\ AccountInv' /\ Completed' = Completed
      /\ work' \in [Tasks -> {"none", "spawned", "busy", "sent"}]
      /\ pending' = {u \in Tasks : work'[u] = "none"}
      /\ \A u \in Tasks \ {t} : work'[u] = work[u]
      /\ work'[t] = "sent"
  BY <1>1, <1>2, WorkStep
<1>4. \A u \in Tasks : work[u] = "sent" => work'[u] = "sent"
  BY <1>3
<1>5. channel \in Seq([task : Tasks, ok : BOOLEAN])
  BY DEF PlacesInv
<1>6. CASE phase \in Returned
  <2>1. channel' = channel
    BY <1>6 DEF Send
  <2>2. PlacesInv'
    BY <1>1, <1>3, <1>4, <1>5, <1>6, <2>1, CompletedType DEF PlacesInv
  <2> QED BY <1>3, <2>2
<1>7. CASE phase \notin Returned
  <2> DEFINE r == [task |-> t, ok |-> ok]
  <2>1. channel' = Append(channel, r) /\ r \in [task : Tasks, ok : BOOLEAN] /\ r.task = t
    BY <1>7 DEF Send
  <2> HIDE DEF r
  <2>2. channel' \in Seq([task : Tasks, ok : BOOLEAN]) /\ Len(channel') = Len(channel) + 1
    BY <1>5, <2>1
  <2>3. \A i \in 1 .. Len(channel) : channel'[i] = channel[i]
    BY <1>5, <2>1
  <2>4. channel'[Len(channel) + 1] = r
    BY <1>5, <2>1
  <2>5. \A i \in 1 .. Len(channel) :
           /\ channel[i].task \in Tasks \ Completed /\ channel[i].task # t
           /\ work[channel[i].task] = "sent"
    BY <1>7, ChannelType DEF PlacesInv
  <2>6. \A i \in 1 .. Len(channel') :
           work'[channel'[i].task] = "sent" /\ channel'[i].task \notin Completed'
    <3> TAKE i \in 1 .. Len(channel')
    <3>1. CASE i \in 1 .. Len(channel)
      BY <1>3, <1>4, <2>3, <2>5, <3>1
    <3>2. CASE i = Len(channel) + 1
      BY <1>2, <1>3, <2>1, <2>4, <3>2
    <3>3. Len(channel) \in Nat
      BY <1>5
    <3> QED BY <2>2, <3>1, <3>2, <3>3
  <2>7. ASSUME NEW i \in 1 .. Len(channel'), NEW k \in 1 .. Len(channel'),
               channel'[i].task = channel'[k].task
        PROVE  i = k
    <3>1. Len(channel) \in Nat
      BY <1>5
    <3>2. CASE i \in 1 .. Len(channel) /\ k \in 1 .. Len(channel)
      BY <1>7, <2>3, <2>7, <3>2 DEF PlacesInv
    <3>3. CASE i \in 1 .. Len(channel) /\ k = Len(channel) + 1
      BY <2>1, <2>3, <2>4, <2>5, <2>7, <3>3
    <3>4. CASE k \in 1 .. Len(channel) /\ i = Len(channel) + 1
      BY <2>1, <2>3, <2>4, <2>5, <2>7, <3>4
    <3> QED BY <2>2, <3>1, <3>2, <3>3, <3>4
  <2>8. PlacesInv'
    BY <1>1, <1>3, <1>4, <2>2, <2>6, <2>7, CompletedType DEF PlacesInv
  <2> QED BY <1>3, <2>8
<1> QED BY <1>6, <1>7

LEMMA CancelStep == ASSUME SchedInv, Cancel PROVE SchedInv'
<1> USE DEF SchedInv
<1>1. /\ UNCHANGED <<deps, memory, phase, indegree, ready, visited, pending, available, running,
                     done, dispatched, work, channel>>
      /\ cancelled' = TRUE
  BY DEF Cancel, graphVars, dagVars, loopVars
<1>2. Completed' = Completed /\ InFlight' = InFlight /\ Cyclic' = Cyclic
  BY <1>1 DEF Completed, InFlight, Cyclic
<1>3. \A V : VisitedAre(V) => VisitedAre(V)'
  BY <1>1 DEF VisitedAre
<1>4. GraphInv'
  BY <1>1, <1>2, <1>3 DEF GraphInv, ValidateIsExact
<1>5. PlacesInv'
  BY <1>1, <1>2 DEF PlacesInv
<1>6. AccountInv'
  BY <1>1, <1>2 DEF AccountInv
<1> QED BY <1>4, <1>5, <1>6

LEMMA StutterStep == ASSUME SchedInv, UNCHANGED vars PROVE SchedInv'
<1> USE DEF SchedInv
<1>1. UNCHANGED <<deps, memory, phase, indegree, ready, visited, pending, available, running,
                  done, dispatched, work, channel, cancelled>>
  BY DEF vars, graphVars, dagVars, loopVars
<1>2. Completed' = Completed /\ InFlight' = InFlight /\ Cyclic' = Cyclic
  BY <1>1 DEF Completed, InFlight, Cyclic
<1>3. \A V : VisitedAre(V) => VisitedAre(V)'
  BY <1>1 DEF VisitedAre
<1>4. GraphInv'
  BY <1>1, <1>2, <1>3 DEF GraphInv, ValidateIsExact
<1>5. PlacesInv'
  BY <1>1, <1>2 DEF PlacesInv
<1>6. AccountInv'
  BY <1>1, <1>2 DEF AccountInv
<1> QED BY <1>4, <1>5, <1>6

LEMMA NextKeeps == ASSUME SchedInv, [Next]_vars PROVE SchedInv'
<1>1. ASSUME NEW t \in Tasks, NEW ok \in BOOLEAN, WorkerEnds(t, ok) PROVE SchedInv'
  BY <1>1, SendStep DEF WorkerEnds
<1>2. ASSUME NEW t \in Tasks, WorkerStartsCancelled(t) PROVE SchedInv'
  BY <1>2, SendStep DEF WorkerStartsCancelled
<1> QED BY <1>1, <1>2, VisitStep, WorkerStartsStep, ValidatedStep, DispatchStep,
           LeaveDispatchStep, ReceiveStep, CancelStep, StutterStep DEF Next

LEMMA SchedInvariant == Spec => []SchedInv
  BY InitInv, NextKeeps, PTL DEF Spec

-----------------------------------------------------------------------------
(* The theorems.                                                           *)

\* Every variable has its type in every state of execute_scheduled: in particular
\* available_memory never wraps below zero, and running never exceeds the workers.
THEOREM TypeCorrect == Spec => []TypeOK
<1>1. SchedInv => TypeOK
  BY DEF SchedInv, GraphInv, PlacesInv, AccountInv, TypeOK
<1> QED BY <1>1, SchedInvariant, PTL

\* For every graph of every size, in whatever order the queue yields tasks,
\* validate_dag rejects exactly those with a cycle.
THEOREM ValidateExact == Spec => []ValidateIsExact
<1>1. SchedInv => ValidateIsExact
  BY DEF SchedInv, GraphInv
<1> QED BY <1>1, SchedInvariant, PTL

\* For every budget and every number of workers, what the tasks in flight were given
\* and available_memory add up to the budget in each round of the loop.
THEOREM MemoryIsAccounted == Spec => []MemoryAccounted
<1>1. SchedInv => MemoryAccounted
  <2> SUFFICES ASSUME SchedInv, phase \in {"dispatch", "receive"}
               PROVE  available >= 0 /\ available + MemoryOf(InFlight) = Budget
    BY DEF MemoryAccounted
  <2>1. phase \notin Returned
    BY DEF Returned
  <2>2. MemoryOf(InFlight) = SumOf(memory, InFlight)
    BY MemoryIsSum
  <2> QED BY <2>1, <2>2, TaskSchedulerAssumption DEF SchedInv, AccountInv
<1> QED BY <1>1, SchedInvariant, PTL

\* Once execute_scheduled has returned an error its token is set, so a pool thread
\* that takes up a task still waiting never runs its action.
THEOREM FailureStopsWork == Spec => NoWorkAfterFailure
<1>1. ASSUME SchedInv, [Next]_vars, phase = "failed", NEW t \in Tasks, work[t] = "spawned"
      PROVE  work'[t] # "busy"
  <2>1. cancelled /\ work \in [Tasks -> {"none", "spawned", "busy", "sent"}]
    BY <1>1 DEF SchedInv, AccountInv, PlacesInv
  <2>2. CASE work' = work
    BY <1>1, <2>2
  <2>3. CASE \E u \in Tasks : work' = [work EXCEPT ![u] = "sent"]
    BY <1>1, <2>1, <2>3
  <2>4. work' = work \/ \E u \in Tasks : work' = [work EXCEPT ![u] = "sent"]
    BY <1>1, <2>1 DEF Next, vars, Visit, WorkerStarts, WorkerStartsCancelled, WorkerEnds, Send,
                      Validated, Dispatch, LeaveDispatch, Receive, Cancel
  <2> QED BY <2>2, <2>3, <2>4
<1>2. SchedInv /\ [Next]_vars =>
         [phase = "failed" => \A t \in Tasks : work[t] = "spawned" => work'[t] # "busy"]_vars
  BY <1>1
<1> QED BY <1>2, SchedInvariant, PTL DEF Spec, NoWorkAfterFailure

\* The loop never reports the DependencyCycle it keeps for the case that nothing
\* runs and nothing fits: a validated graph whose tasks each fit the budget always
\* leaves a task to dispatch.
THEOREM NeverStuck == Spec => [](phase # "stuck")
<1>1. SchedInv => phase # "stuck"
  BY DEF SchedInv, AccountInv
<1> QED BY <1>1, SchedInvariant, PTL

=============================================================================
