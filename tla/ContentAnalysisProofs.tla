------------------------ MODULE ContentAnalysisProofs ------------------------
(***************************************************************************)
(* Chunking over a reader answers what chunking in memory answers, and the *)
(* chunks of every call are exact and their ids canonical: for any data,   *)
(* ends, origin, limits, reads and order of delivery.                      *)
(*                                                                         *)
(* The in-memory calls are folds and a recursive function.  Their values   *)
(* are unrolled once, into traces: what was pushed after each chunk, what  *)
(* was collected after each region.  The invariant says that a call over a *)
(* reader is at a place of that trace.  The same traces show that the      *)
(* chunks follow each other and end where they are due.  Ids come from the *)
(* sort: a pass over runs leaves runs twice as long.  Induction is over    *)
(* sets of numbers (UpTo).                                                 *)
(***************************************************************************)
EXTENDS ContentAnalysis, WellFoundedInduction, FiniteSetTheorems, TLAPS

-----------------------------------------------------------------------------
(* Sets of numbers, folds and checks.                                      *)

\* A nonempty set of natural numbers has a least one.
LEMMA LeastNatural ==
    ASSUME NEW T, T \subseteq Nat, T # {}
    PROVE  \E x \in T : \A y \in T : x <= y
<1>1. IsWellFoundedOn(OpToRel(<, Nat), Nat)
  BY NatLessThanWellFounded
<1>2. \A S \in SUBSET Nat : S # {} => \E x \in S : \A y \in S : ~(<<y, x>> \in OpToRel(<, Nat))
  BY <1>1, WFMin, Zenon
<1>3. PICK x \in T : \A y \in T : ~(<<y, x>> \in OpToRel(<, Nat))
  BY <1>2
<1>4. \A y \in T : ~(y < x)
  BY <1>3 DEF OpToRel
<1>. QED BY <1>4

\* Induction up to n, on a set: what holds at 0 and at the successor of each of its
\* numbers holds everywhere.
LEMMA UpTo ==
    ASSUME NEW n \in Nat, NEW S, 0 \in S, \A i \in 1 .. n : i - 1 \in S => i \in S
    PROVE  0 .. n \subseteq S
<1>. DEFINE Bad == {i \in 0 .. n : i \notin S}
<1>. SUFFICES ASSUME Bad # {} PROVE FALSE
  OBVIOUS
<1>1. Bad \subseteq Nat
  OBVIOUS
<1>2. PICK i \in Bad : \A j \in Bad : i <= j
  <2>. HIDE DEF Bad
  <2>. QED BY <1>1, LeastNatural
<1>3. i # 0 /\ i \in 1 .. n /\ i - 1 \in 0 .. n /\ i - 1 < i
  BY <1>2
<1>. QED BY <1>2, <1>3

\* The greatest member of a set of positions.
LEMMA MaxIsLast ==
    ASSUME NEW n \in Nat, NEW t \in SUBSET (1 .. n), n \in t
    PROVE  Max(t) = n
<1>1. \A y \in t : n >= y
  OBVIOUS
<1>2. /\ Max(t) \in t
      /\ \A y \in t : Max(t) >= y
  BY <1>1 DEF Max
<1>3. Max(t) \in 1 .. n /\ Max(t) >= n
  BY <1>2
<1>. QED BY <1>3

\* Max chooses a member.
LEMMA MaxMember ==
    ASSUME NEW n \in Nat, NEW t \in SUBSET (1 .. n), t # {}
    PROVE  Max(t) \in t
<1>. DEFINE S == {m \in 0 .. n : \A u \in SUBSET (1 .. m) : u # {} => Max(u) \in u}
<1>1. 0 \in S
  <2>1. \A u \in SUBSET (1 .. 0) : u = {}
    OBVIOUS
  <2>2. 0 \in 0 .. n
    OBVIOUS
  <2>. QED BY <2>1, <2>2, Zenon
<1>2. ASSUME NEW m \in 1 .. n, m - 1 \in S PROVE m \in S
  <2>1. ASSUME NEW u \in SUBSET (1 .. m), u # {} PROVE Max(u) \in u
    <3>1. CASE m \in u
      BY <3>1, MaxIsLast
    <3>2. CASE m \notin u
      <4>1. u \in SUBSET (1 .. (m - 1))
        BY <3>2
      <4>. QED BY <1>2, <2>1, <4>1
    <3>. QED BY <3>1, <3>2
  <2>. QED BY <2>1
<1>3. 0 .. n \subseteq S
  <2>. HIDE DEF S
  <2>. QED BY <1>1, <1>2, UpTo
<1>. QED BY <1>3

\* The equation a fold over the positions 1 .. n is defined by.
FoldEq(n, base, step, h) ==
    h = [t \in SUBSET (1 .. n) |->
            IF t = {} THEN base ELSE step[<<h[t \ {Max(t)}], Max(t)>>]]

\* The equation of a fold has a solution.
LEMMA FoldExists ==
    ASSUME NEW n \in Nat, NEW A, NEW base \in A, NEW step \in [A \X (1 .. n) -> A]
    PROVE  \E h \in [SUBSET (1 .. n) -> A] : FoldEq(n, base, step, h)
<1>. DEFINE Good == {m \in 0 .. n : \E h \in [SUBSET (1 .. m) -> A] : FoldEq(m, base, step, h)}
<1>1. 0 \in Good
  <2>. DEFINE h == [t \in SUBSET (1 .. 0) |-> base]
  <2>1. \A t \in SUBSET (1 .. 0) : t = {}
    OBVIOUS
  <2>2. h \in [SUBSET (1 .. 0) -> A]
    OBVIOUS
  <2>3. FoldEq(0, base, step, h)
    BY <2>1 DEF FoldEq
  <2>. QED BY <2>2, <2>3
<1>2. ASSUME NEW m \in 1 .. n, m - 1 \in Good PROVE m \in Good
  <2>1. PICK g \in [SUBSET (1 .. (m - 1)) -> A] : FoldEq(m - 1, base, step, g)
    BY <1>2
  <2>. DEFINE h == [t \in SUBSET (1 .. m) |->
                      IF m \in t THEN step[<<g[t \ {m}], m>>] ELSE g[t]]
              body(t) == IF t = {} THEN base ELSE step[<<h[t \ {Max(t)}], Max(t)>>]
  <2>2. ASSUME NEW t \in SUBSET (1 .. m)
        PROVE  /\ m \notin t => t \in SUBSET (1 .. (m - 1))
               /\ t \ {m} \in SUBSET (1 .. (m - 1)) /\ t \ {m} \in SUBSET (1 .. m)
    OBVIOUS
  <2>3. h \in [SUBSET (1 .. m) -> A]
    BY <2>2
  <2>4. ASSUME NEW t \in SUBSET (1 .. m) PROVE h[t] = body(t)
    <3>1. CASE m \in t
      <4>1. Max(t) = m
        BY <3>1, MaxIsLast
      <4>2. h[t \ {m}] = g[t \ {m}]
        BY <2>2
      <4>3. h[t] = step[<<g[t \ {m}], m>>] /\ t # {}
        BY <3>1
      <4>. QED BY <4>1, <4>2, <4>3
    <3>2. CASE m \notin t /\ t # {}
      <4>1. t \in SUBSET (1 .. (m - 1))
        BY <2>2, <3>2
      <4>2. h[t] = g[t] /\ g[t] = step[<<g[t \ {Max(t)}], Max(t)>>]
        BY <2>1, <3>2, <4>1 DEF FoldEq
      <4>3. h[t \ {Max(t)}] = g[t \ {Max(t)}]
        BY <3>2, <4>1
      <4>. QED BY <3>2, <4>2, <4>3
    <3>3. CASE t = {}
      <4>1. {} \in SUBSET (1 .. (m - 1))
        OBVIOUS
      <4>2. g[{}] = base
        BY <2>1, <4>1 DEF FoldEq
      <4>. QED BY <3>3, <4>2
    <3>. QED BY <3>1, <3>2, <3>3
  <2>5. h = [t \in SUBSET (1 .. m) |-> body(t)]
    <3>. HIDE DEF body
    <3>. QED BY <2>4
  <2>6. FoldEq(m, base, step, h)
    BY <2>5, Zenon DEF FoldEq
  <2>. HIDE DEF h
  <2>. QED BY <2>3, <2>6
<1>3. 0 .. n \subseteq Good
  <2>. HIDE DEF Good
  <2>. QED BY <1>1, <1>2, UpTo
<1>4. n \in Good
  <2>. HIDE DEF Good
  <2>. QED BY <1>3
<1>. QED BY <1>4, Zenon

\* Min is the least member.
LEMMA LeastMember ==
    ASSUME NEW T, T \subseteq Nat, T # {}
    PROVE  Min(T) \in T /\ \A y \in T : Min(T) <= y
<1>1. \E x \in T : \A y \in T : x <= y
  BY LeastNatural
<1>. QED BY <1>1 DEF Min

\* A list of checks: all hold, or the answer is one of their errors.
LEMMA CheckedIs ==
    ASSUME NEW m \in Nat, NEW checks, DOMAIN checks = 1 .. m, NEW v, NEW E,
           \A i \in 1 .. m : checks[i][2] \in E
    PROVE  /\ (\A i \in 1 .. m : checks[i][1]) => Checked(checks, v) = Ok(v)
           /\ (\E i \in 1 .. m : ~checks[i][1]) => \E e \in E : Checked(checks, v) = Err(e)
<1>. DEFINE failed == {i \in DOMAIN checks : ~checks[i][1]}
<1>1. CASE failed = {}
  BY <1>1 DEF Checked
<1>2. CASE failed # {}
  <2>1. failed \subseteq Nat
    OBVIOUS
  <2>. DEFINE k == Min(failed)
  <2>2. k \in failed
    <3>. HIDE DEF failed
    <3>. QED BY <1>2, <2>1, LeastMember
  <2>3. Checked(checks, v) = Err(checks[k][2])
    BY <1>2 DEF Checked
  <2>. HIDE DEF k
  <2>. QED BY <2>2, <2>3
<1>. QED BY <1>1, <1>2

-----------------------------------------------------------------------------
(* Results.                                                                *)

Errors == {"config", "logical bytes", "overflow", "chunk count", "zero-length chunk",
           "chunk coverage", "structural boundaries"}
Results == {Ok(l) : l \in Seq(Drafts)} \cup {Err(e) : e \in Errors}
Origins == [entry : Nat, object : Nat, base : Nat]

\* A result is a list of drafts or an error.
LEMMA ResultCases ==
    ASSUME NEW r \in Results
    PROVE  \/ r.ok = TRUE /\ r.val \in Seq(Drafts) /\ r = Ok(r.val)
           \/ r.ok = FALSE /\ r.val \in Errors /\ r = Err(r.val)
BY DEF Results, Ok, Err

\* The outcome of a list of one, two or three checks.
LEMMA CheckedOne ==
    ASSUME NEW a \in BOOLEAN, NEW e \in Errors, NEW v
    PROVE  /\ a => Checked(<<<<a, e>>>>, v) = Ok(v)
           /\ ~a => \E x \in Errors : Checked(<<<<a, e>>>>, v) = Err(x)
<1>. DEFINE checks == <<<<a, e>>>>
<1>1. DOMAIN checks = 1 .. 1 /\ 1 \in Nat /\ \A i \in 1 .. 1 : checks[i][2] \in Errors
  OBVIOUS
<1>2. (\A i \in 1 .. 1 : checks[i][1]) <=> a
  OBVIOUS
<1>. HIDE DEF checks
<1>3. /\ (\A i \in 1 .. 1 : checks[i][1]) => Checked(checks, v) = Ok(v)
      /\ (\E i \in 1 .. 1 : ~checks[i][1]) => \E x \in Errors : Checked(checks, v) = Err(x)
  BY <1>1, CheckedIs
<1>. QED BY <1>2, <1>3 DEF checks

\* Two checks.
LEMMA CheckedTwo ==
    ASSUME NEW a \in BOOLEAN, NEW e \in Errors, NEW b \in BOOLEAN, NEW f \in Errors, NEW v
    PROVE  /\ (a /\ b) => Checked(<<<<a, e>>, <<b, f>>>>, v) = Ok(v)
           /\ ~(a /\ b) => \E x \in Errors : Checked(<<<<a, e>>, <<b, f>>>>, v) = Err(x)
<1>. DEFINE checks == <<<<a, e>>, <<b, f>>>>
<1>1. DOMAIN checks = 1 .. 2 /\ 2 \in Nat /\ \A i \in 1 .. 2 : checks[i][2] \in Errors
  OBVIOUS
<1>2. (\A i \in 1 .. 2 : checks[i][1]) <=> (a /\ b)
  OBVIOUS
<1>. HIDE DEF checks
<1>3. /\ (\A i \in 1 .. 2 : checks[i][1]) => Checked(checks, v) = Ok(v)
      /\ (\E i \in 1 .. 2 : ~checks[i][1]) => \E x \in Errors : Checked(checks, v) = Err(x)
  BY <1>1, CheckedIs
<1>. QED BY <1>2, <1>3 DEF checks

\* Three checks.
LEMMA CheckedThree ==
    ASSUME NEW a \in BOOLEAN, NEW e \in Errors, NEW b \in BOOLEAN, NEW f \in Errors,
           NEW c \in BOOLEAN, NEW g \in Errors, NEW v
    PROVE  /\ (a /\ b /\ c) => Checked(<<<<a, e>>, <<b, f>>, <<c, g>>>>, v) = Ok(v)
           /\ ~(a /\ b /\ c) =>
                \E x \in Errors : Checked(<<<<a, e>>, <<b, f>>, <<c, g>>>>, v) = Err(x)
<1>. DEFINE checks == <<<<a, e>>, <<b, f>>, <<c, g>>>>
<1>1. DOMAIN checks = 1 .. 3 /\ 3 \in Nat /\ \A i \in 1 .. 3 : checks[i][2] \in Errors
  OBVIOUS
<1>2. (\A i \in 1 .. 3 : checks[i][1]) <=> (a /\ b /\ c)
  OBVIOUS
<1>. HIDE DEF checks
<1>3. /\ (\A i \in 1 .. 3 : checks[i][1]) => Checked(checks, v) = Ok(v)
      /\ (\E i \in 1 .. 3 : ~checks[i][1]) => \E x \in Errors : Checked(checks, v) = Err(x)
  BY <1>1, CheckedIs
<1>. QED BY <1>2, <1>3 DEF checks

\* push_relative_chunk appends one draft or refuses.
LEMMA PushRelativeIs ==
    ASSUME NEW list \in Seq(Drafts), NEW origin \in Origins, NEW rel \in Nat, NEW len \in Nat,
           NEW method \in Methods, NEW limit
    PROVE  /\ PushRelativeChunk(list, origin, rel, len, method, limit) \in Results
           /\ (Len(list) + 1 <= limit /\ len # 0 /\ origin.base + rel + len <= OffsetMax) =>
                PushRelativeChunk(list, origin, rel, len, method, limit)
                    = Ok(Append(list, Draft(origin, rel, len, method)))
           /\ ~(Len(list) + 1 <= limit /\ len # 0 /\ origin.base + rel + len <= OffsetMax) =>
                PushRelativeChunk(list, origin, rel, len, method, limit).ok = FALSE
<1>. DEFINE p == PushRelativeChunk(list, origin, rel, len, method, limit)
            l == Append(list, Draft(origin, rel, len, method))
            fits == Len(list) + 1 <= limit /\ len # 0 /\ origin.base + rel + len <= OffsetMax
            checks == <<<<Len(list) + 1 <= limit, "chunk count">>,
                        <<len # 0, "zero-length chunk">>,
                        <<origin.base + rel + len <= OffsetMax, "overflow">>>>
<1>1. p = Checked(checks, l)
  BY DEF PushRelativeChunk, CountCheck, OffsetCheck
<1>2. Draft(origin, rel, len, method) \in Drafts
  BY DEF Draft, Drafts, Origins
<1>3. l \in Seq(Drafts)
  <2>. DEFINE d == Draft(origin, rel, len, method)
  <2>. HIDE DEF d
  <2>1. d \in Drafts
    BY <1>2 DEF d
  <2>2. Append(list, d) \in Seq(Drafts)
    <3>. HIDE DEF Drafts
    <3>. QED BY <2>1
  <2>. QED BY <2>2 DEF d
<1>. DEFINE w == origin.base + rel + len
<1>01. PICK e \in Errors, f \in Errors, h \in Errors :
            e = "chunk count" /\ f = "zero-length chunk" /\ h = "overflow"
  BY DEF Errors
<1>02. PICK a \in BOOLEAN : a = (Len(list) + 1 <= limit)
  <2>1. (Len(list) + 1 <= limit) \in BOOLEAN
    OBVIOUS
  <2>. QED BY <2>1, Zenon
<1>03. PICK b \in BOOLEAN : b = (len # 0)
  <2>1. (len # 0) \in BOOLEAN
    OBVIOUS
  <2>. QED BY <2>1, Zenon
<1>04. PICK c \in BOOLEAN : c = (w <= OffsetMax)
  <2>1. (w <= OffsetMax) \in BOOLEAN
    OBVIOUS
  <2>. QED BY <2>1, Zenon
<1>05. checks = <<<<a, e>>, <<b, f>>, <<c, h>>>>
  BY <1>01, <1>02, <1>03, <1>04, Zenon
<1>06. fits <=> (a /\ b /\ c)
  <2>. HIDE DEF w
  <2>1. fits <=> (Len(list) + 1 <= limit /\ len # 0 /\ w <= OffsetMax)
    BY DEF w
  <2>. HIDE DEF fits
  <2>. QED BY <1>02, <1>03, <1>04, <2>1
<1>. HIDE DEF checks, l
<1>4. /\ fits => p = Ok(l)
      /\ ~fits => \E x \in Errors : p = Err(x)
  <2>1. /\ (a /\ b /\ c) => Checked(<<<<a, e>>, <<b, f>>, <<c, h>>>>, l) = Ok(l)
        /\ ~(a /\ b /\ c) =>
              \E x \in Errors : Checked(<<<<a, e>>, <<b, f>>, <<c, h>>>>, l) = Err(x)
    BY CheckedThree
  <2>. HIDE DEF p, fits
  <2>. QED BY <1>1, <1>05, <1>06, <2>1, Zenon
<1>. HIDE DEF p
<1>5. p \in Results
  BY <1>3, <1>4 DEF Results
<1>6. ~fits => p.ok = FALSE
  BY <1>4 DEF Err
<1>. QED BY <1>4, <1>5, <1>6 DEF p, l

-----------------------------------------------------------------------------
(* push_relative_chunk in a loop.                                          *)

\* One chunk more: the position and what was pushed so far.
PushStates == [rel : Nat, out : Results]
PushStep(prior, len, origin, method, limit) ==
    [rel |-> prior.rel + len,
     out |-> AndThen(prior.out, LAMBDA list :
                PushRelativeChunk(list, origin, prior.rel, len, method, limit))]

\* The equation of the fold in PushAll.
PushEq(lengths, origin, method, limit, h) ==
    h = [t \in SUBSET DOMAIN lengths |->
            IF t = {} THEN [rel |-> 0, out |-> Ok(<<>>)]
            ELSE PushStep(h[t \ {Max(t)}], lengths[Max(t)], origin, method, limit)]

Pushed(p, prior, len, origin, method, limit) ==
    /\ p.rel = prior.rel + len
    /\ prior.out.ok = FALSE => p.out = prior.out
    /\ prior.out.ok = TRUE =>
            p.out = PushRelativeChunk(prior.out.val, origin, prior.rel, len, method, limit)

\* One chunk more keeps the types and does what Pushed says.
LEMMA PushStepType ==
    ASSUME NEW prior \in PushStates, NEW len \in Nat, NEW origin \in Origins,
           NEW method \in Methods, NEW limit
    PROVE  LET p == PushStep(prior, len, origin, method, limit)
           IN  p \in PushStates /\ Pushed(p, prior, len, origin, method, limit)
<1>. DEFINE p == PushStep(prior, len, origin, method, limit)
<1>1. prior.rel \in Nat /\ prior.out \in Results
  BY DEF PushStates
<1>2. p.rel = prior.rel + len /\ p = [rel |-> p.rel, out |-> p.out]
  BY DEF PushStep
<1>3. CASE prior.out.ok = FALSE
  <2>1. p.out = prior.out
    BY <1>3 DEF PushStep, AndThen
  <2>. HIDE DEF p
  <2>. QED BY <1>1, <1>2, <1>3, <2>1 DEF PushStates, Pushed, p
<1>4. CASE prior.out.ok = TRUE /\ prior.out.val \in Seq(Drafts)
  <2>1. p.out = PushRelativeChunk(prior.out.val, origin, prior.rel, len, method, limit)
    BY <1>4 DEF PushStep, AndThen
  <2>2. p.out \in Results
    <3>. DEFINE list == prior.out.val
                rel == prior.rel
    <3>1. list \in Seq(Drafts) /\ rel \in Nat
      BY <1>1, <1>4
    <3>. HIDE DEF list, rel
    <3>2. PushRelativeChunk(list, origin, rel, len, method, limit) \in Results
      BY <3>1, PushRelativeIs
    <3>. QED BY <2>1, <3>2 DEF list, rel
  <2>. HIDE DEF p
  <2>. QED BY <1>1, <1>2, <1>4, <2>1, <2>2 DEF PushStates, Pushed, p
<1>. QED BY <1>1, <1>3, <1>4, ResultCases

\* The loop, one chunk after the other.
PushChain(lengths, origin, method, limit, g) ==
    /\ g \in [0 .. Len(lengths) -> PushStates]
    /\ g[0] = [rel |-> 0, out |-> Ok(<<>>)]
    /\ g[Len(lengths)].out = PushAll(lengths, origin, method, limit)
    /\ \A i \in 1 .. Len(lengths) :
            g[i] = PushStep(g[i - 1], lengths[i], origin, method, limit)

\* PushAll is such a loop.
LEMMA PushSteps ==
    ASSUME NEW lengths \in Seq(Nat), NEW origin \in Origins, NEW method \in Methods, NEW limit
    PROVE  \E g : PushChain(lengths, origin, method, limit, g)
<1>. DEFINE n == Len(lengths)
            A == PushStates
            base == [rel |-> 0, out |-> Ok(<<>>)]
            Step(a, i) == PushStep(a, lengths[i], origin, method, limit)
            step == [p \in A \X (1 .. n) |-> Step(p[1], p[2])]
            F == CHOOSE h : PushEq(lengths, origin, method, limit, h)
            all == PushAll(lengths, origin, method, limit)
<1>1. DOMAIN lengths = 1 .. n /\ n \in Nat /\ lengths \in [1 .. n -> Nat]
  OBVIOUS
<1>2. all = F[1 .. n].out
  <2>1. all = F[DOMAIN lengths].out
    BY DEF PushAll, FoldLeft, MapThenFoldSet, PushEq, PushStep, AndThen
  <2>. QED BY <1>1, <2>1
<1>3. \A a \in A, i \in 1 .. n : Step(a, i) \in A
  <2>. TAKE a \in A, i \in 1 .. n
  <2>1. lengths[i] \in Nat
    BY <1>1
  <2>. QED BY <2>1, PushStepType
<1>4. base \in A
  <2>1. <<>> \in Seq(Drafts)
    OBVIOUS
  <2>. QED BY <2>1 DEF PushStates, Results
<1>. HIDE DEF n, all, A, base
<1>5. step \in [A \X (1 .. n) -> A]
  <2>. HIDE DEF Step
  <2>. QED BY <1>3
<1>6. PICK h \in [SUBSET (1 .. n) -> A] : FoldEq(n, base, step, h)
  <2>. HIDE DEF step
  <2>. QED BY <1>1, <1>4, <1>5, FoldExists
<1>. DEFINE body(f, t) == IF t = {} THEN base ELSE Step(f[t \ {Max(t)}], Max(t))
<1>7. ASSUME NEW t \in SUBSET (1 .. n) PROVE h[t] = body(h, t)
  <2>1. CASE t = {}
    BY <1>6, <2>1 DEF FoldEq
  <2>2. CASE t # {}
    <3>1. Max(t) \in 1 .. n /\ t \ {Max(t)} \in SUBSET (1 .. n)
      BY <1>1, <2>2, MaxMember
    <3>2. h[t] = step[<<h[t \ {Max(t)}], Max(t)>>]
      <4>. HIDE DEF step
      <4>. QED BY <1>6, <2>2 DEF FoldEq
    <3>3. <<h[t \ {Max(t)}], Max(t)>> \in A \X (1 .. n)
      BY <3>1
    <3>. HIDE DEF Step
    <3>. QED BY <2>2, <3>2, <3>3
  <2>. QED BY <2>1, <2>2
<1>8. PushEq(lengths, origin, method, limit, h)
  <2>1. h = [t \in SUBSET (1 .. n) |-> body(h, t)]
    <3>. HIDE DEF body
    <3>. QED BY <1>7
  <2>. QED BY <1>1, <2>1 DEF PushEq, base
<1>9. PushEq(lengths, origin, method, limit, F)
  <2>. HIDE DEF PushEq
  <2>. QED BY <1>8
<1>. HIDE DEF F
<1>10. ASSUME NEW t \in SUBSET (1 .. n) PROVE F[t] = body(F, t)
  <2>1. F = [u \in SUBSET (1 .. n) |-> body(F, u)]
    BY <1>1, <1>9 DEF PushEq, base
  <2>. HIDE DEF body
  <2>. QED BY <2>1
<1>11. F[1 .. 0] = base
  <2>1. 1 .. 0 = {} /\ {} \in SUBSET (1 .. n)
    OBVIOUS
  <2>. QED BY <1>10, <2>1
<1>12. ASSUME NEW i \in 1 .. n PROVE F[1 .. i] = Step(F[1 .. (i - 1)], i)
  <2>1. i \in 1 .. i /\ 1 .. i \in SUBSET (1 .. n) /\ (1 .. i) \ {i} = 1 .. (i - 1)
    BY <1>1
  <2>3. 1 .. i # {}
    BY <2>1
  <2>2. Max(1 .. i) = i
    <3>1. i \in Nat
      BY <1>1
    <3>. QED BY <2>1, <3>1, MaxIsLast
  <2>. HIDE DEF Step
  <2>. QED BY <1>10, <2>1, <2>2, <2>3
<1>. DEFINE S == {i \in 0 .. n : F[1 .. i] \in A}
<1>13. 0 .. n \subseteq S
  <2>1. 0 \in S
    <3>1. 0 \in 0 .. n
      BY <1>1
    <3>. QED BY <1>4, <1>11, <3>1
  <2>2. ASSUME NEW i \in 1 .. n, i - 1 \in S PROVE i \in S
    <3>1. F[1 .. (i - 1)] \in A /\ i \in 0 .. n
      BY <1>1, <2>2
    <3>2. F[1 .. i] \in A
      <4>. HIDE DEF Step
      <4>. QED BY <1>3, <1>12, <3>1
    <3>. QED BY <3>1, <3>2
  <2>. HIDE DEF S
  <2>. QED BY <1>1, <2>1, <2>2, UpTo
<1>. DEFINE g == [i \in 0 .. n |-> F[1 .. i]]
<1>14. g \in [0 .. n -> A]
  BY <1>13
<1>15. /\ g[0] = base /\ g[n].out = all
       /\ \A i \in 1 .. n : g[i] = Step(g[i - 1], i)
  <2>1. 0 \in 0 .. n /\ n \in 0 .. n /\ \A i \in 1 .. n : i \in 0 .. n /\ i - 1 \in 0 .. n
    BY <1>1
  <2>. HIDE DEF Step
  <2>. QED BY <1>1, <1>2, <1>11, <1>12, <2>1
<1>16. PushChain(lengths, origin, method, limit, g)
  <2>. HIDE DEF g
  <2>. QED BY <1>14, <1>15 DEF n, A, base, all, PushChain
<1>. QED BY <1>16, Zenon

-----------------------------------------------------------------------------
(* Cuts, and walks from cut to cut.                                        *)

\* The lesser of two.
LEMMA MinTwo ==
    ASSUME NEW a \in Nat, NEW b \in Nat
    PROVE  Min({a, b}) = IF a <= b THEN a ELSE b
<1>1. {a, b} \subseteq Nat /\ {a, b} # {}
  OBVIOUS
<1>2. Min({a, b}) \in {a, b} /\ \A y \in {a, b} : Min({a, b}) <= y
  BY <1>1, LeastMember
<1>. QED BY <1>2

CutOk(c) == c.min \in Nat /\ c.max \in Nat /\ c.min < c.max

\* A chunk is not empty and ends within the data.
LEMMA CutRange ==
    ASSUME NEW D \in Seq(Nat), NEW o \in 0 .. Len(D), o < Len(D), NEW c, CutOk(c)
    PROVE  Cut(D, o, c) \in 1 .. (Len(D) - o)
<1>. DEFINE rest == Len(D) - o
            end == Min({rest, c.max})
            marks == {k \in c.min + 1 .. end : D[o + k] = Marker}
<1>1. rest \in Nat /\ rest > 0 /\ c.min \in Nat /\ c.max \in Nat /\ c.max > 0
  BY DEF CutOk
<1>2. Cut(D, o, c) = IF rest <= c.min THEN rest ELSE IF marks = {} THEN end ELSE Min(marks)
  BY DEF Cut
<1>. HIDE DEF rest
<1>3. end = IF rest <= c.max THEN rest ELSE c.max
  BY <1>1, MinTwo
<1>4. end \in 1 .. rest
  <2>. HIDE DEF end
  <2>. QED BY <1>1, <1>3
<1>5. marks \subseteq 1 .. rest /\ marks \subseteq Nat
  <2>. HIDE DEF end
  <2>. QED BY <1>1, <1>4
<1>6. marks # {} => Min(marks) \in marks
  <2>. HIDE DEF marks
  <2>. QED BY <1>5, LeastMember
<1>7. rest \in 1 .. rest
  BY <1>1
<1>8. Cut(D, o, c) \in 1 .. rest
  <2>. HIDE DEF marks, end
  <2>. QED BY <1>2, <1>4, <1>5, <1>6, <1>7
<1>. QED BY <1>8 DEF rest

\* A buffer that repeats the data from o agrees with it at each place above a minimum.
LEMMA PlacesAgree ==
    ASSUME NEW D, NEW B, NEW o \in Nat, NEW n \in Nat, \A i \in 1 .. n : B[i] = D[o + i],
           NEW lo \in Nat, NEW e \in Nat, e <= n, NEW k \in lo + 1 .. e
    PROVE  B[0 + k] = D[o + k]
<1>1. k \in 1 .. n /\ 0 + k = k
  OBVIOUS
<1>. QED BY <1>1

\* The cut within a full buffer, or one that holds the end, is the cut within the data.
LEMMA CutOnBuffer ==
    ASSUME NEW D \in Seq(Nat), NEW B \in Seq(Nat), NEW o \in Nat, NEW c, CutOk(c), Len(B) > 0,
           o + Len(B) <= Len(D), \A i \in 1 .. Len(B) : B[i] = D[o + i],
           o + Len(B) = Len(D) \/ Len(B) = c.max
    PROVE  Cut(B, 0, c) = Cut(D, o, c)
<1>. DEFINE b == Len(B)
            rest == Len(D) - o
            endB == Min({b, c.max})
            endD == Min({rest, c.max})
            marksB == {k \in c.min + 1 .. endB : B[0 + k] = Marker}
            marksD == {k \in c.min + 1 .. endD : D[o + k] = Marker}
<1>1. b \in Nat /\ rest \in Nat /\ b > 0 /\ b <= rest /\ (b = rest \/ b = c.max)
  OBVIOUS
<1>2. c.min \in Nat /\ c.max \in Nat /\ c.min < c.max
  BY DEF CutOk
<1>3. Cut(B, 0, c) = IF b <= c.min THEN b ELSE IF marksB = {} THEN endB ELSE Min(marksB)
  <2>1. b - 0 = b
    BY <1>1
  <2>. QED BY <2>1 DEF Cut
<1>4. Cut(D, o, c) = IF rest <= c.min THEN rest ELSE IF marksD = {} THEN endD ELSE Min(marksD)
  BY DEF Cut
<1>5. endB = endD /\ endB \in Nat /\ endB <= b
  <2>1. endB = (IF b <= c.max THEN b ELSE c.max) /\ endD = IF rest <= c.max THEN rest ELSE c.max
    <3>. HIDE DEF b, rest
    <3>. QED BY <1>1, <1>2, MinTwo
  <2>. HIDE DEF b, rest, endB, endD
  <2>. QED BY <1>1, <1>2, <2>1, SMTT(30)
<1>6. marksB = marksD
  <2>1. ASSUME NEW k \in c.min + 1 .. endB PROVE B[0 + k] = D[o + k]
    <3>1. endB \in Nat /\ endB <= Len(B)
      BY <1>5
    <3>2. Len(B) \in Nat
      BY <1>1
    <3>. HIDE DEF endB
    <3>. QED BY <1>2, <3>1, <3>2, PlacesAgree, SMTT(30)
  <2>. HIDE DEF endB, endD
  <2>. QED BY <1>5, <2>1
<1>7. b <= c.min <=> rest <= c.min
  <2>. HIDE DEF b, rest
  <2>. QED BY <1>1, <1>2, SMTT(30)
<1>8. b <= c.min => b = rest
  <2>. HIDE DEF b, rest
  <2>. QED BY <1>1, <1>2
<1>. HIDE DEF b, rest, endB, endD, marksB, marksD
<1>. QED BY <1>3, <1>4, <1>5, <1>6, <1>7, <1>8

\* k[o] is the step from o: at least one, at most to n.
Steps(k, n) == k \in [0 .. n -> Nat] /\ \A o \in 0 .. n : o < n => k[o] \in 1 .. (n - o)

WalkEq(k, n, a, f) ==
    \A o \in a .. n : f[o] = IF o = n THEN <<>> ELSE <<k[o]>> \o f[o + k[o]]

\* The lengths of the steps from any place to the end.
LEMMA WalkExists ==
    ASSUME NEW n \in Nat, NEW k, Steps(k, n)
    PROVE  \E f \in [0 .. n -> Seq(Nat)] : WalkEq(k, n, 0, f)
<1>. DEFINE Good == {j \in 0 .. n : \E f \in [(n - j) .. n -> Seq(Nat)] : WalkEq(k, n, n - j, f)}
<1>1. 0 \in Good
  <2>. DEFINE f == [o \in (n - 0) .. n |-> <<>>]
  <2>1. \A o \in (n - 0) .. n : o = n
    OBVIOUS
  <2>2. f \in [(n - 0) .. n -> Seq(Nat)]
    OBVIOUS
  <2>3. WalkEq(k, n, n - 0, f)
    BY <2>1 DEF WalkEq
  <2>4. 0 \in 0 .. n
    OBVIOUS
  <2>. HIDE DEF f
  <2>. QED BY <2>2, <2>3, <2>4
<1>2. ASSUME NEW j \in 1 .. n, j - 1 \in Good PROVE j \in Good
  <2>. DEFINE a == n - j
  <2>1. /\ a \in 0 .. n /\ a < n /\ n - (j - 1) = a + 1
        /\ j \in 0 .. n
    OBVIOUS
  <2>2. PICK g \in [(a + 1) .. n -> Seq(Nat)] : WalkEq(k, n, a + 1, g)
    BY <1>2, <2>1
  <2>3. k[a] \in 1 .. (n - a) /\ k[a] \in Nat
    BY <2>1 DEF Steps
  <2>. DEFINE f == [o \in a .. n |-> IF o = a THEN <<k[a]>> \o g[a + k[a]] ELSE g[o]]
  <2>. HIDE DEF a
  <2>4. a + k[a] \in (a + 1) .. n /\ \A o \in a .. n : o # a => o \in (a + 1) .. n
    BY <2>1, <2>3
  <2>5. <<k[a]>> \o g[a + k[a]] \in Seq(Nat)
    <3>1. g[a + k[a]] \in Seq(Nat)
      BY <2>2, <2>4
    <3>. QED BY <2>3, <3>1
  <2>6. f \in [a .. n -> Seq(Nat)]
    BY <2>2, <2>4, <2>5
  <2>7. ASSUME NEW o \in a .. n PROVE f[o] = IF o = n THEN <<>> ELSE <<k[o]>> \o f[o + k[o]]
    <3>1. CASE o = a
      <4>1. f[a + k[a]] = g[a + k[a]]
        <5>1. a + k[a] # a /\ a + k[a] \in a .. n
          BY <2>1, <2>3, <2>4
        <5>. QED BY <5>1
      <4>2. a \in a .. n /\ a # n
        BY <2>1
      <4>3. f[a] = <<k[a]>> \o g[a + k[a]]
        BY <4>2
      <4>. HIDE DEF f
      <4>. QED BY <3>1, <4>1, <4>2, <4>3
    <3>2. CASE o # a
      <4>1. o \in (a + 1) .. n /\ f[o] = g[o]
        BY <2>4, <3>2
      <4>2. g[o] = IF o = n THEN <<>> ELSE <<k[o]>> \o g[o + k[o]]
        BY <2>2, <4>1 DEF WalkEq
      <4>3. ASSUME o # n PROVE f[o + k[o]] = g[o + k[o]]
        <5>0. o \in 0 .. n /\ o < n
          BY <2>1, <4>1, <4>3
        <5>1. k[o] \in 1 .. (n - o) /\ o \in 0 .. n
          BY <5>0 DEF Steps
        <5>2. o + k[o] \in a .. n /\ o + k[o] # a
          BY <2>1, <4>1, <5>1
        <5>. QED BY <5>2
      <4>. QED BY <4>1, <4>2, <4>3
    <3>. QED BY <3>1, <3>2
  <2>. HIDE DEF f
  <2>8. WalkEq(k, n, a, f)
    BY <2>7 DEF WalkEq
  <2>. QED BY <2>1, <2>6, <2>8 DEF a
<1>3. 0 .. n \subseteq Good
  <2>. HIDE DEF Good
  <2>. QED BY <1>1, <1>2, UpTo
<1>4. n \in Good /\ n - n = 0
  <2>. HIDE DEF Good
  <2>. QED BY <1>3
<1>. QED BY <1>4

\* s goes from o to n in the steps L.
Walk(k, L, s, o, n) ==
    /\ L \in Seq(Nat) /\ s \in [0 .. Len(L) -> 0 .. n]
    /\ s[0] = o /\ s[Len(L)] = n
    /\ \A i \in 1 .. Len(L) :
            s[i - 1] < n /\ L[i] = k[s[i - 1]] /\ s[i] = s[i - 1] + L[i]

\* The same as a walk from the beginning.
LEMMA WalkChain ==
    ASSUME NEW n \in Nat, NEW k, Steps(k, n), NEW f \in [0 .. n -> Seq(Nat)],
           WalkEq(k, n, 0, f), NEW q \in 0 .. n
    PROVE  \E s : Walk(k, f[q], s, q, n)
<1>. DEFINE Good == {j \in 0 .. n : \A o \in (n - j) .. n : \E s : Walk(k, f[o], s, o, n)}
<1>0. ASSUME NEW o \in 0 .. n, o < n, NEW t, Walk(k, f[o + k[o]], t, o + k[o], n)
      PROVE  \E s : Walk(k, f[o], s, o, n)
  <2>. DEFINE L == f[o + k[o]]
              M == f[o]
              s == [i \in 0 .. (Len(L) + 1) |-> IF i = 0 THEN o ELSE t[i - 1]]
  <2>1. k[o] \in 1 .. (n - o) /\ o + k[o] \in 0 .. n /\ k[o] \in Nat
    BY <1>0, SMTT(30) DEF Steps
  <2>2. M = <<k[o]>> \o L
    BY <1>0 DEF WalkEq
  <2>3. L \in Seq(Nat) /\ M \in Seq(Nat)
    BY <2>1
  <2>. HIDE DEF L, M
  <2>4. /\ Len(L) \in Nat /\ Len(M) = Len(L) + 1 /\ M[1] = k[o]
        /\ \A i \in 2 .. Len(M) : M[i] = L[i - 1]
    BY <2>1, <2>2, <2>3, SMTT(30)
  <2>5. /\ t \in [0 .. Len(L) -> 0 .. n] /\ t[0] = o + k[o] /\ t[Len(L)] = n
        /\ \A i \in 1 .. Len(L) : t[i - 1] < n /\ L[i] = k[t[i - 1]] /\ t[i] = t[i - 1] + L[i]
    BY <1>0 DEF Walk, L
  <2>6. s \in [0 .. Len(M) -> 0 .. n]
    BY <2>4, <2>5, SMTT(30)
  <2>7. s[0] = o /\ s[Len(M)] = n
    BY <2>4, <2>5
  <2>8. ASSUME NEW i \in 1 .. Len(M)
        PROVE  s[i - 1] < n /\ M[i] = k[s[i - 1]] /\ s[i] = s[i - 1] + M[i]
    <3>1. CASE i = 1
      <4>1. s[0] = o /\ s[1] = t[0] /\ i - 1 = 0
        BY <2>4, <3>1
      <4>. QED BY <1>0, <2>1, <2>4, <2>5, <3>1, <4>1
    <3>2. CASE i # 1
      <4>1. i \in 2 .. Len(M) /\ i - 1 \in 1 .. Len(L) /\ i - 1 # 0 /\ i # 0
            /\ i - 1 \in 0 .. (Len(L) + 1) /\ i \in 0 .. (Len(L) + 1)
        BY <2>4, <3>2
      <4>2. s[i - 1] = t[(i - 1) - 1] /\ s[i] = t[i - 1] /\ M[i] = L[i - 1]
        BY <2>4, <4>1
      <4>3. t[(i - 1) - 1] < n /\ L[i - 1] = k[t[(i - 1) - 1]]
            /\ t[i - 1] = t[(i - 1) - 1] + L[i - 1]
        BY <2>5, <4>1
      <4>. QED BY <4>2, <4>3
    <3>. QED BY <3>1, <3>2
  <2>. HIDE DEF s
  <2>9. Walk(k, M, s, o, n)
    BY <2>3, <2>6, <2>7, <2>8 DEF Walk
  <2>. QED BY <2>9 DEF M
<1>1. 0 \in Good
  <2>1. \A o \in (n - 0) .. n : o = n
    OBVIOUS
  <2>. DEFINE s == [i \in 0 .. 0 |-> n]
  <2>2. f[n] = <<>>
    <3>1. n \in 0 .. n
      OBVIOUS
    <3>. QED BY <3>1 DEF WalkEq
  <2>3. Walk(k, f[n], s, n, n)
    BY <2>2 DEF Walk
  <2>4. 0 \in 0 .. n
    OBVIOUS
  <2>. HIDE DEF s
  <2>. QED BY <2>1, <2>3, <2>4
<1>2. ASSUME NEW j \in 1 .. n, j - 1 \in Good PROVE j \in Good
  <2>1. ASSUME NEW o \in (n - j) .. n PROVE \E s : Walk(k, f[o], s, o, n)
    <3>1. CASE o \in (n - (j - 1)) .. n
      BY <1>2, <3>1
    <3>2. CASE o \notin (n - (j - 1)) .. n
      <4>1. o = n - j /\ o \in 0 .. n /\ o < n
        BY <3>2
      <4>2. k[o] \in 1 .. (n - o)
        BY <4>1 DEF Steps
      <4>3. o + k[o] \in (n - (j - 1)) .. n
        BY <4>1, <4>2
      <4>4. PICK t : Walk(k, f[o + k[o]], t, o + k[o], n)
        BY <1>2, <4>3
      <4>. QED BY <1>0, <4>1, <4>4
    <3>. QED BY <3>1, <3>2
  <2>2. j \in 0 .. n
    OBVIOUS
  <2>. QED BY <2>1, <2>2
<1>3. 0 .. n \subseteq Good
  <2>. HIDE DEF Good
  <2>. QED BY <1>1, <1>2, UpTo
<1>4. n \in Good /\ q \in (n - n) .. n
  <2>1. n \in 0 .. n /\ q \in (n - n) .. n
    OBVIOUS
  <2>. HIDE DEF Good
  <2>. QED BY <1>3, <2>1
<1>. QED BY <1>4

-----------------------------------------------------------------------------
(* chunk_fastcdc, chunk by chunk.                                          *)

\* Configurations, valid or not.
Configs == [min : Nat, avg : Nat, max : Nat, fixed : Nat, micro : Nat, target : Nat,
            chunks : Nat, bytes : Nat, meta : Nat, path : Nat]

\* Where the cuts are, and the equation of CdcLengths.
CutAt(D, c) == [o \in 0 .. Len(D) |-> IF o < Len(D) THEN Cut(D, o, c) ELSE 0]
CdcEq(D, c, f) ==
    f = [o \in 0 .. Len(D) |->
            IF o = Len(D) THEN <<>> ELSE <<Cut(D, o, c)>> \o f[o + Cut(D, o, c)]]

\* CdcLengths walks from cut to cut to the end of the data.
LEMMA CdcWalk ==
    ASSUME NEW D \in Seq(Nat), NEW c, CutOk(c)
    PROVE  \E s : Walk(CutAt(D, c), CdcLengths(D, c), s, 0, Len(D))
<1>. DEFINE n == Len(D)
            k == CutAt(D, c)
            F == CHOOSE f : CdcEq(D, c, f)
<1>1. n \in Nat /\ 0 \in 0 .. n
  OBVIOUS
<1>2. \A o \in 0 .. n : o < n => Cut(D, o, c) \in 1 .. (n - o)
  BY CutRange
<1>3. \A o \in 0 .. n : k[o] = IF o < n THEN Cut(D, o, c) ELSE 0
  BY DEF CutAt
<1>4. Steps(k, n)
  <2>1. \A o \in 0 .. n : k[o] \in Nat
    BY <1>1, <1>2, <1>3
  <2>2. k \in [0 .. n -> Nat]
    <3>1. k = [o \in 0 .. n |-> k[o]]
      BY DEF CutAt
    <3>. HIDE DEF k
    <3>. QED BY <2>1, <3>1
  <2>. HIDE DEF k
  <2>. QED BY <1>1, <1>2, <1>3, <2>2 DEF Steps
<1>5. PICK h \in [0 .. n -> Seq(Nat)] : WalkEq(k, n, 0, h)
  <2>. HIDE DEF k, n
  <2>. QED BY <1>1, <1>4, WalkExists
<1>6. ASSUME NEW o \in 0 .. n, o # n PROVE k[o] = Cut(D, o, c)
  BY <1>1, <1>3, <1>6
<1>. HIDE DEF k, n
<1>7. CdcEq(D, c, h)
  <2>1. \A o \in 0 .. n : h[o] = IF o = n THEN <<>> ELSE <<Cut(D, o, c)>> \o h[o + Cut(D, o, c)]
    BY <1>5, <1>6 DEF WalkEq
  <2>2. h = [o \in 0 .. n |-> IF o = n THEN <<>> ELSE <<Cut(D, o, c)>> \o h[o + Cut(D, o, c)]]
    BY <1>5, <2>1
  <2>. QED BY <2>2, Zenon DEF CdcEq, n
<1>8. CdcEq(D, c, F)
  <2>. HIDE DEF CdcEq
  <2>. QED BY <1>7
<1>. DEFINE L == CdcLengths(D, c)
<1>9. L = F[0]
  BY DEF CdcLengths, CdcEq
<1>. HIDE DEF F
<1>10. \A o \in 0 .. n : F[o] = IF o = n THEN <<>> ELSE <<k[o]>> \o F[o + k[o]]
  BY <1>6, <1>8 DEF CdcEq, n
<1>. DEFINE Good == {j \in 0 .. n : \A o \in (n - j) .. n : F[o] \in Seq(Nat)}
<1>11. 0 .. n \subseteq Good
  <2>1. 0 \in Good
    <3>1. 0 \in 0 .. n /\ n \in 0 .. n /\ \A o \in (n - 0) .. n : o = n
      BY <1>1
    <3>2. F[n] = <<>>
      BY <1>10, <3>1
    <3>3. F[n] \in Seq(Nat)
      BY <3>2
    <3>4. \A o \in (n - 0) .. n : F[o] \in Seq(Nat)
      BY <3>1, <3>3
    <3>. QED BY <3>1, <3>4
  <2>2. ASSUME NEW j \in 1 .. n, j - 1 \in Good PROVE j \in Good
    <3>1. ASSUME NEW o \in (n - j) .. n PROVE F[o] \in Seq(Nat)
      <4>1. CASE o \in (n - (j - 1)) .. n
        BY <2>2, <4>1
      <4>2. CASE o \notin (n - (j - 1)) .. n
        <5>1. o \in 0 .. n /\ o < n /\ o # n /\ o = n - j
          BY <1>1, <4>2
        <5>2. k[o] \in 1 .. (n - o) /\ k[o] \in Nat
          BY <1>4, <5>1 DEF Steps
        <5>3. o + k[o] \in (n - (j - 1)) .. n
          BY <1>1, <5>1, <5>2, SMTT(30)
        <5>4. F[o + k[o]] \in Seq(Nat)
          BY <2>2, <5>3
        <5>5. <<k[o]>> \o F[o + k[o]] \in Seq(Nat)
          BY <5>2, <5>4
        <5>. QED BY <1>10, <5>1, <5>5
      <4>. QED BY <4>1, <4>2
    <3>2. j \in 0 .. n
      BY <1>1
    <3>. QED BY <3>1, <3>2
  <2>. HIDE DEF Good
  <2>. QED BY <1>1, <2>1, <2>2, UpTo
<1>12. F \in [0 .. n -> Seq(Nat)]
  <2>1. n \in Good
    <3>. HIDE DEF Good
    <3>. QED BY <1>1, <1>11
  <2>2. \A o \in 0 .. n : F[o] \in Seq(Nat)
    BY <1>1, <2>1
  <2>3. F = [o \in 0 .. n |-> IF o = n THEN <<>> ELSE <<Cut(D, o, c)>> \o F[o + Cut(D, o, c)]]
    BY <1>8, Zenon DEF CdcEq, n
  <2>. QED BY <2>2, <2>3
<1>13. WalkEq(k, n, 0, F)
  BY <1>10 DEF WalkEq
<1>14. \E s : Walk(k, F[0], s, 0, n)
  BY <1>1, <1>4, <1>12, <1>13, WalkChain
<1>. QED BY <1>9, <1>14 DEF k, n

\* FastCDC, chunk by chunk: after i chunks the data is cut up to s[i], and g[i] is what was
\* pushed.
CdcTrace(D, origin, c, m, s, g) ==
    /\ m \in Nat /\ s \in [0 .. m -> 0 .. Len(D)] /\ g \in [0 .. m -> Results]
    /\ s[0] = 0 /\ s[m] = Len(D) /\ g[0] = Ok(<<>>)
    /\ \A i \in 1 .. m :
          /\ s[i - 1] < Len(D) /\ s[i] = s[i - 1] + Cut(D, s[i - 1], c)
          /\ g[i - 1].ok = FALSE => g[i] = g[i - 1]
          /\ g[i - 1].ok = TRUE => g[i] = PushRelativeChunk(g[i - 1].val, origin, s[i - 1],
                                             Cut(D, s[i - 1], c), "FastCdc", c.chunks)
    /\ g[m] = PushAll(CdcLengths(D, c), origin, "FastCdc", c.chunks)

\* chunk_fastcdc has such a trace.
LEMMA CdcTraceExists ==
    ASSUME NEW D \in Seq(Nat), NEW c, CutOk(c), NEW origin \in Origins
    PROVE  \E m, s, g : CdcTrace(D, origin, c, m, s, g)
<1>. DEFINE n == Len(D)
            L == CdcLengths(D, c)
            k == CutAt(D, c)
<1>1. PICK s : Walk(k, L, s, 0, n)
  BY CdcWalk
<1>. DEFINE m == Len(L)
<1>2. L \in Seq(Nat) /\ m \in Nat
  BY <1>1 DEF Walk
<1>3. "FastCdc" \in Methods
  BY DEF Methods
<1>4. PICK h : PushChain(L, origin, "FastCdc", c.chunks, h)
  <2>. HIDE DEF L
  <2>1. \A method \in Methods : \E h : PushChain(L, origin, method, c.chunks, h)
    BY <1>2, PushSteps
  <2>. QED BY <1>3, <2>1
<1>5. /\ s \in [0 .. m -> 0 .. n] /\ s[0] = 0 /\ s[m] = n
      /\ \A i \in 1 .. m : s[i - 1] < n /\ L[i] = k[s[i - 1]] /\ s[i] = s[i - 1] + L[i]
  BY <1>1 DEF Walk
<1>6. /\ h \in [0 .. m -> PushStates] /\ h[0] = [rel |-> 0, out |-> Ok(<<>>)]
      /\ h[m].out = PushAll(L, origin, "FastCdc", c.chunks)
      /\ \A i \in 1 .. m : h[i] = PushStep(h[i - 1], L[i], origin, "FastCdc", c.chunks)
  BY <1>4 DEF PushChain
<1>7. \A o \in 0 .. n : o < n => k[o] = Cut(D, o, c)
  BY DEF CutAt
<1>. HIDE DEF L, k
<1>8. \A i \in 1 .. m : i - 1 \in 0 .. m /\ i \in 0 .. m /\ L[i] \in Nat
  BY <1>2
<1>. HIDE DEF m
<1>9. ASSUME NEW i \in 1 .. m
      PROVE  /\ L[i] = Cut(D, s[i - 1], c)
             /\ h[i].rel = h[i - 1].rel + L[i]
             /\ h[i - 1].out.ok = FALSE => h[i].out = h[i - 1].out
             /\ h[i - 1].out.ok = TRUE => h[i].out = PushRelativeChunk(h[i - 1].out.val, origin,
                    h[i - 1].rel, L[i], "FastCdc", c.chunks)
  <2>1. s[i - 1] \in 0 .. n /\ s[i - 1] < n
    BY <1>5, <1>8
  <2>2. L[i] = Cut(D, s[i - 1], c)
    BY <1>5, <1>7, <2>1
  <2>. DEFINE prior == h[i - 1]
              len == L[i]
  <2>3. prior \in PushStates /\ len \in Nat
    BY <1>6, <1>8
  <2>4. h[i] = PushStep(prior, len, origin, "FastCdc", c.chunks)
    BY <1>6
  <2>. HIDE DEF prior, len
  <2>5. LET p == PushStep(prior, len, origin, "FastCdc", c.chunks)
        IN  /\ prior.out.ok = FALSE => p.out = prior.out
            /\ prior.out.ok = TRUE => p.out =
                    PushRelativeChunk(prior.out.val, origin, prior.rel, len, "FastCdc", c.chunks)
            /\ p.rel = prior.rel + len
    <3>1. \A method \in Methods : \A limit :
            Pushed(PushStep(prior, len, origin, method, limit), prior, len, origin, method, limit)
      BY <2>3, PushStepType
    <3>2. Pushed(PushStep(prior, len, origin, "FastCdc", c.chunks), prior, len, origin, "FastCdc",
                 c.chunks)
      BY <1>3, <3>1
    <3>. QED BY <3>2 DEF Pushed
  <2>. QED BY <2>2, <2>4, <2>5 DEF prior, len
<1>. DEFINE S == {i \in 0 .. m : h[i].rel = s[i]}
<1>10. 0 .. m \subseteq S
  <2>1. 0 \in S
    BY <1>2, <1>5, <1>6
  <2>2. ASSUME NEW i \in 1 .. m, i - 1 \in S PROVE i \in S
    BY <1>5, <1>8, <1>9, <2>2
  <2>3. m \in Nat
    BY <1>2 DEF m
  <2>. HIDE DEF S
  <2>. QED BY <2>1, <2>2, <2>3, UpTo
<1>. DEFINE g == [i \in 0 .. m |-> h[i].out]
<1>11. g \in [0 .. m -> Results] /\ m \in Nat
  BY <1>2, <1>6 DEF PushStates, m
<1>12. g[0] = Ok(<<>>) /\ g[m] = PushAll(L, origin, "FastCdc", c.chunks)
  <2>1. 0 \in 0 .. m /\ m \in 0 .. m
    BY <1>11
  <2>. QED BY <1>6, <2>1
<1>13. ASSUME NEW i \in 1 .. m
       PROVE  /\ s[i - 1] < n /\ s[i] = s[i - 1] + Cut(D, s[i - 1], c)
              /\ g[i - 1].ok = FALSE => g[i] = g[i - 1]
              /\ g[i - 1].ok = TRUE => g[i] = PushRelativeChunk(g[i - 1].val, origin, s[i - 1],
                                                 Cut(D, s[i - 1], c), "FastCdc", c.chunks)
  <2>1. g[i] = h[i].out /\ g[i - 1] = h[i - 1].out /\ h[i - 1].rel = s[i - 1]
    BY <1>8, <1>10
  <2>. HIDE DEF g
  <2>. QED BY <1>5, <1>9, <2>1
<1>. HIDE DEF g
<1>14. CdcTrace(D, origin, c, m, s, g)
  BY <1>5, <1>11, <1>12, <1>13 DEF CdcTrace, L
<1>. QED BY <1>14, Zenon

\* Once a chunk was refused there is no result.
LEMMA CdcErrorsStay ==
    ASSUME NEW D, NEW origin, NEW c, NEW m, NEW s, NEW g, CdcTrace(D, origin, c, m, s, g),
           NEW i \in 0 .. m, g[i].ok = FALSE
    PROVE  g[m].ok = FALSE
<1>. DEFINE S == {j \in 0 .. m : j >= i => g[j].ok = FALSE}
<1>1. m \in Nat
  BY DEF CdcTrace
<1>2. 0 \in S
  BY <1>1
<1>3. ASSUME NEW j \in 1 .. m, j - 1 \in S PROVE j \in S
  <2>1. j \in 0 .. m
    BY <1>1
  <2>2. CASE j - 1 >= i
    BY <1>3, <2>1, <2>2 DEF CdcTrace
  <2>3. CASE ~(j - 1 >= i)
    <3>1. j >= i => j = i
      BY <1>1, <2>3
    <3>. QED BY <2>1, <3>1
  <2>. QED BY <2>2, <2>3
<1>4. 0 .. m \subseteq S
  <2>. HIDE DEF S
  <2>. QED BY <1>1, <1>2, <1>3, UpTo
<1>5. m \in S /\ m >= i
  <2>. HIDE DEF S
  <2>. QED BY <1>1, <1>4
<1>. QED BY <1>5

-----------------------------------------------------------------------------
(* chunk_fastcdc and its checks.                                           *)

\* The fields of a result.
LEMMA OkIs ==
    ASSUME NEW v PROVE Ok(v).ok = TRUE /\ Ok(v).val = v /\ Err(v).ok = FALSE /\ Err(v).val = v
BY DEF Ok, Err

\* validate_chunk_coverage answers its list or an error.
LEMMA ValidateIs ==
    ASSUME NEW list \in Seq(Drafts), NEW origin \in Origins, NEW size \in Nat
    PROVE  LET r == ValidateChunkCoverage(list, origin, size)
           IN  /\ r \in Results /\ (r.ok = TRUE => r = Ok(list))
               /\ (list = <<>> /\ size = 0 /\ origin.base <= OffsetMax) => r = Ok(<<>>)
               /\ ~(origin.base + size <= OffsetMax) => r.ok = FALSE
<1>. DEFINE r == ValidateChunkCoverage(list, origin, size)
            w == origin.base + size
            v == CoverageValid(list, origin, size)
<1>1. PICK e \in Errors, f \in Errors : e = "overflow" /\ f = "chunk coverage"
  BY DEF Errors
<1>2. PICK a \in BOOLEAN : a = (w <= OffsetMax)
  <2>1. (w <= OffsetMax) \in BOOLEAN
    OBVIOUS
  <2>. QED BY <2>1, Zenon
<1>3. PICK b \in BOOLEAN : b = v
  <2>1. v \in BOOLEAN
    <3>. DEFINE cur == CHOOSE cursor : cursor = [i \in 0 .. Len(list) |->
                          IF i = 0 THEN origin.base ELSE cursor[i - 1] + list[i].len]
                x == list \in {<<>>, <<Draft(origin, 0, 0, "MicroFile")>>}
                y == /\ \A i \in 1 .. Len(list) :
                          /\ list[i].entry = origin.entry /\ list[i].object = origin.object
                          /\ list[i].offset = cur[i - 1] /\ list[i].len # 0
                     /\ cur[Len(list)] = origin.base + size
    <3>1. x \in BOOLEAN /\ y \in BOOLEAN
      <4>1. \A m, S : (m \in S) \in BOOLEAN
        OBVIOUS
      <4>2. y \in BOOLEAN
        BY Zenon
      <4>. QED BY <4>1, <4>2, Zenon
    <3>2. v = IF size = 0 THEN x ELSE y
      BY Zenon DEF CoverageValid
    <3>. HIDE DEF x, y, v
    <3>. QED BY <3>1, <3>2, Zenon
  <2>. QED BY <2>1, Zenon
<1>4. r = Checked(<<<<a, e>>, <<b, f>>>>, list)
  <2>1. r = Checked(<<<<w <= OffsetMax, "overflow">>, <<v, "chunk coverage">>>>, list)
    BY Zenon DEF ValidateChunkCoverage, OffsetCheck
  <2>. HIDE DEF r, w, v
  <2>. QED BY <1>1, <1>2, <1>3, <2>1, Zenon
<1>5. /\ (a /\ b) => Checked(<<<<a, e>>, <<b, f>>>>, list) = Ok(list)
      /\ ~(a /\ b) => \E x \in Errors : Checked(<<<<a, e>>, <<b, f>>>>, list) = Err(x)
  BY CheckedTwo
<1>6. ASSUME list = <<>>, size = 0, origin.base <= OffsetMax PROVE a /\ b
  <2>1. w = origin.base
    BY <1>6 DEF Origins
  <2>2. v
    BY <1>6 DEF CoverageValid
  <2>. HIDE DEF w, v
  <2>. QED BY <1>2, <1>3, <1>6, <2>1, <2>2
<1>. HIDE DEF r
<1>7. r = Ok(list) \/ \E x \in Errors : r = Err(x)
  BY <1>4, <1>5
<1>8. r \in Results /\ (r.ok = TRUE => r = Ok(list))
  <2>1. \A x : Err(x).ok = FALSE
    BY DEF Err
  <2>. QED BY <1>7, <2>1 DEF Results
<1>9. (list = <<>> /\ size = 0 /\ origin.base <= OffsetMax) => r = Ok(<<>>)
  BY <1>4, <1>5, <1>6
<1>10. ~(origin.base + size <= OffsetMax) => r.ok = FALSE
  <2>1. ~(w <= OffsetMax) => ~a
    <3>. HIDE DEF w
    <3>. QED BY <1>2
  <2>. QED BY <1>4, <1>5, <2>1, OkIs
<1>. QED BY <1>8, <1>9, <1>10 DEF r

\* The checks every call begins with.
Fits(size, origin, c) == ConfigValid(c) /\ size <= c.bytes /\ origin.base + size <= OffsetMax

\* The checks every call makes first.
LEMMA EntryChecksAre ==
    ASSUME NEW size \in Nat, NEW origin \in Origins, NEW c \in Configs
    PROVE  \E a, b, d \in BOOLEAN : \E e, f, g \in Errors :
              /\ Fits(size, origin, c) <=> (a /\ b /\ d)
              /\ EntryChecks(size, origin, c) = <<<<a, e>>, <<b, f>>, <<d, g>>>>
<1>. DEFINE w == origin.base + size
            v == ConfigValid(c)
            y == c.bytes
<1>1. PICK e \in Errors, f \in Errors, g \in Errors :
            e = "config" /\ f = "logical bytes" /\ g = "overflow"
  BY DEF Errors
<1>2. PICK a \in BOOLEAN : a = v
  <2>1. v \in BOOLEAN
    BY Zenon DEF ConfigValid
  <2>. QED BY <2>1, Zenon
<1>3. PICK b \in BOOLEAN : b = (size <= y)
  <2>1. (size <= y) \in BOOLEAN
    OBVIOUS
  <2>. QED BY <2>1, Zenon
<1>4. PICK d \in BOOLEAN : d = (w <= OffsetMax)
  <2>1. (w <= OffsetMax) \in BOOLEAN
    OBVIOUS
  <2>. QED BY <2>1, Zenon
<1>5. EntryChecks(size, origin, c) =
        <<<<v, "config">>, <<size <= y, "logical bytes">>, <<w <= OffsetMax, "overflow">>>>
  BY Zenon DEF EntryChecks, SizeCheck, OffsetCheck
<1>6. Fits(size, origin, c) <=> (v /\ size <= y /\ w <= OffsetMax)
  BY DEF Fits
<1>. HIDE DEF w, v, y
<1>7. EntryChecks(size, origin, c) = <<<<a, e>>, <<b, f>>, <<d, g>>>>
  BY <1>1, <1>2, <1>3, <1>4, <1>5, Zenon
<1>8. Fits(size, origin, c) <=> (a /\ b /\ d)
  BY <1>2, <1>3, <1>4, <1>6
<1>. QED BY <1>7, <1>8, Zenon

\* What they answer.
LEMMA EntryChecked ==
    ASSUME NEW size \in Nat, NEW origin \in Origins, NEW c \in Configs, NEW v
    PROVE  LET r == Checked(EntryChecks(size, origin, c), v)
           IN  /\ Fits(size, origin, c) => r = Ok(v)
               /\ ~Fits(size, origin, c) => \E x \in Errors : r = Err(x)
<1>1. PICK a \in BOOLEAN, b \in BOOLEAN, d \in BOOLEAN,
           e \in Errors, f \in Errors, g \in Errors :
              /\ Fits(size, origin, c) <=> (a /\ b /\ d)
              /\ EntryChecks(size, origin, c) = <<<<a, e>>, <<b, f>>, <<d, g>>>>
  BY EntryChecksAre
<1>2. /\ (a /\ b /\ d) => Checked(<<<<a, e>>, <<b, f>>, <<d, g>>>>, v) = Ok(v)
      /\ ~(a /\ b /\ d) =>
            \E x \in Errors : Checked(<<<<a, e>>, <<b, f>>, <<d, g>>>>, v) = Err(x)
  BY CheckedThree
<1>. QED BY <1>1, <1>2, Zenon

\* A valid configuration has what Cut needs.
LEMMA ValidCuts ==
    ASSUME NEW c \in Configs, ConfigValid(c)
    PROVE  CutOk(c) /\ c.chunks > 0
BY DEF Configs, ConfigValid, CutOk

LEMMA ResultsAre ==
    ASSUME NEW e \in Errors PROVE Err(e) \in Results
BY DEF Results

\* chunk_fastcdc: refused, or the chunks one after the other, validated.
CdcResult(D, origin, c) ==
    LET all == PushAll(CdcLengths(D, c), origin, "FastCdc", c.chunks)
    IN  IF all.ok THEN ValidateChunkCoverage(all.val, origin, Len(D)) ELSE all

\* chunk_fastcdc as a case distinction.
LEMMA FastCdcIs ==
    ASSUME NEW D \in Seq(Nat), NEW origin \in Origins, NEW c \in Configs
    PROVE  LET r == ChunkFastCdc(D, origin, c)
           IN  /\ Fits(Len(D), origin, c) => r = CdcResult(D, origin, c)
               /\ ~Fits(Len(D), origin, c) => r.ok = FALSE
               /\ r \in Results
<1>. DEFINE r == ChunkFastCdc(D, origin, c)
            n == Len(D)
            L == CdcLengths(D, c)
            all == PushAll(L, origin, "FastCdc", c.chunks)
            k == Checked(EntryChecks(n, origin, c), L)
<1>1. n \in Nat
  OBVIOUS
<1>2. r = IF k.ok THEN CdcResult(D, origin, c) ELSE k
  <2>1. k.ok => k.val = L
    <3>. HIDE DEF L, n
    <3>1. /\ Fits(n, origin, c) => k = Ok(L)
          /\ ~Fits(n, origin, c) => \E x \in Errors : k = Err(x)
      BY <1>1, EntryChecked
    <3>. HIDE DEF k
    <3>. QED BY <3>1, OkIs
  <2>2. k.ok => r = LET every == PushAll(k.val, origin, "FastCdc", c.chunks)
                    IN  IF every.ok THEN ValidateChunkCoverage(every.val, origin, n) ELSE every
    BY DEF ChunkFastCdc, AndThen
  <2>3. ~k.ok => r = k
    BY DEF ChunkFastCdc, AndThen
  <2>. HIDE DEF k, r
  <2>. QED BY <2>1, <2>2, <2>3 DEF CdcResult
<1>3. /\ Fits(n, origin, c) => k = Ok(L)
      /\ ~Fits(n, origin, c) => \E x \in Errors : k = Err(x)
  <2>. HIDE DEF L, n
  <2>. QED BY <1>1, EntryChecked
<1>4. ASSUME Fits(n, origin, c) PROVE r = CdcResult(D, origin, c)
  <2>. HIDE DEF r, k
  <2>. QED BY <1>2, <1>3, <1>4, OkIs
<1>5. ASSUME ~Fits(n, origin, c) PROVE r.ok = FALSE /\ r \in Results
  <2>1. PICK x \in Errors : k = Err(x)
    BY <1>3, <1>5
  <2>2. r = Err(x)
    <3>. HIDE DEF r, k
    <3>. QED BY <1>2, <2>1, OkIs
  <2>. HIDE DEF r
  <2>. QED BY <2>2, OkIs, ResultsAre
<1>6. ASSUME Fits(n, origin, c) PROVE r \in Results
  <2>1. CutOk(c)
    BY <1>6, ValidCuts DEF Fits
  <2>2. PICK m, s, g : CdcTrace(D, origin, c, m, s, g)
    BY <2>1, CdcTraceExists
  <2>3. all \in Results
    <3>1. g[m] \in Results /\ g[m] = all
      BY <2>2 DEF CdcTrace
    <3>. QED BY <3>1
  <2>4. CdcResult(D, origin, c) = IF all.ok THEN ValidateChunkCoverage(all.val, origin, n) ELSE all
    BY DEF CdcResult
  <2>. HIDE DEF all
  <2>5. all.ok = TRUE => all.val \in Seq(Drafts)
    BY <2>3, ResultCases
  <2>6. all.ok = TRUE => ValidateChunkCoverage(all.val, origin, n) \in Results
    BY <1>1, <2>5, ValidateIs
  <2>7. all.ok = TRUE \/ all.ok = FALSE
    BY <2>3, ResultCases
  <2>8. CdcResult(D, origin, c) \in Results
    BY <2>3, <2>4, <2>6, <2>7
  <2>. HIDE DEF r
  <2>. QED BY <1>4, <1>6, <2>8
<1>. HIDE DEF r
<1>. QED BY <1>4, <1>5, <1>6 DEF r, n

-----------------------------------------------------------------------------
(* One structural region.                                                  *)

\* The chunks of a region, relabelled.
LEMMA StructuralList ==
    ASSUME NEW sub \in Seq(Drafts)
    PROVE  Structural(sub) \in Seq(Drafts)
<1>. DEFINE n == Len(sub)
            f == [i \in 1 .. n |-> [sub[i] EXCEPT !.method = "Structural"]]
<1>1. n \in Nat /\ \A i \in 1 .. n : sub[i] \in Drafts
  OBVIOUS
<1>2. ASSUME NEW i \in 1 .. n PROVE [sub[i] EXCEPT !.method = "Structural"] \in Drafts
  <2>1. sub[i] \in Drafts
    BY <1>1
  <2>. QED BY <2>1 DEF Drafts, Methods
<1>3. f \in [1 .. n -> Drafts]
  BY <1>2
<1>4. Structural(sub) = f
  BY DEF Structural
<1>. HIDE DEF f, n
<1>. QED BY <1>1, <1>3, <1>4

\* What the call of a region is given.
LEMMA SubOriginIs ==
    ASSUME NEW origin \in Origins, NEW start \in Nat
    PROVE  SubOrigin(origin, start) \in Origins /\ SubOrigin(origin, start).base = origin.base + start
BY DEF Origins, SubOrigin

LEMMA SubConfigIs ==
    ASSUME NEW c \in Configs, NEW used \in Nat, NEW len \in Nat, used < c.chunks
    PROVE  LET s == SubConfig(c, used, len)
           IN  /\ s \in Configs /\ s.chunks = c.chunks - used /\ s.bytes = len
               /\ s.min = c.min /\ s.max = c.max
               /\ (ConfigValid(c) /\ len > 0) => ConfigValid(s)
<1>. DEFINE s == SubConfig(c, used, len)
<1>1. c.chunks \in Nat /\ c.chunks - used \in Nat /\ c.chunks - used # 0
  BY DEF Configs
<1>2. /\ s.chunks = c.chunks - used /\ s.bytes = len
      /\ s.min = c.min /\ s.max = c.max /\ s.avg = c.avg /\ s.fixed = c.fixed
      /\ s.micro = c.micro /\ s.target = c.target /\ s.meta = c.meta /\ s.path = c.path
  BY DEF Configs, SubConfig
<1>3. s \in Configs
  BY <1>1 DEF Configs, SubConfig
<1>. HIDE DEF s
<1>4. (ConfigValid(c) /\ len > 0) => ConfigValid(s)
  BY <1>1, <1>2 DEF ConfigValid
<1>. QED BY <1>2, <1>3, <1>4 DEF s

\* One region of chunk_structural.
RegionIs(r, list, D, a, b, origin, c) ==
    /\ r \in Results
    /\ WholeRegion(b - a, c) =>
            r = PushRelativeChunk(list, origin, a, b - a, "Structural", c.chunks)
    /\ (~WholeRegion(b - a, c) /\ ~(Len(list) < c.chunks)) => r.ok = FALSE
    /\ (~WholeRegion(b - a, c) /\ Len(list) < c.chunks) =>
            LET sub == ChunkFastCdc(SubSeq(D, a + 1, b), SubOrigin(origin, a),
                                    SubConfig(c, Len(list), b - a))
            IN  /\ sub.ok = FALSE => r.ok = FALSE
                /\ sub.ok = TRUE => r = Ok(list \o Structural(sub.val))

LEMMA StructuralRegionIs ==
    ASSUME NEW list \in Seq(Drafts), NEW D \in Seq(Nat), NEW a \in Nat, NEW b \in Nat,
           a < b, b <= Len(D), NEW origin \in Origins, NEW c \in Configs
    PROVE  RegionIs(StructuralRegion(list, D, a, b, origin, c), list, D, a, b, origin, c)
<1>. DEFINE r == StructuralRegion(list, D, a, b, origin, c)
            sub == ChunkFastCdc(SubSeq(D, a + 1, b), SubOrigin(origin, a),
                                SubConfig(c, Len(list), b - a))
            k == Checked(<<CountCheck(Len(list) + 1, c.chunks)>>, a)
<1>0. Len(list) \in Nat /\ c.chunks \in Nat /\ b - a \in Nat
  BY DEF Configs
<1>1. CASE WholeRegion(b - a, c)
  <2>1. r = PushRelativeChunk(list, origin, a, b - a, "Structural", c.chunks)
    BY <1>1 DEF StructuralRegion
  <2>2. "Structural" \in Methods
    BY DEF Methods
  <2>3. \A m \in Methods : PushRelativeChunk(list, origin, a, b - a, m, c.chunks) \in Results
    BY <1>0, PushRelativeIs
  <2>4. r \in Results
    <3>. HIDE DEF r
    <3>. QED BY <2>1, <2>2, <2>3
  <2>. HIDE DEF r
  <2>. QED BY <1>1, <2>1, <2>4 DEF RegionIs, r
<1>2. CASE ~WholeRegion(b - a, c)
  <2>1. /\ Len(list) < c.chunks => k = Ok(a)
        /\ ~(Len(list) < c.chunks) => \E x \in Errors : k = Err(x)
    <3>. DEFINE u == Len(list) + 1
                w == c.chunks
    <3>1. PICK e \in Errors : e = "chunk count"
      BY DEF Errors
    <3>2. PICK t \in BOOLEAN : t = (u <= w)
      <4>1. (u <= w) \in BOOLEAN
        OBVIOUS
      <4>. QED BY <4>1, Zenon
    <3>3. k = Checked(<<<<u <= w, "chunk count">>>>, a)
      BY Zenon DEF CountCheck
    <3>4. Len(list) < c.chunks <=> u <= w
      BY <1>0
    <3>. HIDE DEF u, w, k
    <3>5. k = Checked(<<<<t, e>>>>, a)
      BY <3>1, <3>2, <3>3, Zenon
    <3>6. /\ t => Checked(<<<<t, e>>>>, a) = Ok(a)
          /\ ~t => \E x \in Errors : Checked(<<<<t, e>>>>, a) = Err(x)
      BY CheckedOne
    <3>. QED BY <3>2, <3>4, <3>5, <3>6
  <2>2. r = IF k.ok
            THEN LET s == k.val
                     y == ChunkFastCdc(SubSeq(D, s + 1, b), SubOrigin(origin, s),
                                       SubConfig(c, Len(list), b - s))
                 IN  IF y.ok THEN Ok(list \o Structural(y.val)) ELSE y
            ELSE k
    BY <1>2 DEF StructuralRegion, AndThen
  <2>3. CASE ~(Len(list) < c.chunks)
    <3>1. PICK x \in Errors : k = Err(x)
      BY <2>1, <2>3
    <3>. HIDE DEF r, k
    <3>2. r = Err(x)
      BY <2>2, <3>1, OkIs
    <3>. QED BY <1>2, <2>3, <3>2, OkIs, ResultsAre DEF RegionIs, r
  <2>4. CASE Len(list) < c.chunks
    <3>1. k.ok /\ k.val = a
      <4>. HIDE DEF k
      <4>. QED BY <2>1, <2>4, OkIs
    <3>2. r = IF sub.ok THEN Ok(list \o Structural(sub.val)) ELSE sub
      <4>. HIDE DEF k, r
      <4>. QED BY <2>2, <3>1
    <3>3. sub \in Results
      <4>. DEFINE E == SubSeq(D, a + 1, b)
                  o == SubOrigin(origin, a)
                  g == SubConfig(c, Len(list), b - a)
      <4>1. E \in Seq(Nat)
        OBVIOUS
      <4>2. o \in Origins
        BY SubOriginIs
      <4>3. g \in Configs
        BY <1>0, <2>4, SubConfigIs
      <4>. HIDE DEF E, o, g
      <4>4. ChunkFastCdc(E, o, g) \in Results
        BY <4>1, <4>2, <4>3, FastCdcIs
      <4>. QED BY <4>4 DEF E, o, g
    <3>. HIDE DEF sub, r, k
    <3>4. (sub.ok = TRUE /\ sub.val \in Seq(Drafts)) \/ sub.ok = FALSE
      BY <3>3, ResultCases
    <3>5. sub.ok = TRUE => list \o Structural(sub.val) \in Seq(Drafts)
      <4>. SUFFICES ASSUME sub.ok = TRUE PROVE list \o Structural(sub.val) \in Seq(Drafts)
        OBVIOUS
      <4>1. Structural(sub.val) \in Seq(Drafts)
        BY <3>4, StructuralList
      <4>. QED BY <4>1
    <3>6. r \in Results
      BY <3>2, <3>3, <3>4, <3>5 DEF Results
    <3>. QED BY <1>2, <2>4, <3>2, <3>4, <3>6 DEF RegionIs, r, sub
  <2>. QED BY <2>3, <2>4
<1>. QED BY <1>1, <1>2

-----------------------------------------------------------------------------
(* chunk_structural, region by region.                                     *)

\* The ends of the regions increase up to the end of the data.
EndsOk(ends, n) ==
    /\ ends \in Seq(Nat) /\ n \in Nat
    /\ ends # <<>> /\ ends[Len(ends)] = n
    /\ \A i \in 1 .. Len(ends) :
            /\ RegionStart(ends, i) \in Nat /\ ends[i] \in Nat
            /\ RegionStart(ends, i) < ends[i] /\ ends[i] <= n
            /\ i > 1 => RegionStart(ends, i) = ends[i - 1]
            /\ i = 1 => RegionStart(ends, i) = 0

\* What validate_boundary_ends accepted.
LEMMA EndsAreOk ==
    ASSUME NEW ends \in Seq(Nat), NEW n \in Nat, BoundaryEndsValid(ends, n)
    PROVE  EndsOk(ends, n)
<1>1. ASSUME NEW i \in 1 .. Len(ends)
      PROVE  /\ RegionStart(ends, i) \in Nat /\ ends[i] \in Nat
             /\ RegionStart(ends, i) < ends[i] /\ ends[i] <= n
             /\ i > 1 => RegionStart(ends, i) = ends[i - 1]
             /\ i = 1 => RegionStart(ends, i) = 0
  <2>1. ends[i] \in Nat /\ (i # 1 => ends[i - 1] \in Nat)
    OBVIOUS
  <2>2. ends[i] > RegionStart(ends, i) /\ ends[i] <= n
    BY DEF BoundaryEndsValid, RegionStart
  <2>. QED BY <2>1, <2>2 DEF RegionStart
<1>. QED BY <1>1 DEF EndsOk, BoundaryEndsValid

\* One region more.
RegionStep(prior, i, D, ends, origin, c) ==
    AndThen(prior, LAMBDA list :
        StructuralRegion(list, D, RegionStart(ends, i), ends[i], origin, c))

\* The fold over all regions.
RegionsFrom(list, D, ends, origin, c) ==
    FoldLeftDomain(LAMBDA prior, i : RegionStep(prior, i, D, ends, origin, c), Ok(list), ends)
AllRegions(D, ends, origin, c) == RegionsFrom(<<>>, D, ends, origin, c)

\* The equation of the fold over the regions.
RegionsEq(D, ends, origin, c, h) ==
    h = [t \in SUBSET DOMAIN [j \in DOMAIN ends |-> j] |->
            IF t = {} THEN Ok(<<>>)
            ELSE RegionStep(h[t \ {Max(t)}], [j \in DOMAIN ends |-> j][Max(t)], D, ends, origin, c)]

NextRegion(r, prior, i, D, ends, origin, c) ==
    /\ r \in Results
    /\ prior.ok = FALSE => r = prior
    /\ prior.ok = TRUE =>
            RegionIs(r, prior.val, D, RegionStart(ends, i), ends[i], origin, c)

LEMMA RegionStepIs ==
    ASSUME NEW prior \in Results, NEW D \in Seq(Nat), NEW ends, EndsOk(ends, Len(D)),
           NEW i \in 1 .. Len(ends), NEW origin \in Origins, NEW c \in Configs
    PROVE  NextRegion(RegionStep(prior, i, D, ends, origin, c), prior, i, D, ends, origin, c)
<1>. DEFINE r == RegionStep(prior, i, D, ends, origin, c)
<1>1. CASE prior.ok = FALSE
  <2>1. r = prior
    BY <1>1 DEF RegionStep, AndThen
  <2>. HIDE DEF r
  <2>. QED BY <1>1, <2>1 DEF NextRegion, r
<1>2. CASE prior.ok = TRUE /\ prior.val \in Seq(Drafts)
  <2>. DEFINE list == prior.val
              a == RegionStart(ends, i)
              b == ends[i]
  <2>1. r = StructuralRegion(list, D, a, b, origin, c)
    BY <1>2 DEF RegionStep, AndThen
  <2>2. a \in Nat /\ b \in Nat /\ a < b /\ b <= Len(D) /\ list \in Seq(Drafts)
    BY <1>2 DEF EndsOk
  <2>. HIDE DEF list, a, b, r
  <2>3. RegionIs(r, list, D, a, b, origin, c)
    BY <2>1, <2>2, StructuralRegionIs
  <2>4. r \in Results
    BY <2>3 DEF RegionIs
  <2>. QED BY <1>2, <2>3, <2>4 DEF NextRegion, list, a, b, r
<1>. QED BY <1>1, <1>2, ResultCases

\* chunk_structural, region by region.
RegionsTrace(D, ends, origin, c, G) ==
    /\ G \in [0 .. Len(ends) -> Results] /\ G[0] = Ok(<<>>)
    /\ G[Len(ends)] = AllRegions(D, ends, origin, c)
    /\ \A i \in 1 .. Len(ends) : NextRegion(G[i], G[i - 1], i, D, ends, origin, c)

LEMMA RegionsTraceExists ==
    ASSUME NEW D \in Seq(Nat), NEW ends, EndsOk(ends, Len(D)),
           NEW origin \in Origins, NEW c \in Configs
    PROVE  \E G : RegionsTrace(D, ends, origin, c, G)
<1>. DEFINE n == Len(ends)
            A == Results
            base == Ok(<<>>)
            Step(a, i) == RegionStep(a, i, D, ends, origin, c)
            step == [p \in A \X (1 .. n) |-> Step(p[1], p[2])]
            F == CHOOSE h : RegionsEq(D, ends, origin, c, h)
            all == AllRegions(D, ends, origin, c)
<1>1. /\ DOMAIN ends = 1 .. n /\ n \in Nat /\ ends \in Seq(Nat)
      /\ DOMAIN [j \in DOMAIN ends |-> j] = 1 .. n
  BY DEF EndsOk
<1>2. all = F[1 .. n]
  <2>1. all = F[DOMAIN [j \in DOMAIN ends |-> j]]
    BY DEF AllRegions, RegionsFrom, FoldLeftDomain, FoldLeft, MapThenFoldSet, RegionsEq
  <2>. QED BY <1>1, <2>1
<1>3. \A a \in A, i \in 1 .. n : Step(a, i) \in A
  BY RegionStepIs DEF NextRegion
<1>4. base \in A
  <2>1. <<>> \in Seq(Drafts)
    OBVIOUS
  <2>. QED BY <2>1 DEF Results
<1>. HIDE DEF n, all, A, base
<1>5. step \in [A \X (1 .. n) -> A]
  <2>. HIDE DEF Step
  <2>. QED BY <1>3
<1>6. PICK h \in [SUBSET (1 .. n) -> A] : FoldEq(n, base, step, h)
  <2>. HIDE DEF step
  <2>. QED BY <1>1, <1>4, <1>5, FoldExists
<1>. DEFINE body(f, t) == IF t = {} THEN base ELSE Step(f[t \ {Max(t)}], Max(t))
            body2(f, t) == IF t = {} THEN base
                           ELSE Step(f[t \ {Max(t)}], [j \in DOMAIN ends |-> j][Max(t)])
<1>7. ASSUME NEW t \in SUBSET (1 .. n) PROVE h[t] = body(h, t)
  <2>1. CASE t = {}
    BY <1>6, <2>1 DEF FoldEq
  <2>2. CASE t # {}
    <3>1. Max(t) \in 1 .. n /\ t \ {Max(t)} \in SUBSET (1 .. n)
      BY <1>1, <2>2, MaxMember
    <3>2. h[t] = step[<<h[t \ {Max(t)}], Max(t)>>]
      <4>. HIDE DEF step
      <4>. QED BY <1>6, <2>2 DEF FoldEq
    <3>3. <<h[t \ {Max(t)}], Max(t)>> \in A \X (1 .. n)
      BY <3>1
    <3>. HIDE DEF Step
    <3>. QED BY <2>2, <3>2, <3>3
  <2>. QED BY <2>1, <2>2
<1>8. RegionsEq(D, ends, origin, c, h)
  <2>1. h = [t \in SUBSET (1 .. n) |-> body(h, t)]
    <3>. HIDE DEF body
    <3>. QED BY <1>7
  <2>2. \A t \in SUBSET (1 .. n) : body(h, t) = body2(h, t)
    <3>. TAKE t \in SUBSET (1 .. n)
    <3>1. CASE t = {}
      BY <3>1
    <3>2. CASE t # {}
      <4>1. Max(t) \in 1 .. n
        BY <1>1, <3>2, MaxMember
      <4>2. [j \in DOMAIN ends |-> j][Max(t)] = Max(t)
        BY <1>1, <4>1
      <4>. QED BY <3>2, <4>2
    <3>. QED BY <3>1, <3>2
  <2>3. h = [t \in SUBSET (1 .. n) |-> body2(h, t)]
    <3>. HIDE DEF body, body2
    <3>. QED BY <2>1, <2>2
  <2>. QED BY <1>1, <2>3 DEF RegionsEq, base
<1>9. RegionsEq(D, ends, origin, c, F)
  <2>. HIDE DEF RegionsEq
  <2>. QED BY <1>8
<1>. HIDE DEF F
<1>10. ASSUME NEW t \in SUBSET (1 .. n) PROVE F[t] = body(F, t)
  <2>1. F = [u \in SUBSET (1 .. n) |-> body2(F, u)]
    BY <1>1, <1>9 DEF RegionsEq, base
  <2>2. F[t] = body2(F, t)
    <3>. HIDE DEF body2
    <3>. QED BY <2>1
  <2>3. CASE t = {}
    BY <2>2, <2>3
  <2>4. CASE t # {}
    <3>1. Max(t) \in 1 .. n
      BY <1>1, <2>4, MaxMember
    <3>2. [j \in DOMAIN ends |-> j][Max(t)] = Max(t)
      BY <1>1, <3>1
    <3>. QED BY <2>2, <2>4, <3>2
  <2>. QED BY <2>3, <2>4
<1>11. F[1 .. 0] = base
  <2>1. 1 .. 0 = {} /\ {} \in SUBSET (1 .. n)
    OBVIOUS
  <2>. QED BY <1>10, <2>1
<1>12. ASSUME NEW i \in 1 .. n PROVE F[1 .. i] = Step(F[1 .. (i - 1)], i)
  <2>1. i \in 1 .. i /\ 1 .. i \in SUBSET (1 .. n) /\ (1 .. i) \ {i} = 1 .. (i - 1)
    BY <1>1
  <2>3. 1 .. i # {}
    BY <2>1
  <2>2. Max(1 .. i) = i
    <3>1. i \in Nat
      BY <1>1
    <3>. QED BY <2>1, <3>1, MaxIsLast
  <2>. HIDE DEF Step
  <2>. QED BY <1>10, <2>1, <2>2, <2>3
<1>. DEFINE S == {i \in 0 .. n : F[1 .. i] \in A}
<1>13. 0 .. n \subseteq S
  <2>1. 0 \in S
    <3>1. 0 \in 0 .. n
      BY <1>1
    <3>. QED BY <1>4, <1>11, <3>1
  <2>2. ASSUME NEW i \in 1 .. n, i - 1 \in S PROVE i \in S
    <3>1. F[1 .. (i - 1)] \in A /\ i \in 0 .. n
      BY <1>1, <2>2
    <3>2. F[1 .. i] \in A
      <4>. HIDE DEF Step
      <4>. QED BY <1>3, <1>12, <3>1
    <3>. QED BY <3>1, <3>2
  <2>. HIDE DEF S
  <2>. QED BY <1>1, <2>1, <2>2, UpTo
<1>. DEFINE g == [i \in 0 .. n |-> F[1 .. i]]
<1>14. g \in [0 .. n -> A]
  BY <1>13
<1>15. /\ g[0] = base /\ g[n] = all
       /\ \A i \in 1 .. n : g[i] = Step(g[i - 1], i)
  <2>1. 0 \in 0 .. n /\ n \in 0 .. n /\ \A i \in 1 .. n : i \in 0 .. n /\ i - 1 \in 0 .. n
    BY <1>1
  <2>. HIDE DEF Step
  <2>. QED BY <1>1, <1>2, <1>11, <1>12, <2>1
<1>16. \A i \in 1 .. n : NextRegion(g[i], g[i - 1], i, D, ends, origin, c)
  <2>. TAKE i \in 1 .. n
  <2>. DEFINE prior == g[i - 1]
  <2>1. prior \in Results /\ i \in 1 .. Len(ends) /\ g[i] = Step(prior, i)
    <3>1. i - 1 \in 0 .. n
      BY <1>1
    <3>. HIDE DEF g, Step
    <3>. QED BY <1>14, <1>15, <3>1 DEF n, A
  <2>. HIDE DEF prior, g
  <2>2. NextRegion(RegionStep(prior, i, D, ends, origin, c), prior, i, D, ends, origin, c)
    BY <2>1, RegionStepIs
  <2>. QED BY <2>1, <2>2 DEF prior
<1>17. RegionsTrace(D, ends, origin, c, g)
  <2>. HIDE DEF g
  <2>. QED BY <1>14, <1>15, <1>16 DEF n, A, base, all, RegionsTrace
<1>. QED BY <1>17, Zenon

\* Once a region was refused there is no result.
LEMMA RegionErrorsStay ==
    ASSUME NEW D, NEW ends, NEW origin, NEW c, NEW G, RegionsTrace(D, ends, origin, c, G),
           Len(ends) \in Nat, NEW i \in 0 .. Len(ends), G[i].ok = FALSE
    PROVE  G[Len(ends)].ok = FALSE
<1>. DEFINE m == Len(ends)
            S == {j \in 0 .. m : j >= i => G[j].ok = FALSE}
<1>2. 0 \in S
  OBVIOUS
<1>3. ASSUME NEW j \in 1 .. m, j - 1 \in S PROVE j \in S
  <2>1. j \in 0 .. m
    OBVIOUS
  <2>2. CASE j - 1 >= i
    BY <1>3, <2>1, <2>2 DEF RegionsTrace, NextRegion
  <2>3. CASE ~(j - 1 >= i)
    <3>1. j >= i => j = i
      BY <2>3
    <3>. QED BY <2>1, <3>1
  <2>. QED BY <2>2, <2>3
<1>4. 0 .. m \subseteq S
  <2>. HIDE DEF S
  <2>. QED BY <1>2, <1>3, UpTo
<1>5. m \in S /\ m >= i
  <2>. HIDE DEF S
  <2>. QED BY <1>4
<1>. QED BY <1>5

-----------------------------------------------------------------------------
(* chunk_structural and its checks.                                        *)

\* What chunk_structural asks before it begins.
Admits(D, ends, origin, c) ==
    /\ Fits(Len(D), origin, c)
    /\ D = <<>> => ends = <<>>
    /\ D # <<>> => (Len(ends) <= c.chunks /\ BoundaryEndsValid(ends, Len(D)))

StructuralResult(D, ends, origin, c) ==
    LET all == AllRegions(D, ends, origin, c)
    IN  IF all.ok THEN ValidateChunkCoverage(all.val, origin, Len(D)) ELSE all

\* Two checks on the ends.
LEMMA EndsChecked ==
    ASSUME NEW ends \in Seq(Nat), NEW n \in Nat, NEW c \in Configs
    PROVE  \E a, b \in BOOLEAN : \E e, f \in Errors :
              /\ (Len(ends) <= c.chunks /\ BoundaryEndsValid(ends, n)) <=> (a /\ b)
              /\ <<CountCheck(Len(ends), c.chunks),
                   <<BoundaryEndsValid(ends, n), "structural boundaries">>>>
                 = <<<<a, e>>, <<b, f>>>>
<1>. DEFINE u == Len(ends)
            w == c.chunks
            v == BoundaryEndsValid(ends, n)
<1>1. PICK e \in Errors, f \in Errors : e = "chunk count" /\ f = "structural boundaries"
  BY DEF Errors
<1>2. PICK a \in BOOLEAN : a = (u <= w)
  <2>1. (u <= w) \in BOOLEAN
    OBVIOUS
  <2>. QED BY <2>1, Zenon
<1>3. PICK b \in BOOLEAN : b = v
  <2>1. v \in BOOLEAN
    BY Zenon DEF BoundaryEndsValid
  <2>. QED BY <2>1, Zenon
<1>4. <<CountCheck(u, w), <<v, "structural boundaries">>>> = <<<<a, e>>, <<b, f>>>>
  <2>. HIDE DEF u, w, v
  <2>1. CountCheck(u, w) = <<u <= w, "chunk count">>
    BY DEF CountCheck
  <2>. QED BY <1>1, <1>2, <1>3, <2>1, Zenon
<1>5. (u <= w /\ v) <=> (a /\ b)
  <2>. HIDE DEF u, w, v
  <2>. QED BY <1>2, <1>3
<1>. QED BY <1>4, <1>5

\* chunk_structural as a case distinction.
LEMMA StructuralIs ==
    ASSUME NEW D \in Seq(Nat), NEW ends \in Seq(Nat), NEW origin \in Origins, NEW c \in Configs
    PROVE  LET r == ChunkStructural(D, ends, origin, c)
           IN  /\ ~Admits(D, ends, origin, c) => r.ok = FALSE
               /\ (Admits(D, ends, origin, c) /\ D = <<>>) => r = Ok(<<>>)
               /\ (Admits(D, ends, origin, c) /\ D # <<>>) =>
                        r = StructuralResult(D, ends, origin, c)
<1>. DEFINE r == ChunkStructural(D, ends, origin, c)
            n == Len(D)
            k == Checked(EntryChecks(n, origin, c), D)
            inner == IF k.val = <<>>
                     THEN Checked(<<<<ends = <<>>, "structural boundaries">>>>, <<>>)
                     ELSE LET q == Checked(<<CountCheck(Len(ends), c.chunks),
                                      <<BoundaryEndsValid(ends, Len(k.val)),
                                        "structural boundaries">>>>, <<>>)
                              all == RegionsFrom(q.val, k.val, ends, origin, c)
                          IN  IF q.ok THEN (IF all.ok
                                            THEN ValidateChunkCoverage(all.val, origin, Len(k.val))
                                            ELSE all)
                              ELSE q
<1>1. n \in Nat
  OBVIOUS
<1>2. r = IF k.ok THEN inner ELSE k
  BY DEF ChunkStructural, AndThen, RegionsFrom, RegionStep
<1>3. /\ Fits(n, origin, c) => k = Ok(D)
      /\ ~Fits(n, origin, c) => \E x \in Errors : k = Err(x)
  <2>. HIDE DEF n
  <2>. QED BY <1>1, EntryChecked
<1>4. CASE ~Fits(n, origin, c)
  <2>1. PICK x \in Errors : k = Err(x)
    BY <1>3, <1>4
  <2>2. r.ok = FALSE
    <3>. HIDE DEF r, k, inner
    <3>. QED BY <1>2, <2>1, OkIs
  <2>. HIDE DEF r
  <2>. QED BY <1>4, <2>2 DEF Admits, r, n
<1>5. CASE Fits(n, origin, c) /\ D = <<>>
  <2>1. k.ok /\ k.val = <<>>
    <3>. HIDE DEF k
    <3>. QED BY <1>3, <1>5, OkIs
  <2>2. r = Checked(<<<<ends = <<>>, "structural boundaries">>>>, <<>>)
    <3>. HIDE DEF r, k
    <3>. QED BY <1>2, <2>1
  <2>3. PICK e \in Errors : e = "structural boundaries"
    BY DEF Errors
  <2>4. PICK a \in BOOLEAN : a = (ends = <<>>)
    <3>1. (ends = <<>>) \in BOOLEAN
      OBVIOUS
    <3>. QED BY <3>1, Zenon
  <2>5. r = Checked(<<<<a, e>>>>, <<>>)
    <3>. HIDE DEF r
    <3>. QED BY <2>2, <2>3, <2>4, Zenon
  <2>6. /\ a => Checked(<<<<a, e>>>>, <<>>) = Ok(<<>>)
        /\ ~a => \E x \in Errors : Checked(<<<<a, e>>>>, <<>>) = Err(x)
    BY CheckedOne
  <2>. HIDE DEF r
  <2>7. (ends = <<>> => r = Ok(<<>>)) /\ (ends # <<>> => r.ok = FALSE)
    BY <2>4, <2>5, <2>6, OkIs
  <2>. QED BY <1>5, <2>7 DEF Admits, r
<1>6. CASE Fits(n, origin, c) /\ D # <<>>
  <2>1. k.ok /\ k.val = D
    <3>. HIDE DEF k
    <3>. QED BY <1>3, <1>6, OkIs
  <2>. DEFINE checks == <<CountCheck(Len(ends), c.chunks),
                          <<BoundaryEndsValid(ends, n), "structural boundaries">>>>
              q == Checked(checks, <<>>)
  <2>2. r = IF q.ok THEN LET all == RegionsFrom(q.val, D, ends, origin, c)
                         IN  IF all.ok THEN ValidateChunkCoverage(all.val, origin, n) ELSE all
            ELSE q
    <3>. HIDE DEF r, k
    <3>. QED BY <1>2, <1>6, <2>1, Zenon
  <2>3. PICK a \in BOOLEAN, b \in BOOLEAN, e \in Errors, f \in Errors :
              /\ (Len(ends) <= c.chunks /\ BoundaryEndsValid(ends, n)) <=> (a /\ b)
              /\ checks = <<<<a, e>>, <<b, f>>>>
    <3>. HIDE DEF n
    <3>. QED BY <1>1, EndsChecked
  <2>4. /\ (a /\ b) => Checked(<<<<a, e>>, <<b, f>>>>, <<>>) = Ok(<<>>)
        /\ ~(a /\ b) => \E x \in Errors : Checked(<<<<a, e>>, <<b, f>>>>, <<>>) = Err(x)
    BY CheckedTwo
  <2>5. /\ Admits(D, ends, origin, c) => q = Ok(<<>>)
        /\ ~Admits(D, ends, origin, c) => q.ok = FALSE
    <3>1. Admits(D, ends, origin, c) <=> (a /\ b)
      BY <1>6, <2>3 DEF Admits
    <3>2. q = Checked(<<<<a, e>>, <<b, f>>>>, <<>>)
      <4>. HIDE DEF checks
      <4>. QED BY <2>3, Zenon
    <3>. HIDE DEF q
    <3>. QED BY <2>4, <3>1, <3>2, OkIs
  <2>6. CASE ~Admits(D, ends, origin, c)
    <3>. HIDE DEF r, q
    <3>1. r = q
      BY <2>2, <2>5, <2>6
    <3>. QED BY <1>6, <2>5, <2>6, <3>1 DEF r
  <2>7. CASE Admits(D, ends, origin, c)
    <3>1. q.ok /\ q.val = <<>>
      <4>. HIDE DEF q
      <4>. QED BY <2>5, <2>7, OkIs
    <3>2. r = StructuralResult(D, ends, origin, c)
      <4>. HIDE DEF r, q
      <4>. QED BY <2>2, <3>1, Zenon DEF StructuralResult, AllRegions, n
    <3>. HIDE DEF r
    <3>. QED BY <1>6, <2>7, <3>2 DEF r
  <2>. QED BY <2>6, <2>7
<1>. QED BY <1>4, <1>5, <1>6

-----------------------------------------------------------------------------
(* The stream: its counters.                                               *)

\* The fields of a stream.
CdcRecords ==
    [origin : Origins, cfg : Configs, take : Nat, left : Nat, buf : Nat, eof : BOOLEAN,
     size : Nat, chunks : Seq(Drafts)]

\* A stream x over the data from `start` on, with the reader at p; T bytes may be taken.
CdcInv(x, p, data, start, T) ==
    /\ x \in CdcRecords /\ ConfigValid(x.cfg) /\ start \in Nat /\ T \in Nat
    /\ p = start + x.size + x.buf /\ p <= Len(data)
    /\ x.size + x.buf + x.left = x.cfg.bytes + 1
    /\ x.size + x.buf + x.take = T
    /\ x.size <= x.cfg.bytes /\ x.buf <= x.cfg.max
    /\ x.size > 0 => x.origin.base + x.size <= OffsetMax
    /\ x.eof => (p = Len(data) \/ x.left = 0 \/ x.take = 0)

\* n bytes from `start` on are what the stream is to deliver, and all of them fit.
GoodAt(x, data, start, T, n) ==
    /\ n \in Nat /\ Fits(n, x.origin, x.cfg) /\ start + n <= Len(data)
    /\ T = n \/ (start + n = Len(data) /\ T > n)

\* The stream has pushed what chunk_fastcdc has pushed when it is at the same place.
Traced(D, x) ==
    \E m, s, g : /\ CdcTrace(D, x.origin, x.cfg, m, s, g)
                 /\ \E i \in 0 .. m : s[i] = x.size /\ g[i] = Ok(x.chunks)

LEMMA CdcTypes ==
    ASSUME NEW x \in CdcRecords
    PROVE  /\ x.origin \in Origins /\ x.cfg \in Configs /\ x.take \in Nat /\ x.left \in Nat
           /\ x.buf \in Nat /\ x.eof \in BOOLEAN /\ x.size \in Nat /\ x.chunks \in Seq(Drafts)
           /\ x.cfg.max \in Nat /\ x.cfg.min \in Nat /\ x.cfg.bytes \in Nat /\ x.cfg.chunks \in Nat
           /\ x.origin.base \in Nat
BY DEF CdcRecords, Configs, Origins

\* The least of three.
LEMMA MinThree ==
    ASSUME NEW a \in Nat, NEW b \in Nat, NEW c \in Nat
    PROVE  LET m == Min({a, b, c})
           IN  m \in Nat /\ m <= a /\ m <= b /\ m <= c /\ (m = a \/ m = b \/ m = c)
<1>1. {a, b, c} \subseteq Nat /\ {a, b, c} # {}
  OBVIOUS
<1>2. Min({a, b, c}) \in {a, b, c} /\ \A y \in {a, b, c} : Min({a, b, c}) <= y
  BY <1>1, LeastMember
<1>. QED BY <1>2

\* What one read gives at p of the data when `want` bytes are asked for.
ReadOf(data, p, want) ==
    LET most == Min({want, Len(data) - p}) IN IF most = 0 THEN {0} ELSE 1 .. most

\* A read returns nothing only at the end, or when nothing is asked for.
LEMMA ReadIs ==
    ASSUME NEW data \in Seq(Nat), NEW p \in Nat, p <= Len(data), NEW want \in Nat,
           NEW n \in ReadOf(data, p, want)
    PROVE  /\ n \in Nat /\ n <= want /\ p + n <= Len(data)
           /\ n = 0 <=> (want = 0 \/ p = Len(data))
<1>. DEFINE left == Len(data) - p
            most == Min({want, left})
<1>1. left \in Nat /\ Len(data) \in Nat
  OBVIOUS
<1>2. most = IF want <= left THEN want ELSE left
  <2>. HIDE DEF left
  <2>. QED BY <1>1, MinTwo
<1>3. n \in IF most = 0 THEN {0} ELSE 1 .. most
  BY DEF ReadOf
<1>. HIDE DEF most
<1>. QED BY <1>1, <1>2, <1>3

\* The stream after a read of m bytes.
AfterRead(x, m) == [x EXCEPT !.buf = @ + m, !.left = @ - m, !.take = @ - m, !.eof = (m = 0)]

\* A read of n bytes is possible.
ReadAt(x, p, data, n) ==
    /\ ~x.eof /\ x.buf < x.cfg.max
    /\ n \in ReadOf(data, p, Min({x.left, x.cfg.max - x.buf, x.take}))

\* The stream is still one over the same data, with the same origin and limits.
Kept(x, y, p, data, start, T) ==
    CdcInv(y, p, data, start, T) /\ y.origin = x.origin /\ y.cfg = x.cfg

\* A read into the buffer keeps the relation between the counters.
LEMMA FillKeeps ==
    ASSUME NEW data \in Seq(Nat), NEW x, NEW p, NEW start, NEW T, CdcInv(x, p, data, start, T),
           NEW n, ReadAt(x, p, data, n)
    PROVE  /\ Kept(x, AfterRead(x, n), p + n, data, start, T)
           /\ AfterRead(x, n).size = x.size /\ AfterRead(x, n).chunks = x.chunks
<1>. DEFINE y == AfterRead(x, n)
            buf == x.buf
            max == x.cfg.max
            left == x.left
            take == x.take
            size == x.size
            bytes == x.cfg.bytes
            base == x.origin.base
            room == max - buf
            want == Min({left, room, take})
            N == Len(data)
<1>0. x \in CdcRecords /\ ConfigValid(x.cfg)
  BY DEF CdcInv
<1>1. /\ p = start + size + buf /\ p <= N /\ start \in Nat /\ T \in Nat
      /\ size + buf + left = bytes + 1 /\ size + buf + take = T
      /\ size <= bytes /\ buf < max
      /\ size > 0 => base + size <= OffsetMax
  BY DEF CdcInv, ReadAt
<1>2. /\ take \in Nat /\ left \in Nat /\ buf \in Nat /\ size \in Nat
      /\ max \in Nat /\ bytes \in Nat /\ base \in Nat
  BY <1>0, CdcTypes
<1>3. /\ y.buf = buf + n /\ y.left = left - n /\ y.take = take - n
      /\ y.eof = (n = 0) /\ y.size = size /\ y.chunks = x.chunks /\ y.origin = x.origin
      /\ y.cfg = x.cfg
  BY <1>0 DEF CdcRecords, AfterRead
<1>4. n \in ReadOf(data, p, want)
  BY DEF ReadAt
<1>5. (buf + n \in Nat /\ left - n \in Nat /\ take - n \in Nat) => y \in CdcRecords
  BY <1>0 DEF CdcRecords, AfterRead
<1>6. N \in Nat
  OBVIOUS
<1>. HIDE DEF y, buf, max, left, take, size, bytes, base, N
<1>7. room \in Nat /\ room > 0 /\ p \in Nat
  BY <1>1, <1>2
<1>8. /\ want \in Nat /\ want <= left /\ want <= room /\ want <= take
      /\ (want = left \/ want = room \/ want = take)
  <2>. HIDE DEF room
  <2>. QED BY <1>2, <1>7, MinThree
<1>. HIDE DEF want
<1>9. /\ n \in Nat /\ n <= want /\ p + n <= N
      /\ n = 0 <=> (want = 0 \/ p = N)
  <2>1. p <= Len(data)
    BY <1>1 DEF N
  <2>. QED BY <1>4, <1>7, <1>8, <2>1, ReadIs DEF N
<1>10. buf + n \in Nat /\ left - n \in Nat /\ take - n \in Nat /\ buf + n <= max
  BY <1>2, <1>7, <1>8, <1>9
<1>11. p + n = start + size + (buf + n) /\ size + (buf + n) + (left - n) = bytes + 1
       /\ size + (buf + n) + (take - n) = T
  BY <1>1, <1>2, <1>9
<1>12. n = 0 => (p + n = N \/ left - n = 0 \/ take - n = 0)
  BY <1>2, <1>6, <1>7, <1>8, <1>9
<1>13. y \in CdcRecords
  BY <1>5, <1>10
<1>14. CdcInv(y, p + n, data, start, T)
  <2>1. y.cfg.max = max /\ y.cfg.bytes = bytes /\ y.origin.base = base
    BY <1>3 DEF max, bytes, base
  <2>2. y.eof => (p + n = Len(data) \/ y.left = 0 \/ y.take = 0)
    BY <1>3, <1>12 DEF N
  <2>3. p + n <= Len(data) /\ ConfigValid(y.cfg)
    BY <1>0, <1>3, <1>9 DEF N
  <2>. QED BY <1>1, <1>3, <1>10, <1>11, <1>13, <2>1, <2>2, <2>3 DEF CdcInv
<1>. QED BY <1>3, <1>14 DEF y, size, Kept

-----------------------------------------------------------------------------
(* The stream: the next chunk.                                             *)

\* What push_relative_chunk answers.
PushIs(r, list, origin, rel, len, method, limit) ==
    LET fits == Len(list) + 1 <= limit /\ len # 0 /\ origin.base + rel + len <= OffsetMax
    IN  /\ r \in Results
        /\ fits => r = Ok(Append(list, Draft(origin, rel, len, method)))
        /\ ~fits => r.ok = FALSE

LEMMA PushAnswers ==
    ASSUME NEW list \in Seq(Drafts), NEW origin \in Origins, NEW rel \in Nat, NEW len \in Nat,
           NEW method \in Methods, NEW limit
    PROVE  PushIs(PushRelativeChunk(list, origin, rel, len, method, limit),
                  list, origin, rel, len, method, limit)
<1>. DEFINE r == PushRelativeChunk(list, origin, rel, len, method, limit)
<1>1. /\ r \in Results
      /\ (Len(list) + 1 <= limit /\ len # 0 /\ origin.base + rel + len <= OffsetMax) =>
            r = Ok(Append(list, Draft(origin, rel, len, method)))
      /\ ~(Len(list) + 1 <= limit /\ len # 0 /\ origin.base + rel + len <= OffsetMax) =>
            r.ok = FALSE
  BY PushRelativeIs, ZenonT(40)
<1>. HIDE DEF r
<1>2. PushIs(r, list, origin, rel, len, method, limit)
  BY <1>1, Zenon DEF PushIs
<1>. QED BY <1>2 DEF r

\* The buffer B holds the data D from o on, to its end or as far as a chunk goes.
Buffered(B, D, o, c) ==
    /\ D \in Seq(Nat) /\ B \in Seq(Nat) /\ o \in Nat /\ CutOk(c) /\ Len(B) > 0
    /\ o + Len(B) <= Len(D) /\ \A i \in 1 .. Len(B) : B[i] = D[o + i]
    /\ o + Len(B) = Len(D) \/ Len(B) = c.max

\* A cut of such a buffer is a cut of the data.
LEMMA CutOfBuffered ==
    ASSUME NEW B, NEW D, NEW o, NEW c, Buffered(B, D, o, c)
    PROVE  Cut(B, 0, c) = Cut(D, o, c)
<1>1. /\ D \in Seq(Nat) /\ B \in Seq(Nat) /\ o \in Nat /\ CutOk(c) /\ Len(B) > 0
      /\ o + Len(B) <= Len(D) /\ \A i \in 1 .. Len(B) : B[i] = D[o + i]
      /\ o + Len(B) = Len(D) \/ Len(B) = c.max
  BY DEF Buffered
<1>. QED BY <1>1, CutOnBuffer

\* What NextChunk pushes.
NextPush(x, len) ==
    AndThen(Checked(<<SizeCheck(x.size + len, x.cfg)>>, len), LAMBDA n :
        PushRelativeChunk(x.chunks, x.origin, x.size, n, "FastCdc", x.cfg.chunks))

\* The next chunk: the limit on bytes first, then push_relative_chunk.
LEMMA NextPushIs ==
    ASSUME NEW x \in CdcRecords, NEW len \in Nat
    PROVE  /\ NextPush(x, len) \in Results
           /\ x.size + len <= x.cfg.bytes => NextPush(x, len) =
                PushRelativeChunk(x.chunks, x.origin, x.size, len, "FastCdc", x.cfg.chunks)
           /\ ~(x.size + len <= x.cfg.bytes) => NextPush(x, len).ok = FALSE
           /\ NextPush(x, len).ok = TRUE =>
                (len # 0 /\ x.origin.base + x.size + len <= OffsetMax)
<1>. DEFINE r == NextPush(x, len)
            k == Checked(<<SizeCheck(x.size + len, x.cfg)>>, len)
            p == PushRelativeChunk(x.chunks, x.origin, x.size, len, "FastCdc", x.cfg.chunks)
            u == x.size + len
            w == x.cfg.bytes
<1>1. PICK e \in Errors : e = "logical bytes"
  BY DEF Errors
<1>2. PICK a \in BOOLEAN : a = (u <= w)
  <2>1. (u <= w) \in BOOLEAN
    OBVIOUS
  <2>. QED BY <2>1, Zenon
<1>3. k = Checked(<<<<a, e>>>>, len)
  <2>1. k = Checked(<<<<u <= w, "logical bytes">>>>, len)
    BY Zenon DEF SizeCheck
  <2>. HIDE DEF k, u, w
  <2>. QED BY <1>1, <1>2, <2>1, Zenon
<1>4. /\ a => Checked(<<<<a, e>>>>, len) = Ok(len)
      /\ ~a => \E y \in Errors : Checked(<<<<a, e>>>>, len) = Err(y)
  BY CheckedOne
<1>5. r = IF k.ok THEN PushRelativeChunk(x.chunks, x.origin, x.size, k.val, "FastCdc", x.cfg.chunks)
          ELSE k
  BY DEF NextPush, AndThen
<1>. HIDE DEF k, r, u, w
<1>6. (u <= w) => r = p
  <2>. HIDE DEF p
  <2>. SUFFICES ASSUME u <= w PROVE r = p
    OBVIOUS
  <2>1. k = Ok(len)
    BY <1>2, <1>3, <1>4
  <2>2. k.ok /\ k.val = len
    BY <2>1, OkIs
  <2>. QED BY <1>5, <2>2 DEF p
<1>7. ~(u <= w) => \E y \in Errors : r = Err(y)
  <2>. SUFFICES ASSUME ~(u <= w) PROVE \E y \in Errors : r = Err(y)
    OBVIOUS
  <2>1. PICK y \in Errors : k = Err(y)
    BY <1>2, <1>3, <1>4
  <2>2. ~k.ok
    BY <2>1, OkIs
  <2>. QED BY <1>5, <2>1, <2>2
<1>8. /\ p \in Results
      /\ ~(len # 0 /\ x.origin.base + x.size + len <= OffsetMax) => p.ok = FALSE
  <2>. DEFINE list == x.chunks
              origin == x.origin
              size == x.size
              limit == x.cfg.chunks
  <2>1. list \in Seq(Drafts) /\ origin \in Origins /\ size \in Nat
    BY CdcTypes
  <2>2. "FastCdc" \in Methods
    BY DEF Methods
  <2>. HIDE DEF list, origin, size, limit
  <2>3. \A m \in Methods :
            PushIs(PushRelativeChunk(list, origin, size, len, m, limit),
                   list, origin, size, len, m, limit)
    BY <2>1, PushAnswers
  <2>4. PushIs(PushRelativeChunk(list, origin, size, len, "FastCdc", limit),
               list, origin, size, len, "FastCdc", limit)
    BY <2>2, <2>3
  <2>5. /\ PushRelativeChunk(list, origin, size, len, "FastCdc", limit) \in Results
        /\ ~(len # 0 /\ origin.base + size + len <= OffsetMax) =>
            PushRelativeChunk(list, origin, size, len, "FastCdc", limit).ok = FALSE
    BY <2>4, Zenon DEF PushIs
  <2>. QED BY <2>5 DEF list, origin, size, limit
<1>9. r \in Results
  BY <1>6, <1>7, <1>8, ResultsAre
<1>10. ~(u <= w) => r.ok = FALSE
  BY <1>7, OkIs
<1>. HIDE DEF p
<1>11. r.ok = TRUE => (len # 0 /\ x.origin.base + x.size + len <= OffsetMax)
  BY <1>6, <1>8, <1>10
<1>. QED BY <1>6, <1>9, <1>10, <1>11 DEF r, p, u, w

\* Where the stream is within what it is to deliver.
LEMMA WithinGood ==
    ASSUME NEW data \in Seq(Nat), NEW x, NEW p, NEW start, NEW T, CdcInv(x, p, data, start, T),
           NEW n, GoodAt(x, data, start, T, n)
    PROVE  /\ x.size + x.buf <= n /\ n <= x.cfg.bytes /\ n \in Nat
           /\ x.eof => x.size + x.buf = n
<1>. DEFINE buf == x.buf
            left == x.left
            take == x.take
            size == x.size
            bytes == x.cfg.bytes
            N == Len(data)
<1>0. x \in CdcRecords
  BY DEF CdcInv
<1>1. /\ p = start + size + buf /\ p <= N /\ start \in Nat /\ T \in Nat
      /\ size + buf + left = bytes + 1 /\ size + buf + take = T
      /\ x.eof => (p = N \/ left = 0 \/ take = 0)
  BY DEF CdcInv
<1>2. take \in Nat /\ left \in Nat /\ buf \in Nat /\ size \in Nat /\ bytes \in Nat /\ N \in Nat
  BY <1>0, CdcTypes
<1>3. n \in Nat /\ n <= bytes /\ start + n <= N /\ (T = n \/ (start + n = N /\ T > n))
  BY DEF GoodAt, Fits
<1>. HIDE DEF buf, left, take, size, bytes, N
<1>4. size + buf <= n
  BY <1>1, <1>2, <1>3
<1>5. x.eof => size + buf = n
  BY <1>1, <1>2, <1>3, <1>4
<1>. QED BY <1>3, <1>4, <1>5 DEF buf, size, bytes

\* What the buffer holds, and the part of the data a stream is about.
Buffer(data, p, buf) == SubSeq(data, p - buf + 1, p)
Object(data, start, n) == SubSeq(data, start + 1, start + n)

LEMMA ObjectIs ==
    ASSUME NEW data \in Seq(Nat), NEW start \in Nat, NEW n \in Nat, start + n <= Len(data)
    PROVE  /\ Object(data, start, n) \in Seq(Nat) /\ Len(Object(data, start, n)) = n
           /\ \A i \in 1 .. n : Object(data, start, n)[i] = data[start + i]
<1>1. (start + n) - (start + 1) + 1 = n
  OBVIOUS
<1>2. \A i \in 1 .. n : i + (start + 1) - 1 = start + i
  OBVIOUS
<1>. QED BY <1>1, <1>2 DEF Object

\* The next cut in the buffer.
LEMMA BufferCut ==
    ASSUME NEW data \in Seq(Nat), NEW x, NEW p, NEW start, NEW T, CdcInv(x, p, data, start, T),
           x.buf > 0
    PROVE  /\ Cut(Buffer(data, p, x.buf), 0, x.cfg) \in 1 .. x.buf
           /\ \A n : (GoodAt(x, data, start, T, n) /\ (x.eof \/ ~(x.buf < x.cfg.max))) =>
                Cut(Buffer(data, p, x.buf), 0, x.cfg) =
                    Cut(Object(data, start, n), x.size, x.cfg)
<1>. DEFINE buf == x.buf
            size == x.size
            c == x.cfg
            max == x.cfg.max
            B == Buffer(data, p, buf)
<1>0. x \in CdcRecords /\ CutOk(c)
  BY CdcTypes, ValidCuts DEF CdcInv
<1>1. p = start + size + buf /\ p <= Len(data) /\ start \in Nat /\ buf <= max
  BY DEF CdcInv
<1>2. buf \in Nat /\ buf > 0 /\ size \in Nat /\ Len(data) \in Nat /\ max \in Nat
  BY <1>0, CdcTypes
<1>. HIDE DEF buf, size, c, max
<1>3. B = Object(data, start + size, buf)
  <2>1. p - buf + 1 = (start + size) + 1 /\ p = (start + size) + buf
    BY <1>1, <1>2
  <2>. QED BY <2>1, Zenon DEF Buffer, Object
<1>4. B \in Seq(Nat) /\ Len(B) = buf /\ \A i \in 1 .. buf : B[i] = data[(start + size) + i]
  <2>1. start + size \in Nat /\ (start + size) + buf <= Len(data)
    BY <1>1, <1>2
  <2>. HIDE DEF B
  <2>. QED BY <1>2, <1>3, <2>1, ObjectIs
<1>. HIDE DEF B
<1>5. Cut(B, 0, c) \in 1 .. buf
  <2>1. 0 \in 0 .. Len(B) /\ 0 < Len(B) /\ Len(B) - 0 = buf
    BY <1>2, <1>4
  <2>2. Cut(B, 0, c) \in 1 .. (Len(B) - 0)
    BY <1>0, <1>4, <2>1, CutRange
  <2>. QED BY <2>1, <2>2
<1>6. ASSUME NEW n, GoodAt(x, data, start, T, n), x.eof \/ ~(x.buf < x.cfg.max)
      PROVE  Cut(B, 0, c) = Cut(Object(data, start, n), size, c)
  <2>. DEFINE D == Object(data, start, n)
  <2>1. size + buf <= n /\ n \in Nat /\ (x.eof => size + buf = n)
    BY <1>6, WithinGood DEF size, buf
  <2>2. start + n <= Len(data)
    BY <1>6 DEF GoodAt
  <2>3. D \in Seq(Nat) /\ Len(D) = n /\ \A i \in 1 .. n : D[i] = data[start + i]
    BY <1>1, <2>1, <2>2, ObjectIs
  <2>. HIDE DEF D
  <2>4. \A i \in 1 .. Len(B) : B[i] = D[size + i]
    <3>. TAKE i \in 1 .. Len(B)
    <3>1. i \in 1 .. buf /\ size + i \in 1 .. n /\ start + (size + i) = (start + size) + i
      BY <1>1, <1>2, <1>4, <2>1
    <3>. QED BY <1>4, <2>3, <3>1
  <2>5. size + Len(B) = Len(D) \/ Len(B) = c.max
    <3>1. c.max = max /\ (x.eof \/ ~(buf < max))
      BY <1>6 DEF c, max, buf
    <3>2. x.eof \/ buf = max
      BY <1>1, <1>2, <3>1
    <3>. QED BY <1>4, <2>1, <2>3, <3>1, <3>2
  <2>6. size + Len(B) <= Len(D) /\ Len(B) > 0
    BY <1>2, <1>4, <2>1, <2>3
  <2>7. Cut(B, 0, c) = Cut(D, size, c)
    <3>1. Buffered(B, D, size, c)
      BY <1>0, <1>2, <1>4, <2>3, <2>4, <2>5, <2>6 DEF Buffered
    <3>. QED BY <3>1, CutOfBuffered
  <2>. QED BY <2>7 DEF D
<1>. QED BY <1>5, <1>6 DEF B, buf, size, c

-----------------------------------------------------------------------------
(* The stream against chunk_fastcdc.                                       *)

\* The trace goes on after i chunks.
TraceNext(D, origin, c, m, s, g, i) ==
    /\ i + 1 \in 0 .. m /\ s[i + 1] = s[i] + Cut(D, s[i], c)
    /\ g[i].ok = TRUE => g[i + 1] =
        PushRelativeChunk(g[i].val, origin, s[i], Cut(D, s[i], c), "FastCdc", c.chunks)

\* A trace that is not at the end of the data has a next chunk.
LEMMA TraceStep ==
    ASSUME NEW D \in Seq(Nat), NEW origin, NEW c, NEW m, NEW s, NEW g,
           CdcTrace(D, origin, c, m, s, g), NEW i \in 0 .. m, s[i] < Len(D)
    PROVE  TraceNext(D, origin, c, m, s, g, i)
<1>1. m \in Nat /\ s[m] = Len(D) /\ Len(D) \in Nat
  BY DEF CdcTrace
<1>2. i # m
  BY <1>1
<1>3. i + 1 \in 1 .. m /\ i + 1 \in 0 .. m /\ (i + 1) - 1 = i
  BY <1>1, <1>2
<1>4. \A j \in 1 .. m : 
          /\ s[j] = s[j - 1] + Cut(D, s[j - 1], c)
          /\ g[j - 1].ok = TRUE => g[j] = PushRelativeChunk(g[j - 1].val, origin, s[j - 1],
                                             Cut(D, s[j - 1], c), "FastCdc", c.chunks)
  BY DEF CdcTrace
<1>7. s[i + 1] = s[(i + 1) - 1] + Cut(D, s[(i + 1) - 1], c)
  BY <1>3, <1>4, Zenon
<1>8. g[(i + 1) - 1].ok = TRUE => g[i + 1] = PushRelativeChunk(g[(i + 1) - 1].val, origin, s[(i + 1) - 1],
                                             Cut(D, s[(i + 1) - 1], c), "FastCdc", c.chunks)
  BY <1>3, <1>4, Zenon
<1>9. /\ s[i + 1] = s[i] + Cut(D, s[i], c)
      /\ g[i].ok = TRUE => g[i + 1] =
                PushRelativeChunk(g[i].val, origin, s[i], Cut(D, s[i], c), "FastCdc", c.chunks)
  BY <1>3, <1>7, <1>8, Zenon
<1>. QED BY <1>3, <1>9 DEF TraceNext

\* The stream after a chunk of len bytes.
AfterChunk(x, len, list) == [x EXCEPT !.buf = @ - len, !.size = @ + len, !.chunks = list]

LEMMA AfterChunkIs ==
    ASSUME NEW x \in CdcRecords, NEW len \in Nat, len <= x.buf, NEW list \in Seq(Drafts)
    PROVE  LET y == AfterChunk(x, len, list)
           IN  /\ y \in CdcRecords /\ y.buf = x.buf - len /\ y.size = x.size + len
               /\ y.chunks = list /\ y.origin = x.origin /\ y.cfg = x.cfg /\ y.eof = x.eof
               /\ y.left = x.left /\ y.take = x.take
<1>. DEFINE b == x.buf - len
            z == x.size + len
            y == AfterChunk(x, len, list)
<1>1. b \in Nat /\ z \in Nat
  BY CdcTypes
<1>2. y = [x EXCEPT !.buf = b, !.size = z, !.chunks = list]
  BY Zenon DEF AfterChunk
<1>. HIDE DEF b, z, y
<1>3. /\ y \in CdcRecords /\ y.buf = b /\ y.size = z
      /\ y.chunks = list /\ y.origin = x.origin /\ y.cfg = x.cfg /\ y.eof = x.eof
      /\ y.left = x.left /\ y.take = x.take
  <2>. HIDE DEF Drafts, Origins, Configs
  <2>. QED BY <1>1, <1>2 DEF CdcRecords
<1>. QED BY <1>3 DEF b, z, y

\* A chunk cut off the buffer keeps the relation between the counters.
LEMMA NextKeeps ==
    ASSUME NEW data \in Seq(Nat), NEW x, NEW p, NEW start, NEW T, CdcInv(x, p, data, start, T),
           x.buf > 0, NEW len, len = Cut(Buffer(data, p, x.buf), 0, x.cfg),
           NextPush(x, len).ok = TRUE
    PROVE  Kept(x, AfterChunk(x, len, NextPush(x, len).val), p, data, start, T)
<1>. DEFINE r == NextPush(x, len)
            y == AfterChunk(x, len, r.val)
            buf == x.buf
            size == x.size
            bytes == x.cfg.bytes
            base == x.origin.base
            max == x.cfg.max
            left == x.left
            take == x.take
<1>0. x \in CdcRecords /\ ConfigValid(x.cfg)
  BY DEF CdcInv
<1>1. /\ p = start + size + buf /\ p <= Len(data) /\ start \in Nat /\ T \in Nat
      /\ size + buf + left = bytes + 1 /\ size + buf + take = T
      /\ buf <= max
      /\ x.eof => (p = Len(data) \/ left = 0 \/ take = 0)
  BY DEF CdcInv
<1>2. /\ take \in Nat /\ left \in Nat /\ buf \in Nat /\ size \in Nat
      /\ max \in Nat /\ bytes \in Nat /\ base \in Nat
  BY <1>0, CdcTypes
<1>3. len \in 1 .. buf
  BY BufferCut
<1>4. len \in Nat /\ len <= x.buf
  BY <1>2, <1>3
<1>5. /\ r \in Results /\ r.ok = TRUE
      /\ ~(size + len <= bytes) => r.ok = FALSE
      /\ r.ok = TRUE => base + size + len <= OffsetMax
  BY <1>0, <1>4, NextPushIs
<1>6. r.val \in Seq(Drafts)
  BY <1>5, ResultCases
<1>7. /\ y \in CdcRecords /\ y.buf = buf - len /\ y.size = size + len
      /\ y.origin = x.origin /\ y.cfg = x.cfg /\ y.eof = x.eof /\ y.left = left /\ y.take = take
  <2>. HIDE DEF r
  <2>. QED BY <1>0, <1>4, <1>6, AfterChunkIs
<1>8. y.cfg.max = max /\ y.cfg.bytes = bytes /\ y.origin.base = base
  BY <1>7
<1>. HIDE DEF r, y, buf, size, bytes, base, max, left, take
<1>9. /\ p = start + y.size + y.buf
      /\ y.size + y.buf + left = bytes + 1 /\ y.size + y.buf + take = T
      /\ y.size <= bytes /\ y.buf <= max /\ base + y.size <= OffsetMax
  <2>1. size + len <= bytes /\ base + size + len <= OffsetMax
    <3>1. r.ok # FALSE
      BY <1>5
    <3>. QED BY <1>5, <3>1
  <2>2. base + y.size = base + size + len
    BY <1>2, <1>4, <1>7
  <2>3. base + y.size <= OffsetMax
    BY <2>1, <2>2
  <2>4. /\ p = start + y.size + y.buf
        /\ y.size + y.buf + left = bytes + 1 /\ y.size + y.buf + take = T
        /\ y.size <= bytes /\ y.buf <= max
    <3>. DEFINE a == size + len
                b == buf - len
    <3>1. len \in Nat /\ len <= buf
      BY <1>2, <1>3
    <3>2. /\ p = start + a + b
          /\ a + b + left = bytes + 1 /\ a + b + take = T
          /\ a <= bytes /\ b <= max
      <4>1. start \in Nat /\ p = start + size + buf /\ size + buf + left = bytes + 1
            /\ size + buf + take = T /\ buf <= max
        BY <1>1
      <4>2. size + len <= bytes
        BY <2>1
      <4>3. p = start + a + b
        BY <1>2, <3>1, <4>1
      <4>4. a + b + left = bytes + 1 /\ a + b + take = T
        BY <1>2, <3>1, <4>1, SMTT(30)
      <4>5. a <= bytes
        BY <4>2
      <4>6. b <= max
        BY <1>2, <3>1, <4>1
      <4>. QED BY <4>3, <4>4, <4>5, <4>6
    <3>3. y.size = a /\ y.buf = b
      BY <1>7
    <3>. HIDE DEF a, b
    <3>. QED BY <3>2, <3>3, Zenon
  <2>. QED BY <2>3, <2>4
<1>10. CdcInv(y, p, data, start, T)
  BY <1>0, <1>1, <1>7, <1>8, <1>9 DEF CdcInv
<1>. QED BY <1>7, <1>10 DEF y, r, Kept

\* A chunk cut off the buffer is the next one of the trace, or both calls refuse.
LEMMA NextTraced ==
    ASSUME NEW data \in Seq(Nat), NEW x, NEW p, NEW start, NEW T, CdcInv(x, p, data, start, T),
           x.buf > 0, x.eof \/ ~(x.buf < x.cfg.max),
           NEW len, len = Cut(Buffer(data, p, x.buf), 0, x.cfg),
           NEW n, GoodAt(x, data, start, T, n), Traced(Object(data, start, n), x)
    PROVE  /\ NextPush(x, len).ok = TRUE =>
                Traced(Object(data, start, n), AfterChunk(x, len, NextPush(x, len).val))
           /\ NextPush(x, len).ok = FALSE =>
                ChunkFastCdc(Object(data, start, n), x.origin, x.cfg).ok = FALSE
<1>. DEFINE r == NextPush(x, len)
            y == AfterChunk(x, len, r.val)
            D == Object(data, start, n)
            buf == x.buf
            size == x.size
            o == x.origin
            c == x.cfg
            bytes == x.cfg.bytes
<1>0. x \in CdcRecords
  BY DEF CdcInv
<1>1. o \in Origins /\ c \in Configs /\ size \in Nat /\ buf \in Nat /\ bytes \in Nat
  BY <1>0, CdcTypes
<1>2. len \in 1 .. buf /\ len = Cut(D, size, c)
  BY BufferCut
<1>3. size + buf <= n /\ n <= bytes /\ n \in Nat
  BY WithinGood
<1>4. len \in Nat /\ len <= x.buf /\ size + len <= bytes /\ size < n
  <2>. HIDE DEF size, bytes
  <2>. QED BY <1>1, <1>2, <1>3
<1>5. r \in Results
      /\ r = PushRelativeChunk(x.chunks, o, size, len, "FastCdc", c.chunks)
  BY <1>0, <1>4, NextPushIs
<1>6. D \in Seq(Nat) /\ Len(D) = n /\ Fits(Len(D), o, c)
  <2>1. Fits(n, o, c) /\ start \in Nat /\ start + n <= Len(data)
    BY DEF GoodAt, CdcInv
  <2>2. D \in Seq(Nat) /\ Len(D) = n
    BY <1>3, <2>1, ObjectIs
  <2>. HIDE DEF D, o, c
  <2>. QED BY <2>1, <2>2, Zenon
<1>7. PICK m, s, g : /\ CdcTrace(D, o, c, m, s, g)
                     /\ \E i \in 0 .. m : s[i] = size /\ g[i] = Ok(x.chunks)
  BY Zenon DEF Traced
<1>8. PICK i \in 0 .. m : s[i] = size /\ g[i] = Ok(x.chunks)
  BY <1>7
<1>. HIDE DEF r, D, buf, size, o, c, bytes
<1>9. /\ i + 1 \in 0 .. m /\ s[i + 1] = s[i] + Cut(D, s[i], c)
      /\ g[i].ok = TRUE => g[i + 1] =
                PushRelativeChunk(g[i].val, o, s[i], Cut(D, s[i], c), "FastCdc", c.chunks)
  <2>1. s[i] < Len(D)
    BY <1>4, <1>6, <1>8
  <2>2. TraceNext(D, o, c, m, s, g, i)
    BY <1>6, <1>7, <2>1, TraceStep
  <2>. QED BY <2>2 DEF TraceNext
<1>10. g[i].ok = TRUE /\ g[i].val = x.chunks
  BY <1>8, OkIs
<1>11. s[i + 1] = size + len /\ g[i + 1] = r
  BY <1>2, <1>5, <1>8, <1>9, <1>10, Zenon
<1>12. r.ok = TRUE => Traced(D, y)
  <2>. SUFFICES ASSUME r.ok = TRUE PROVE Traced(D, y)
    OBVIOUS
  <2>1. r.val \in Seq(Drafts) /\ r = Ok(r.val)
    BY <1>5, ResultCases
  <2>2. y.size = size + len /\ y.chunks = r.val /\ y.origin = o /\ y.cfg = c
    BY <1>0, <1>4, <2>1, AfterChunkIs DEF size, o, c
  <2>. HIDE DEF y
  <2>3. s[i + 1] = y.size /\ g[i + 1] = Ok(y.chunks)
    BY <1>11, <2>1, <2>2
  <2>4. CdcTrace(D, y.origin, y.cfg, m, s, g)
    BY <1>7, <2>2
  <2>. QED BY <1>9, <2>3, <2>4, Zenon DEF Traced
<1>13. r.ok = FALSE => ChunkFastCdc(D, o, c).ok = FALSE
  <2>. SUFFICES ASSUME r.ok = FALSE PROVE ChunkFastCdc(D, o, c).ok = FALSE
    OBVIOUS
  <2>1. g[m].ok = FALSE
    BY <1>7, <1>9, <1>11, CdcErrorsStay
  <2>2. ChunkFastCdc(D, o, c) = CdcResult(D, o, c)
    BY <1>1, <1>6, FastCdcIs
  <2>3. g[m] = PushAll(CdcLengths(D, c), o, "FastCdc", c.chunks)
    BY <1>7 DEF CdcTrace
  <2>. QED BY <2>1, <2>2, <2>3 DEF CdcResult
<1>. QED BY <1>12, <1>13 DEF r, y, D, o, c

\* Strictly before the end of the data s has not reached it.
LEMMA TraceEnd ==
    ASSUME NEW D \in Seq(Nat), NEW origin, NEW c, CutOk(c), NEW m, NEW s, NEW g,
           CdcTrace(D, origin, c, m, s, g), NEW i \in 0 .. m, s[i] = Len(D)
    PROVE  i = m
<1>1. m \in Nat /\ \A j \in 1 .. m : s[j - 1] < Len(D)
  BY DEF CdcTrace
<1>2. CASE i # m
  <2>1. i + 1 \in 1 .. m /\ (i + 1) - 1 = i
    BY <1>1, <1>2
  <2>2. s[(i + 1) - 1] < Len(D)
    BY <1>1, <2>1
  <2>. QED BY <2>1, <2>2
<1>. QED BY <1>2

\* At the end of a stream that delivers n bytes, all of which fit.
LEMMA EndTraced ==
    ASSUME NEW data \in Seq(Nat), NEW x, NEW p, NEW start, NEW T, CdcInv(x, p, data, start, T),
           x.buf = 0, x.eof,
           NEW n, GoodAt(x, data, start, T, n), Traced(Object(data, start, n), x)
    PROVE  /\ x.size = n
           /\ ChunkFastCdc(Object(data, start, n), x.origin, x.cfg) =
                ValidateChunkCoverage(x.chunks, x.origin, x.size)
<1>. DEFINE D == Object(data, start, n)
            size == x.size
            o == x.origin
            c == x.cfg
<1>0. x \in CdcRecords /\ ConfigValid(c)
  BY DEF CdcInv
<1>1. o \in Origins /\ c \in Configs /\ size \in Nat /\ x.chunks \in Seq(Drafts)
  BY <1>0, CdcTypes
<1>2. size = n /\ n \in Nat
  <2>1. size + x.buf = n /\ n \in Nat
    BY WithinGood
  <2>. QED BY <1>1, <2>1
<1>6. D \in Seq(Nat) /\ Len(D) = n /\ Fits(Len(D), o, c)
  <2>1. Fits(n, o, c) /\ start \in Nat /\ start + n <= Len(data)
    BY DEF GoodAt, CdcInv
  <2>2. D \in Seq(Nat) /\ Len(D) = n
    BY <1>2, <2>1, ObjectIs
  <2>. HIDE DEF D, o, c
  <2>. QED BY <2>1, <2>2, Zenon
<1>7. PICK m, s, g : /\ CdcTrace(D, o, c, m, s, g)
                     /\ \E i \in 0 .. m : s[i] = size /\ g[i] = Ok(x.chunks)
  BY Zenon DEF Traced
<1>8. PICK i \in 0 .. m : s[i] = size /\ g[i] = Ok(x.chunks)
  BY <1>7
<1>9. CutOk(c)
  BY <1>0, <1>1, ValidCuts
<1>. HIDE DEF D, size, o, c
<1>10. i = m
  <2>1. s[i] = Len(D)
    BY <1>2, <1>6, <1>8
  <2>. QED BY <1>6, <1>7, <1>9, <2>1, TraceEnd
<1>11. g[m] = PushAll(CdcLengths(D, c), o, "FastCdc", c.chunks)
  BY <1>7 DEF CdcTrace
<1>12. PushAll(CdcLengths(D, c), o, "FastCdc", c.chunks) = Ok(x.chunks)
  BY <1>8, <1>10, <1>11
<1>13. CdcResult(D, o, c) = ValidateChunkCoverage(x.chunks, o, size)
  <2>1. Ok(x.chunks).ok = TRUE /\ Ok(x.chunks).val = x.chunks /\ Len(D) = size
    BY <1>2, <1>6, OkIs
  <2>. QED BY <1>12, <2>1 DEF CdcResult
<1>14. ChunkFastCdc(D, o, c) = CdcResult(D, o, c)
  BY <1>1, <1>6, FastCdcIs
<1>. QED BY <1>2, <1>13, <1>14 DEF D, size, o, c

-----------------------------------------------------------------------------
(* The regions against chunk_structural.                                   *)

\* The arguments of a call.
CallOk(k) ==
    /\ k.data \in Seq(Nat) /\ k.ends \in Seq(Nat) /\ k.origin \in Origins /\ k.cfg \in Configs

\* The data is as long as the ends say.
Match(k) == Len(k.data) = LastEnd(k.ends)

\* What chunk_structural_reader asks before it begins.
Admitted(k) ==
    /\ Fits(LastEnd(k.ends), k.origin, k.cfg)
    /\ LastEnd(k.ends) = 0 => k.ends = <<>>
    /\ LastEnd(k.ends) # 0 =>
            (Len(k.ends) <= k.cfg.chunks /\ BoundaryEndsValid(k.ends, LastEnd(k.ends)))

\* The list is what chunk_structural has after r regions.
TracedRegions(k, r, list) ==
    \E G : RegionsTrace(k.data, k.ends, k.origin, k.cfg, G) /\ G[r] = Ok(list)

\* After r regions of a call over a reader.
RegionsAt(k, r, list) ==
    /\ k.kind = "structural_reader" /\ Admitted(k) /\ r \in 0 .. Len(k.ends)
    /\ list \in Seq(Drafts)
    /\ k.ends = <<>> => list = <<>>
    /\ (Match(k) /\ k.ends # <<>>) => TracedRegions(k, r, list)

\* Region r of the call, counted from 0, is [a, b).
Bounds(k, r, a, b) ==
    /\ a \in Nat /\ b \in Nat /\ a < b /\ b <= LastEnd(k.ends)
    /\ a = RegionStart(k.ends, r + 1) /\ b = k.ends[r + 1]
    /\ b = RegionStart(k.ends, (r + 1) + 1)

\* The length the ends say.
LEMMA LastEndIs ==
    ASSUME NEW ends \in Seq(Nat)
    PROVE  /\ LastEnd(ends) \in Nat /\ (ends = <<>> => LastEnd(ends) = 0)
           /\ ends # <<>> => LastEnd(ends) = ends[Len(ends)]
<1>1. CASE ends = <<>>
  BY <1>1 DEF LastEnd
<1>2. CASE ends # <<>>
  <2>1. Len(ends) \in 1 .. Len(ends)
    BY <1>2
  <2>. QED BY <1>2, <2>1 DEF LastEnd
<1>. QED BY <1>1, <1>2

\* The ends of an admitted call.
LEMMA EndsOfAdmitted ==
    ASSUME NEW k, CallOk(k), Admitted(k), k.ends # <<>>
    PROVE  EndsOk(k.ends, LastEnd(k.ends)) /\ BoundaryEndsValid(k.ends, LastEnd(k.ends))
<1>. DEFINE e == k.ends
<1>1. e \in Seq(Nat) /\ e # <<>>
  BY DEF CallOk
<1>2. LastEnd(e) # 0 /\ BoundaryEndsValid(e, LastEnd(e))
  BY DEF Admitted
<1>. HIDE DEF e
<1>3. EndsOk(e, LastEnd(e))
  BY <1>1, <1>2, LastEndIs, EndsAreOk
<1>. QED BY <1>2, <1>3 DEF e

\* The bounds of a region of a call.
LEMMA BoundsAre ==
    ASSUME NEW k, CallOk(k), Admitted(k), NEW r \in 0 .. Len(k.ends), r < Len(k.ends)
    PROVE  Bounds(k, r, RegionStart(k.ends, r + 1), k.ends[r + 1])
<1>. DEFINE e == k.ends
            n == LastEnd(e)
<1>1. e \in Seq(Nat)
  BY DEF CallOk
<1>2. Len(e) \in Nat /\ r \in Nat /\ e # <<>>
  BY <1>1
<1>3. EndsOk(e, n)
  BY <1>2, EndsOfAdmitted
<1>. HIDE DEF e, n
<1>4. r + 1 \in 1 .. Len(e)
  BY <1>2 DEF e
<1>5. /\ RegionStart(e, r + 1) \in Nat /\ e[r + 1] \in Nat
      /\ RegionStart(e, r + 1) < e[r + 1] /\ e[r + 1] <= n
  BY <1>3, <1>4 DEF EndsOk
<1>6. RegionStart(e, (r + 1) + 1) = e[r + 1]
  <2>1. (r + 1) + 1 # 1 /\ ((r + 1) + 1) - 1 = r + 1
    BY <1>2
  <2>. QED BY <2>1 DEF RegionStart
<1>. QED BY <1>5, <1>6 DEF Bounds, e, n

\* The call that a reader is compared with.
LEMMA InMemoryIs ==
    ASSUME NEW k
    PROVE  /\ k.kind = "fastcdc_reader" => InMemory(k) = ChunkFastCdc(k.data, k.origin, k.cfg)
           /\ k.kind = "structural_reader" =>
                InMemory(k) = ChunkStructural(k.data, k.ends, k.origin, k.cfg)
<1>1. CASE k.kind = "fastcdc_reader"
  BY <1>1, Zenon DEF InMemory
<1>2. CASE k.kind = "structural_reader"
  <2>1. ~(k.kind \in {"fastcdc", "fastcdc_reader"}) /\ k.kind # "fixed" /\ k.kind # "fastcdc_reader"
    BY <1>2
  <2>. QED BY <2>1, Zenon DEF InMemory
<1>3. k.kind = "fastcdc_reader" \/ k.kind = "structural_reader" => 
        (k.kind = "fastcdc_reader" => ~(k.kind = "structural_reader"))
  OBVIOUS
<1>. QED BY <1>1, <1>2, <1>3

\* chunk_structural admits what chunk_structural_reader admits and no data of another
\* length.
LEMMA AdmitsIs ==
    ASSUME NEW k, CallOk(k)
    PROVE  Admits(k.data, k.ends, k.origin, k.cfg) <=> (Admitted(k) /\ Match(k))
<1>. DEFINE D == k.data
            e == k.ends
            n == LastEnd(e)
            w == k.cfg.chunks
            O == k.origin
            c == k.cfg
<1>1. D \in Seq(Nat) /\ e \in Seq(Nat)
  BY DEF CallOk
<1>2. Len(D) \in Nat /\ (D = <<>> <=> Len(D) = 0)
  BY <1>1
<1>3. n \in Nat /\ (e = <<>> => n = 0)
      /\ (e # <<>> => n = e[Len(e)])
  BY <1>1, LastEndIs
<1>4. Match(k) <=> Len(D) = n
  BY DEF Match
<1>5. Admitted(k) <=> (/\ Fits(n, O, c) /\ (n = 0 => e = <<>>)
                       /\ (n # 0 => (Len(e) <= w /\ BoundaryEndsValid(e, n))))
  BY DEF Admitted
<1>6. Admits(D, e, O, c) <=>
        (/\ Fits(Len(D), O, c) /\ (D = <<>> => e = <<>>)
         /\ (D # <<>> => (Len(e) <= w /\ BoundaryEndsValid(e, Len(D)))))
  BY DEF Admits
<1>7. BoundaryEndsValid(e, Len(D)) => (e # <<>> /\ e[Len(e)] = Len(D))
  BY DEF BoundaryEndsValid
<1>. HIDE DEF D, e, n, w, O, c
<1>8. ASSUME Admits(D, e, O, c) PROVE Len(D) = n
  <2>1. CASE D = <<>>
    BY <1>2, <1>3, <1>6, <1>8, <2>1
  <2>2. CASE D # <<>>
    BY <1>3, <1>6, <1>7, <1>8, <2>2
  <2>. QED BY <2>1, <2>2
<1>9. ASSUME Len(D) = n PROVE Admits(D, e, O, c) <=> Admitted(k)
  <2>1. (D = <<>>) <=> (n = 0)
    BY <1>2, <1>9
  <2>. QED BY <1>5, <1>6, <1>9, <2>1, Zenon
<1>10. Admits(D, e, O, c) <=> (Admitted(k) /\ Match(k))
  BY <1>4, <1>8, <1>9
<1>. QED BY <1>10 DEF D, e, O, c

\* A stream of another length than the ends is refused in memory.
LEMMA NotAdmitted ==
    ASSUME NEW k, CallOk(k), k.kind = "structural_reader", ~(Admitted(k) /\ Match(k))
    PROVE  InMemory(k).ok = FALSE
<1>. DEFINE D == k.data
            e == k.ends
            O == k.origin
            c == k.cfg
<1>1. D \in Seq(Nat) /\ e \in Seq(Nat) /\ O \in Origins /\ c \in Configs
  BY DEF CallOk
<1>2. ~Admits(D, e, O, c)
  BY AdmitsIs
<1>3. InMemory(k) = ChunkStructural(D, e, O, c)
  BY InMemoryIs
<1>. HIDE DEF D, e, O, c
<1>. QED BY <1>1, <1>2, <1>3, StructuralIs, ZenonT(40)

\* After the last region.
LEMMA RegionsDone ==
    ASSUME NEW k, CallOk(k), NEW list, RegionsAt(k, Len(k.ends), list), Match(k)
    PROVE  InMemory(k) = ValidateChunkCoverage(list, k.origin, LastEnd(k.ends))
<1>. DEFINE D == k.data
            e == k.ends
            O == k.origin
            c == k.cfg
            n == LastEnd(e)
<1>1. D \in Seq(Nat) /\ e \in Seq(Nat) /\ O \in Origins /\ c \in Configs
  BY DEF CallOk
<1>2. Admits(D, e, O, c) /\ Len(D) = n
  BY AdmitsIs DEF RegionsAt, Match
<1>3. InMemory(k) = ChunkStructural(D, e, O, c)
  BY InMemoryIs DEF RegionsAt
<1>4. e = <<>> => list = <<>>
  BY DEF RegionsAt
<1>5. e # <<>> => \E G : RegionsTrace(D, e, O, c, G) /\ G[Len(e)] = Ok(list)
  BY DEF RegionsAt, TracedRegions
<1>. HIDE DEF D, e, O, c, n
<1>6. CASE D = <<>>
  <2>1. e = <<>> /\ list = <<>> /\ n = 0
    BY <1>2, <1>4, <1>6 DEF Admits
  <2>2. InMemory(k) = Ok(<<>>)
    BY <1>1, <1>2, <1>3, <1>6, StructuralIs
  <2>3. O.base <= OffsetMax
    <3>1. O.base + Len(D) <= OffsetMax
      BY <1>2 DEF Admits, Fits
    <3>2. O.base \in Nat
      BY <1>1 DEF Origins
    <3>3. O.base + Len(D) = O.base
      BY <1>2, <2>1, <3>2
    <3>. QED BY <3>1, <3>3
  <2>4. <<>> \in Seq(Drafts) /\ 0 \in Nat
    OBVIOUS
  <2>5. ValidateChunkCoverage(<<>>, O, 0) = Ok(<<>>)
    BY <1>1, <2>3, <2>4, ValidateIs
  <2>. QED BY <2>1, <2>2, <2>5, Zenon DEF O, n, e
<1>7. CASE D # <<>>
  <2>1. e # <<>>
    BY <1>2, <1>7 DEF Admits, BoundaryEndsValid
  <2>2. PICK G : RegionsTrace(D, e, O, c, G) /\ G[Len(e)] = Ok(list)
    BY <1>5, <2>1
  <2>3. AllRegions(D, e, O, c) = Ok(list)
    BY <2>2 DEF RegionsTrace
  <2>4. InMemory(k) = StructuralResult(D, e, O, c)
    BY <1>1, <1>2, <1>3, <1>7, StructuralIs
  <2>5. StructuralResult(D, e, O, c) = ValidateChunkCoverage(list, O, n)
    BY <1>2, <2>3, OkIs DEF StructuralResult
  <2>. QED BY <2>4, <2>5 DEF O, n, e
<1>. QED BY <1>6, <1>7

\* The next region of chunk_structural.
RegionAnswer(k, r, list, a, b, q) ==
    /\ RegionIs(q, list, k.data, a, b, k.origin, k.cfg)
    /\ q.ok = FALSE => InMemory(k).ok = FALSE
    /\ \A l : q = Ok(l) => TracedRegions(k, r + 1, l)

LEMMA RegionNext ==
    ASSUME NEW k, CallOk(k), NEW r, NEW list, RegionsAt(k, r, list), Match(k),
           NEW a, NEW b, Bounds(k, r, a, b), r < Len(k.ends)
    PROVE  \E q : RegionAnswer(k, r, list, a, b, q)
<1>. DEFINE D == k.data
            e == k.ends
            O == k.origin
            c == k.cfg
<1>1. D \in Seq(Nat) /\ e \in Seq(Nat) /\ O \in Origins /\ c \in Configs
  BY DEF CallOk
<1>2. r \in 0 .. Len(e) /\ r < Len(e) /\ Len(e) \in Nat
  BY <1>1 DEF RegionsAt
<1>3. r + 1 \in 1 .. Len(e) /\ r + 1 \in 0 .. Len(e) /\ (r + 1) - 1 = r /\ e # <<>>
  BY <1>1, <1>2
<1>4. PICK G : RegionsTrace(D, e, O, c, G) /\ G[r] = Ok(list)
  BY <1>3 DEF RegionsAt, TracedRegions
<1>5. Admits(D, e, O, c) /\ InMemory(k) = ChunkStructural(D, e, O, c)
  BY AdmitsIs, InMemoryIs DEF RegionsAt
<1>6. a = RegionStart(e, r + 1) /\ b = e[r + 1]
  BY DEF Bounds
<1>. HIDE DEF D, e, O, c
<1>7. \A i \in 1 .. Len(e) : NextRegion(G[i], G[i - 1], i, D, e, O, c)
  BY <1>4 DEF RegionsTrace
<1>8. NextRegion(G[r + 1], G[(r + 1) - 1], r + 1, D, e, O, c)
  BY <1>3, <1>7, Zenon
<1>9. NextRegion(G[r + 1], G[r], r + 1, D, e, O, c)
  BY <1>3, <1>8, Zenon
<1>10. G[r].ok = TRUE /\ G[r].val = list
  BY <1>4, OkIs
<1>11. RegionIs(G[r + 1], list, D, a, b, O, c)
  BY <1>6, <1>9, <1>10, Zenon DEF NextRegion
<1>12. ASSUME G[r + 1].ok = FALSE PROVE InMemory(k).ok = FALSE
  <2>1. G[Len(e)].ok = FALSE
    BY <1>2, <1>3, <1>4, <1>12, RegionErrorsStay
  <2>2. AllRegions(D, e, O, c).ok = FALSE
    BY <1>4, <2>1 DEF RegionsTrace
  <2>3. D # <<>>
    BY <1>3, <1>5 DEF Admits
  <2>4. InMemory(k) = StructuralResult(D, e, O, c)
    BY <1>1, <1>5, <2>3, StructuralIs
  <2>. QED BY <2>2, <2>4 DEF StructuralResult
<1>13. ASSUME NEW l, G[r + 1] = Ok(l) PROVE TracedRegions(k, r + 1, l)
  BY <1>4, <1>13, Zenon DEF TracedRegions, D, e, O, c
<1>14. RegionAnswer(k, r, list, a, b, G[r + 1])
  BY <1>11, <1>12, <1>13 DEF RegionAnswer, D, O, c
<1>. QED BY <1>14

-----------------------------------------------------------------------------
(* A stream over part of the data.                                         *)

\* The result answers what the in-memory call answers, unless it is a fault.
Agrees(k, q) ==
    (~q.ok => q.val \notin Faults) =>
        (q.ok = InMemory(k).ok /\ (q.ok => q.val = InMemory(k).val))

\* A stream x, and n bytes from `start` on that it delivers when they are good.
Filled(k, p, x, start, T, n, good) ==
    /\ CdcInv(x, p, k.data, start, T)
    /\ good => (GoodAt(x, k.data, start, T, n) /\ Traced(Object(k.data, start, n), x))

\* Both depend on these fields only.
LEMMA SameGood ==
    ASSUME NEW x, NEW y, y.origin = x.origin, y.cfg = x.cfg,
           NEW data, NEW start, NEW T, NEW n, GoodAt(x, data, start, T, n)
    PROVE  GoodAt(y, data, start, T, n)
BY DEF GoodAt

LEMMA SameTraced ==
    ASSUME NEW x, NEW y, y.origin = x.origin, y.cfg = x.cfg, y.size = x.size,
           y.chunks = x.chunks, NEW D, Traced(D, x)
    PROVE  Traced(D, y)
BY DEF Traced

LEMMA FilledRead ==
    ASSUME NEW k, CallOk(k), NEW p, NEW x, NEW start, NEW T, NEW n, NEW good,
           Filled(k, p, x, start, T, n, good), NEW m, ReadAt(x, p, k.data, m)
    PROVE  /\ Filled(k, p + m, AfterRead(x, m), start, T, n, good)
           /\ AfterRead(x, m).origin = x.origin /\ AfterRead(x, m).cfg = x.cfg
<1>. DEFINE y == AfterRead(x, m)
            data == k.data
<1>1. data \in Seq(Nat) /\ CdcInv(x, p, data, start, T)
  BY DEF CallOk, Filled
<1>2. /\ CdcInv(y, p + m, data, start, T) /\ y.origin = x.origin /\ y.cfg = x.cfg
      /\ y.size = x.size /\ y.chunks = x.chunks
  <2>. HIDE DEF data
  <2>1. ReadAt(x, p, data, m)
    BY DEF data
  <2>2. Kept(x, y, p + m, data, start, T) /\ y.size = x.size /\ y.chunks = x.chunks
    BY <1>1, <2>1, FillKeeps
  <2>. QED BY <2>2 DEF Kept
<1>. HIDE DEF y
<1>3. good => (GoodAt(y, data, start, T, n) /\ Traced(Object(data, start, n), y))
  BY <1>2, SameGood, SameTraced DEF Filled
<1>. QED BY <1>2, <1>3 DEF Filled, y

\* The buffer is full or holds the end, and len is cut off it.
CutAtBuffer(x, p, data, len) ==
    /\ x.buf > 0 /\ (x.eof \/ ~(x.buf < x.cfg.max))
    /\ len = Cut(Buffer(data, p, x.buf), 0, x.cfg)

\* What comes of it.
NextFilled(k, p, x, start, T, n, good, q, y) ==
    /\ q \in Results
    /\ q.ok = TRUE =>
            (Filled(k, p, y, start, T, n, good) /\ y.origin = x.origin /\ y.cfg = x.cfg)
    /\ (q.ok = FALSE /\ good) =>
            ChunkFastCdc(Object(k.data, start, n), x.origin, x.cfg).ok = FALSE

LEMMA FilledNext ==
    ASSUME NEW k, CallOk(k), NEW p, NEW x, NEW start, NEW T, NEW n, NEW good,
           Filled(k, p, x, start, T, n, good), NEW len, CutAtBuffer(x, p, k.data, len)
    PROVE  NextFilled(k, p, x, start, T, n, good, NextPush(x, len),
                      AfterChunk(x, len, NextPush(x, len).val))
<1>. DEFINE q == NextPush(x, len)
            y == AfterChunk(x, len, q.val)
            data == k.data
<1>1. data \in Seq(Nat) /\ CdcInv(x, p, data, start, T)
  BY DEF CallOk, Filled
<1>2. good => (GoodAt(x, data, start, T, n) /\ Traced(Object(data, start, n), x))
  BY DEF Filled
<1>3. /\ len = Cut(Buffer(data, p, x.buf), 0, x.cfg)
      /\ x.buf > 0 /\ (x.eof \/ ~(x.buf < x.cfg.max))
  BY DEF CutAtBuffer
<1>4. x \in CdcRecords /\ len \in Nat
  <2>1. x \in CdcRecords /\ x.buf \in Nat
    BY <1>1, CdcTypes DEF CdcInv
  <2>2. len \in 1 .. x.buf
    <3>. HIDE DEF data
    <3>. QED BY <1>1, <1>3, BufferCut
  <2>. QED BY <2>1, <2>2
<1>5. q \in Results
  BY <1>4, NextPushIs
<1>. HIDE DEF data
<1>6. q.ok = TRUE =>
        (CdcInv(y, p, data, start, T) /\ y.origin = x.origin /\ y.cfg = x.cfg)
  <2>. SUFFICES ASSUME q.ok = TRUE
                PROVE  CdcInv(y, p, data, start, T) /\ y.origin = x.origin /\ y.cfg = x.cfg
    OBVIOUS
  <2>1. Kept(x, y, p, data, start, T)
    BY <1>1, <1>3, NextKeeps
  <2>. HIDE DEF y
  <2>. QED BY <2>1 DEF Kept
<1>7. good => /\ q.ok = TRUE => Traced(Object(data, start, n), y)
              /\ q.ok = FALSE => ChunkFastCdc(Object(data, start, n), x.origin, x.cfg).ok = FALSE
  BY <1>1, <1>2, <1>3, NextTraced
<1>. HIDE DEF y, q
<1>8. q.ok = TRUE => Filled(k, p, y, start, T, n, good)
  <2>. SUFFICES ASSUME q.ok = TRUE PROVE Filled(k, p, y, start, T, n, good)
    OBVIOUS
  <2>1. good => GoodAt(y, data, start, T, n)
    BY <1>2, <1>6, SameGood
  <2>. QED BY <1>6, <1>7, <2>1 DEF Filled, data
<1>. QED BY <1>5, <1>6, <1>7, <1>8 DEF y, q, data, NextFilled

LEMMA FilledEnd ==
    ASSUME NEW k, CallOk(k), NEW p, NEW x, NEW start, NEW T, NEW n, NEW good,
           Filled(k, p, x, start, T, n, good), x.buf = 0, x.eof
    PROVE  /\ good => /\ x.size = n
                      /\ ChunkFastCdc(Object(k.data, start, n), x.origin, x.cfg) =
                            ValidateChunkCoverage(x.chunks, x.origin, x.size)
           /\ ValidateChunkCoverage(x.chunks, x.origin, x.size) \in Results
           /\ ValidateChunkCoverage(x.chunks, x.origin, x.size).ok = TRUE =>
                ValidateChunkCoverage(x.chunks, x.origin, x.size) = Ok(x.chunks)
           /\ x.chunks \in Seq(Drafts) /\ x.size \in Nat
<1>. DEFINE data == k.data
<1>1. data \in Seq(Nat) /\ CdcInv(x, p, data, start, T)
  BY DEF CallOk, Filled
<1>2. good => (GoodAt(x, data, start, T, n) /\ Traced(Object(data, start, n), x))
  BY DEF Filled
<1>. HIDE DEF data
<1>3. good => /\ x.size = n
              /\ ChunkFastCdc(Object(data, start, n), x.origin, x.cfg) =
                        ValidateChunkCoverage(x.chunks, x.origin, x.size)
  BY <1>1, <1>2, EndTraced
<1>4. x.chunks \in Seq(Drafts) /\ x.origin \in Origins /\ x.size \in Nat
  BY <1>1, CdcTypes DEF CdcInv
<1>. DEFINE list == x.chunks
            o == x.origin
            z == x.size
            v == ValidateChunkCoverage(list, o, z)
<1>5. v \in Results /\ (v.ok = TRUE => v = Ok(list))
  <2>. HIDE DEF list, o, z
  <2>. QED BY <1>4, ValidateIs DEF list, o, z
<1>. QED BY <1>3, <1>4, <1>5 DEF data

\* The object is the whole stream.
LEMMA ObjectWhole ==
    ASSUME NEW data \in Seq(Nat)
    PROVE  Object(data, 0, Len(data)) = data
<1>1. 0 + 1 = 1 /\ 0 + Len(data) = Len(data)
  OBVIOUS
<1>2. Object(data, 0, Len(data)) = SubSeq(data, 1, Len(data))
  BY <1>1, Zenon DEF Object
<1>. QED BY <1>2

\* A stream that opens.
LEMMA OpenIs ==
    ASSUME NEW origin \in Origins, NEW c \in Configs, ConfigValid(c), NEW T \in Nat,
           NEW data \in Seq(Nat), NEW start \in Nat, start <= Len(data)
    PROVE  LET x == OpenCdc(origin, c, T)
           IN  /\ CdcInv(x, start, data, start, T)
               /\ x.origin = origin /\ x.cfg = c
               /\ \A D \in Seq(Nat) : Traced(D, x)
<1>. DEFINE x == OpenCdc(origin, c, T)
            bytes == c.bytes
<1>0. bytes \in Nat /\ c.max \in Nat
  BY DEF Configs
<1>1. /\ x.origin = origin /\ x.cfg = c /\ x.take = T /\ x.left = bytes + 1
      /\ x.buf = 0 /\ x.eof = FALSE /\ x.size = 0 /\ x.chunks = <<>>
  BY DEF OpenCdc, ReaderBound
<1>2. x \in CdcRecords
  <2>1. bytes + 1 \in Nat /\ <<>> \in Seq(Drafts) /\ 0 \in Nat /\ FALSE \in BOOLEAN
    BY <1>0
  <2>. HIDE DEF Drafts, Origins, Configs
  <2>2. x = [origin |-> origin, cfg |-> c, take |-> T, left |-> bytes + 1,
             buf |-> 0, eof |-> FALSE, size |-> 0, chunks |-> <<>>]
    BY DEF OpenCdc, ReaderBound
  <2>. HIDE DEF x, bytes
  <2>. QED BY <2>1, <2>2 DEF CdcRecords
<1>3. x.cfg.bytes = bytes /\ x.cfg.max = c.max
  BY <1>1
<1>. HIDE DEF x, bytes
<1>4. CdcInv(x, start, data, start, T)
  <2>1. start = start + 0 + 0 /\ 0 + 0 + (bytes + 1) = bytes + 1 /\ 0 + 0 + T = T
        /\ 0 <= bytes /\ 0 <= c.max /\ ~(0 > 0)
    BY <1>0
  <2>. QED BY <1>1, <1>2, <1>3, <2>1 DEF CdcInv
<1>5. ASSUME NEW D \in Seq(Nat) PROVE Traced(D, x)
  <2>1. CutOk(c)
    BY ValidCuts
  <2>2. PICK m, s, g : CdcTrace(D, origin, c, m, s, g)
    BY <1>5, <2>1, CdcTraceExists
  <2>3. m \in Nat /\ s[0] = 0 /\ g[0] = Ok(<<>>)
    BY <2>2 DEF CdcTrace
  <2>4. 0 \in 0 .. m
    BY <2>3
  <2>5. CdcTrace(D, x.origin, x.cfg, m, s, g) /\ s[0] = x.size /\ g[0] = Ok(x.chunks)
    BY <1>1, <2>2, <2>3
  <2>. QED BY <2>4, <2>5, Zenon DEF Traced
<1>. QED BY <1>1, <1>4, <1>5 DEF x

-----------------------------------------------------------------------------
(* Calls over a reader: reads and chunks.                                  *)

\* chunk_fastcdc_reader is reading.
WholeFill(k, p, x) ==
    /\ k.kind = "fastcdc_reader" /\ x.origin = k.origin /\ x.cfg = k.cfg
    /\ Filled(k, p, x, 0, Unlimited, Len(k.data), Fits(Len(k.data), k.origin, k.cfg))

\* A region above the maximum is being read.
RegionFill(k, p, x, r, list, a, b) ==
    /\ RegionsAt(k, r, list) /\ r < Len(k.ends) /\ Bounds(k, r, a, b)
    /\ ~WholeRegion(b - a, k.cfg) /\ Len(list) < k.cfg.chunks
    /\ x.origin = SubOrigin(k.origin, a) /\ x.cfg = SubConfig(k.cfg, Len(list), b - a)
    /\ Filled(k, p, x, a, b - a, b - a, Match(k))

FillOk(k, p, x, r, list) ==
    WholeFill(k, p, x) \/ \E a, b : RegionFill(k, p, x, r, list, a, b)

\* Between two regions.
AtRegion(k, p, r, list) ==
    /\ RegionsAt(k, r, list)
    /\ p = RegionStart(k.ends, r + 1) /\ p <= Len(k.data)

\* consume_exact_region is reading.
InRegion(k, p, need0, r, list, a, b) ==
    /\ RegionsAt(k, r, list) /\ r < Len(k.ends) /\ Bounds(k, r, a, b)
    /\ WholeRegion(b - a, k.cfg) /\ need0 \in 1 .. (b - a)
    /\ p = a + ((b - a) - need0) /\ p <= Len(k.data)

\* When two results agree.
LEMMA BothRefuse ==
    ASSUME NEW k, NEW q, q.ok = FALSE, InMemory(k).ok = FALSE
    PROVE  Agrees(k, q)
BY DEF Agrees

LEMMA SameAnswer ==
    ASSUME NEW k, InMemory(k) \in Results
    PROVE  Agrees(k, InMemory(k))
BY ResultCases DEF Agrees

LEMMA FaultsAgree ==
    ASSUME NEW k, NEW e \in Faults
    PROVE  Agrees(k, Err(e))
BY OkIs DEF Agrees

\* A read.
LEMMA FillRead ==
    ASSUME NEW k, CallOk(k), NEW p, NEW x, NEW r, NEW list, FillOk(k, p, x, r, list),
           NEW m, ReadAt(x, p, k.data, m)
    PROVE  FillOk(k, p + m, AfterRead(x, m), r, list)
<1>1. CASE WholeFill(k, p, x)
  <2>1. Filled(k, p, x, 0, Unlimited, Len(k.data), Fits(Len(k.data), k.origin, k.cfg))
    BY <1>1 DEF WholeFill
  <2>2. /\ Filled(k, p + m, AfterRead(x, m), 0, Unlimited, Len(k.data),
                  Fits(Len(k.data), k.origin, k.cfg))
        /\ AfterRead(x, m).origin = x.origin /\ AfterRead(x, m).cfg = x.cfg
    BY <2>1, FilledRead
  <2>. QED BY <1>1, <2>2 DEF WholeFill, FillOk
<1>2. ASSUME NEW a, NEW b, RegionFill(k, p, x, r, list, a, b)
      PROVE  RegionFill(k, p + m, AfterRead(x, m), r, list, a, b)
  <2>1. Filled(k, p, x, a, b - a, b - a, Match(k))
    BY <1>2 DEF RegionFill
  <2>2. /\ Filled(k, p + m, AfterRead(x, m), a, b - a, b - a, Match(k))
        /\ AfterRead(x, m).origin = x.origin /\ AfterRead(x, m).cfg = x.cfg
    BY <2>1, FilledRead
  <2>. QED BY <1>2, <2>2 DEF RegionFill
<1>. QED BY <1>1, <1>2 DEF FillOk

\* The sub-call of a region.
LEMMA RegionCall ==
    ASSUME NEW k, CallOk(k), NEW r, NEW list, NEW a, NEW b, RegionsAt(k, r, list),
           r < Len(k.ends), Bounds(k, r, a, b), ~WholeRegion(b - a, k.cfg),
           Len(list) < k.cfg.chunks, Match(k),
           NEW sub, sub = ChunkFastCdc(Object(k.data, a, b - a), SubOrigin(k.origin, a),
                                       SubConfig(k.cfg, Len(list), b - a))
    PROVE  /\ sub.ok = FALSE => InMemory(k).ok = FALSE
           /\ sub.ok = TRUE => TracedRegions(k, r + 1, list \o Structural(sub.val))
<1>1. PICK q : RegionAnswer(k, r, list, a, b, q)
  BY RegionNext
<1>2. Object(k.data, a, b - a) = SubSeq(k.data, a + 1, b)
  <2>1. a + (b - a) = b
    BY DEF Bounds
  <2>. QED BY <2>1, Zenon DEF Object
<1>3. /\ sub.ok = FALSE => q.ok = FALSE
      /\ sub.ok = TRUE => q = Ok(list \o Structural(sub.val))
  BY <1>1, <1>2, Zenon DEF RegionAnswer, RegionIs
<1>. QED BY <1>1, <1>3, Zenon DEF RegionAnswer

\* A chunk.
LEMMA FillNext ==
    ASSUME NEW k, CallOk(k), NEW p, NEW x, NEW r, NEW list, FillOk(k, p, x, r, list),
           NEW len, CutAtBuffer(x, p, k.data, len)
    PROVE  /\ NextPush(x, len) \in Results
           /\ NextPush(x, len).ok = TRUE =>
                FillOk(k, p, AfterChunk(x, len, NextPush(x, len).val), r, list)
           /\ NextPush(x, len).ok = FALSE => Agrees(k, NextPush(x, len))
<1>. DEFINE q == NextPush(x, len)
            y == AfterChunk(x, len, q.val)
<1>1. ASSUME WholeFill(k, p, x)
      PROVE  /\ q \in Results /\ (q.ok = TRUE => WholeFill(k, p, y))
             /\ q.ok = FALSE => InMemory(k).ok = FALSE
  <2>. DEFINE good == Fits(Len(k.data), k.origin, k.cfg)
  <2>1. Filled(k, p, x, 0, Unlimited, Len(k.data), good)
    BY <1>1 DEF WholeFill
  <2>2. /\ q \in Results
        /\ q.ok = TRUE => (Filled(k, p, y, 0, Unlimited, Len(k.data), good)
                           /\ y.origin = x.origin /\ y.cfg = x.cfg)
        /\ (q.ok = FALSE /\ good) =>
                ChunkFastCdc(Object(k.data, 0, Len(k.data)), x.origin, x.cfg).ok = FALSE
    <3>. HIDE DEF good
    <3>1. NextFilled(k, p, x, 0, Unlimited, Len(k.data), good, q, y)
      BY <2>1, FilledNext
    <3>. HIDE DEF q, y
    <3>. QED BY <3>1 DEF NextFilled
  <2>. HIDE DEF q, y
  <2>3. q.ok = TRUE => WholeFill(k, p, y)
    BY <1>1, <2>2 DEF WholeFill
  <2>4. k.data \in Seq(Nat) /\ k.origin \in Origins /\ k.cfg \in Configs
    BY DEF CallOk
  <2>5. Object(k.data, 0, Len(k.data)) = k.data
    BY <2>4, ObjectWhole
  <2>6. InMemory(k) = ChunkFastCdc(k.data, k.origin, k.cfg) /\ x.origin = k.origin /\ x.cfg = k.cfg
    BY <1>1, InMemoryIs DEF WholeFill
  <2>7. ~good => ChunkFastCdc(k.data, k.origin, k.cfg).ok = FALSE
    BY <2>4, FastCdcIs
  <2>8. q.ok = FALSE => InMemory(k).ok = FALSE
    BY <2>2, <2>5, <2>6, <2>7, Zenon
  <2>. QED BY <2>2, <2>3, <2>8
<1>2. ASSUME NEW a, NEW b, RegionFill(k, p, x, r, list, a, b)
      PROVE  /\ q \in Results /\ (q.ok = TRUE => RegionFill(k, p, y, r, list, a, b))
             /\ q.ok = FALSE => InMemory(k).ok = FALSE
  <2>. DEFINE good == Match(k)
  <2>1. Filled(k, p, x, a, b - a, b - a, good)
    BY <1>2 DEF RegionFill
  <2>2. /\ q \in Results
        /\ q.ok = TRUE => (Filled(k, p, y, a, b - a, b - a, good)
                           /\ y.origin = x.origin /\ y.cfg = x.cfg)
        /\ (q.ok = FALSE /\ good) =>
                ChunkFastCdc(Object(k.data, a, b - a), x.origin, x.cfg).ok = FALSE
    <3>. HIDE DEF good
    <3>1. NextFilled(k, p, x, a, b - a, b - a, good, q, y)
      BY <2>1, FilledNext
    <3>. HIDE DEF q, y
    <3>. QED BY <3>1 DEF NextFilled
  <2>. HIDE DEF q, y
  <2>3. q.ok = TRUE => RegionFill(k, p, y, r, list, a, b)
    BY <1>2, <2>2 DEF RegionFill
  <2>4. ~good => InMemory(k).ok = FALSE
    BY <1>2, NotAdmitted DEF RegionFill, RegionsAt
  <2>5. (q.ok = FALSE /\ good) => InMemory(k).ok = FALSE
    <3>. SUFFICES ASSUME q.ok = FALSE, good PROVE InMemory(k).ok = FALSE
      OBVIOUS
    <3>. DEFINE sub == ChunkFastCdc(Object(k.data, a, b - a), SubOrigin(k.origin, a),
                                    SubConfig(k.cfg, Len(list), b - a))
    <3>1. sub.ok = FALSE
      BY <1>2, <2>2, Zenon DEF RegionFill
    <3>. HIDE DEF sub
    <3>2. sub.ok = FALSE => InMemory(k).ok = FALSE
      BY <1>2, RegionCall DEF RegionFill, sub
    <3>. QED BY <3>1, <3>2
  <2>. QED BY <2>2, <2>3, <2>4, <2>5
<1>. HIDE DEF q, y
<1>3. /\ q \in Results /\ (q.ok = TRUE => FillOk(k, p, y, r, list))
      /\ q.ok = FALSE => InMemory(k).ok = FALSE
  <2>1. CASE WholeFill(k, p, x)
    BY <1>1, <2>1 DEF FillOk
  <2>2. CASE \E a, b : RegionFill(k, p, x, r, list, a, b)
    BY <1>2, <2>2 DEF FillOk
  <2>. QED BY <2>1, <2>2 DEF FillOk
<1>4. q.ok = FALSE => Agrees(k, q)
  BY <1>3, BothRefuse
<1>. QED BY <1>3, <1>4 DEF q, y

-----------------------------------------------------------------------------
(* Calls over a reader: the end of a stream.                               *)

\* chunk_fastcdc_reader ends.
LEMMA WholeEnd ==
    ASSUME NEW k, CallOk(k), NEW p, NEW x, WholeFill(k, p, x), x.buf = 0, x.eof,
           OffsetMax \in Nat
    PROVE  Agrees(k, ValidateChunkCoverage(x.chunks, x.origin, x.size))
<1>. DEFINE good == Fits(Len(k.data), k.origin, k.cfg)
            v == ValidateChunkCoverage(x.chunks, x.origin, x.size)
            D == k.data
            size == x.size
            bytes == x.cfg.bytes
            base == x.origin.base
            left == x.left
            take == x.take
            N == Len(D)
<1>1. Filled(k, p, x, 0, Unlimited, Len(k.data), good) /\ x.origin = k.origin /\ x.cfg = k.cfg
  BY DEF WholeFill
<1>2. /\ good => ChunkFastCdc(Object(D, 0, N), x.origin, x.cfg) = v
      /\ v \in Results /\ x.chunks \in Seq(Drafts) /\ size \in Nat
  <2>. DEFINE T == Unlimited
              n == Len(k.data)
              z == 0
  <2>1. Filled(k, p, x, z, T, n, good)
    BY <1>1
  <2>. HIDE DEF good, T, n, z
  <2>2. /\ good => ChunkFastCdc(Object(k.data, z, n), x.origin, x.cfg) = v
        /\ v \in Results /\ x.chunks \in Seq(Drafts) /\ x.size \in Nat
    BY <2>1, FilledEnd, ZenonT(40)
  <2>. QED BY <2>2 DEF n, z
<1>3. D \in Seq(Nat) /\ k.origin \in Origins /\ k.cfg \in Configs
  BY DEF CallOk
<1>4. InMemory(k) = ChunkFastCdc(D, k.origin, k.cfg) /\ Object(D, 0, N) = D
  BY <1>3, InMemoryIs, ObjectWhole DEF WholeFill
<1>5. CASE good
  <2>1. InMemory(k) = v
    BY <1>1, <1>2, <1>4, <1>5, Zenon
  <2>2. InMemory(k) \in Results
    <3>. HIDE DEF v
    <3>. QED BY <1>2, <2>1, Zenon
  <2>3. Agrees(k, InMemory(k))
    BY <2>2, SameAnswer
  <2>. HIDE DEF v
  <2>4. Agrees(k, v)
    BY <2>1, <2>3, Zenon
  <2>. QED BY <2>4 DEF v
<1>6. CASE ~good
  <2>1. InMemory(k).ok = FALSE
    BY <1>3, <1>4, <1>6, FastCdcIs, ZenonT(40)
  <2>2. x \in CdcRecords /\ ConfigValid(x.cfg) /\ CdcInv(x, p, D, 0, Unlimited)
    BY <1>1 DEF Filled, CdcInv
  <2>3. /\ p = 0 + size + x.buf /\ size + x.buf + left = bytes + 1
        /\ size + x.buf + take = Unlimited /\ size <= bytes
        /\ size > 0 => base + size <= OffsetMax
        /\ x.eof => (p = N \/ left = 0 \/ take = 0)
    BY <2>2 DEF CdcInv
  <2>4. left \in Nat /\ take \in Nat /\ bytes \in Nat /\ base \in Nat /\ N \in Nat
    BY <1>3, <2>2, CdcTypes
  <2>5. ~(N <= bytes /\ base + N <= OffsetMax)
    BY <1>1, <1>6, <2>2 DEF Fits
  <2>6. x.origin \in Origins
    BY <1>1, <1>3
  <2>. HIDE DEF good, v, D, size, bytes, base, left, take, N
  <2>7. size + left = bytes + 1 /\ size + take = OffsetMax + 1 /\ p = size
    BY <1>2, <2>3, <2>4 DEF Unlimited
  <2>8. left # 0
    BY <1>2, <2>3, <2>4, <2>7
  <2>9. take # 0
    BY <1>2, <2>3, <2>4, <2>7
  <2>10. size = N
    BY <2>3, <2>7, <2>8, <2>9
  <2>11. ~(base + size <= OffsetMax)
    BY <2>3, <2>5, <2>10
  <2>12. v.ok = FALSE
    <3>. DEFINE list == x.chunks
                o == x.origin
    <3>1. v = ValidateChunkCoverage(list, o, size) /\ list \in Seq(Drafts) /\ o \in Origins
          /\ ~(o.base + size <= OffsetMax)
      BY <1>2, <2>6, <2>11 DEF v, size, base
    <3>. HIDE DEF list, o
    <3>. QED BY <1>2, <3>1, ValidateIs
  <2>13. Agrees(k, v)
    BY <2>1, <2>12, BothRefuse
  <2>. QED BY <2>13 DEF v
<1>. QED BY <1>5, <1>6

\* A check with one condition, whatever its error is called.
LEMMA OneCheck ==
    ASSUME NEW a \in BOOLEAN, NEW e, NEW v
    PROVE  /\ a => Checked(<<<<a, e>>>>, v) = Ok(v)
           /\ ~a => Checked(<<<<a, e>>>>, v).ok = FALSE
<1>. DEFINE checks == <<<<a, e>>>>
            E == {e}
<1>1. DOMAIN checks = 1 .. 1 /\ 1 \in Nat /\ \A i \in 1 .. 1 : checks[i][2] \in E
  OBVIOUS
<1>2. (\A i \in 1 .. 1 : checks[i][1]) <=> a
  OBVIOUS
<1>. HIDE DEF checks, E
<1>3. /\ (\A i \in 1 .. 1 : checks[i][1]) => Checked(checks, v) = Ok(v)
      /\ (\E i \in 1 .. 1 : ~checks[i][1]) => \E f \in E : Checked(checks, v) = Err(f)
  BY <1>1, CheckedIs
<1>4. ~a => Checked(checks, v).ok = FALSE
  BY <1>2, <1>3, OkIs
<1>. QED BY <1>2, <1>3, <1>4 DEF checks

\* What EndCdc makes of a region's own call.
OfRegion(x, wanted) ==
    AndThen(ValidateChunkCoverage(x.chunks, x.origin, x.size), LAMBDA sub :
        AndThen(Checked(<<<<x.take = 0, "short structural stream">>>>, sub),
            LAMBDA list : ValidateChunkCoverage(list, x.origin, wanted)))

LEMMA OfRegionIs ==
    ASSUME NEW x, NEW wanted,
           LET v == ValidateChunkCoverage(x.chunks, x.origin, x.size)
           IN  v \in Results /\ (v.ok = TRUE => v = Ok(x.chunks))
    PROVE  LET v == ValidateChunkCoverage(x.chunks, x.origin, x.size)
           IN  /\ v.ok = FALSE => OfRegion(x, wanted) = v
               /\ (v.ok = TRUE /\ x.take # 0) => OfRegion(x, wanted).ok = FALSE
               /\ (v.ok = TRUE /\ x.take = 0) =>
                    OfRegion(x, wanted) = ValidateChunkCoverage(x.chunks, x.origin, wanted)
<1>. DEFINE v == ValidateChunkCoverage(x.chunks, x.origin, x.size)
            t == Checked(<<<<x.take = 0, "short structural stream">>>>, x.chunks)
            w == OfRegion(x, wanted)
            u == ValidateChunkCoverage(x.chunks, x.origin, wanted)
<1>1. v \in Results /\ (v.ok = TRUE => v = Ok(x.chunks))
  OBVIOUS
<1>2. w = IF v.ok
          THEN LET s == Checked(<<<<x.take = 0, "short structural stream">>>>, v.val)
               IN  IF s.ok THEN ValidateChunkCoverage(s.val, x.origin, wanted) ELSE s
          ELSE v
  BY Zenon DEF OfRegion, AndThen
<1>3. PICK a \in BOOLEAN : a = (x.take = 0)
  <2>1. (x.take = 0) \in BOOLEAN
    OBVIOUS
  <2>. QED BY <2>1, Zenon
<1>04. PICK e : e = "short structural stream"
  OBVIOUS
<1>4. t = Checked(<<<<a, e>>>>, x.chunks)
  BY <1>3, <1>04, Zenon
<1>5. (a => t = Ok(x.chunks)) /\ (~a => t.ok = FALSE)
  <2>. DEFINE list == x.chunks
  <2>1. t = Checked(<<<<a, e>>>>, list)
    BY <1>4
  <2>. HIDE DEF t, list
  <2>2. (a => t = Ok(list)) /\ (~a => t.ok = FALSE)
    BY <2>1, OneCheck
  <2>. QED BY <2>2 DEF list
<1>. HIDE DEF v, w, u
<1>6. v.ok = FALSE => w = v
  BY <1>2
<1>7. v.ok = TRUE => (v.val = x.chunks /\ w = IF t.ok THEN ValidateChunkCoverage(t.val, x.origin, wanted) ELSE t)
  <2>. SUFFICES ASSUME v.ok = TRUE
       PROVE  v.val = x.chunks /\ w = IF t.ok THEN ValidateChunkCoverage(t.val, x.origin, wanted) ELSE t
    OBVIOUS
  <2>1. v.val = x.chunks
    BY <1>1, OkIs
  <2>. QED BY <1>2, <2>1, Zenon
<1>. HIDE DEF t
<1>8. (v.ok = TRUE /\ a) => w = u
  <2>. SUFFICES ASSUME v.ok = TRUE, a PROVE w = u
    OBVIOUS
  <2>1. t.ok = TRUE /\ t.val = x.chunks
    BY <1>5, OkIs
  <2>. QED BY <1>7, <2>1 DEF u
<1>9. (v.ok = TRUE /\ ~a) => w.ok = FALSE
  BY <1>5, <1>7
<1>. QED BY <1>3, <1>6, <1>8, <1>9 DEF v, w, u

\* A region's own call ends: the list goes on after the region, or both calls refuse.
LEMMA RegionEnds ==
    ASSUME NEW k, CallOk(k), NEW p, NEW x, NEW r, NEW list, NEW a, NEW b,
           RegionFill(k, p, x, r, list, a, b), x.buf = 0, x.eof
    PROVE  /\ OfRegion(x, b - a).ok = TRUE \/ OfRegion(x, b - a).ok = FALSE
           /\ OfRegion(x, b - a).ok = TRUE =>
                AtRegion(k, p, r + 1, list \o Structural(OfRegion(x, b - a).val))
           /\ OfRegion(x, b - a).ok = FALSE => Agrees(k, OfRegion(x, b - a))
<1>. DEFINE v == ValidateChunkCoverage(x.chunks, x.origin, x.size)
            w == OfRegion(x, b - a)
            T == b - a
            size == x.size
            take == x.take
            sub == ChunkFastCdc(Object(k.data, a, b - a), x.origin, x.cfg)
<1>0. /\ RegionsAt(k, r, list) /\ r < Len(k.ends) /\ Bounds(k, r, a, b)
      /\ ~WholeRegion(b - a, k.cfg) /\ Len(list) < k.cfg.chunks
      /\ x.origin = SubOrigin(k.origin, a) /\ x.cfg = SubConfig(k.cfg, Len(list), b - a)
      /\ Filled(k, p, x, a, T, T, Match(k))
  BY DEF RegionFill
<1>1. /\ Match(k) => (size = T /\ sub = v)
      /\ v \in Results /\ (v.ok = TRUE => v = Ok(x.chunks))
      /\ x.chunks \in Seq(Drafts) /\ size \in Nat
  <2>. HIDE DEF T
  <2>1. Filled(k, p, x, a, T, T, Match(k))
    BY <1>0
  <2>2. /\ Match(k) => /\ x.size = T
                       /\ ChunkFastCdc(Object(k.data, a, T), x.origin, x.cfg) = v
        /\ v \in Results /\ (v.ok = TRUE => v = Ok(x.chunks))
        /\ x.chunks \in Seq(Drafts) /\ x.size \in Nat
    BY <2>1, FilledEnd
  <2>. QED BY <2>2 DEF T
<1>2. /\ v.ok = FALSE => w = v
      /\ (v.ok = TRUE /\ take # 0) => w.ok = FALSE
      /\ (v.ok = TRUE /\ take = 0) => w = ValidateChunkCoverage(x.chunks, x.origin, T)
  BY <1>1, OfRegionIs
<1>3. /\ p = a + size + x.buf /\ size + x.buf + take = T /\ take \in Nat /\ p <= Len(k.data)
  BY <1>0, CdcTypes DEF Filled, CdcInv
<1>4. a \in Nat /\ b \in Nat /\ a < b
  BY <1>0 DEF Bounds
<1>5. v.ok = TRUE \/ v.ok = FALSE
  BY <1>1, ResultCases
<1>6. Match(k) =>
        /\ sub.ok = FALSE => InMemory(k).ok = FALSE
        /\ sub.ok = TRUE => TracedRegions(k, r + 1, list \o Structural(sub.val))
  BY <1>0, RegionCall
<1>7. ~Match(k) => InMemory(k).ok = FALSE
  BY <1>0, NotAdmitted DEF RegionsAt
<1>. HIDE DEF v, w, sub
<1>8. take = 0 => (size = T /\ p = b)
  <2>. HIDE DEF size, take
  <2>. QED BY <1>1, <1>3, <1>4
<1>9. Match(k) => take = 0
  <2>. HIDE DEF size, take
  <2>. QED BY <1>1, <1>3, <1>4
<1>10. (v.ok = TRUE /\ take = 0) => w = v
  BY <1>2, <1>8 DEF v
<1>11. w.ok = TRUE \/ w.ok = FALSE
  BY <1>2, <1>5, <1>10
<1>12. w.ok = FALSE => InMemory(k).ok = FALSE
  <2>1. CASE ~Match(k)
    BY <1>7, <2>1
  <2>2. CASE Match(k)
    <3>1. w = v /\ sub = v
      BY <1>1, <1>2, <1>5, <1>9, <1>10, <2>2
    <3>. QED BY <1>6, <2>2, <3>1
  <2>. QED BY <2>1, <2>2
<1>13. w.ok = FALSE => Agrees(k, w)
  BY <1>12, BothRefuse
<1>14. w.ok = TRUE => AtRegion(k, p, r + 1, list \o Structural(w.val))
  <2>. SUFFICES ASSUME w.ok = TRUE PROVE AtRegion(k, p, r + 1, list \o Structural(w.val))
    OBVIOUS
  <2>1. v.ok = TRUE /\ take = 0
    <3>1. w.ok # FALSE
      OBVIOUS
    <3>. QED BY <1>2, <1>5, <3>1
  <2>2. w = v /\ w.val = x.chunks /\ p = b
    <3>1. w = v /\ v = Ok(x.chunks)
      BY <1>1, <1>10, <2>1
    <3>. QED BY <1>8, <2>1, <3>1, OkIs
  <2>3. w.val \in Seq(Drafts)
    BY <1>1, <2>2
  <2>. DEFINE next == list \o Structural(w.val)
  <2>4. next \in Seq(Drafts)
    <3>. DEFINE more == Structural(w.val)
    <3>1. more \in Seq(Drafts) /\ list \in Seq(Drafts)
      BY <1>0, <2>3, StructuralList DEF RegionsAt
    <3>. HIDE DEF more, Drafts
    <3>2. list \o more \in Seq(Drafts)
      BY <3>1
    <3>. QED BY <3>2 DEF more
  <2>5. Match(k) => TracedRegions(k, r + 1, next)
    <3>. SUFFICES ASSUME Match(k) PROVE TracedRegions(k, r + 1, next)
      OBVIOUS
    <3>1. sub = w
      BY <1>1, <2>2
    <3>2. sub.ok = TRUE
      BY <3>1
    <3>3. TracedRegions(k, r + 1, list \o Structural(sub.val))
      BY <1>6, <3>2
    <3>. QED BY <3>1, <3>3
  <2>. HIDE DEF next
  <2>6. r + 1 \in 0 .. Len(k.ends) /\ k.ends # <<>>
    <3>. DEFINE e == k.ends
    <3>1. e \in Seq(Nat) /\ r \in 0 .. Len(e) /\ r < Len(e)
      BY <1>0 DEF CallOk, RegionsAt
    <3>. HIDE DEF e
    <3>2. r + 1 \in 0 .. Len(e) /\ e # <<>>
      BY <3>1
    <3>. QED BY <3>2 DEF e
  <2>7. RegionsAt(k, r + 1, next)
    BY <1>0, <2>4, <2>5, <2>6 DEF RegionsAt
  <2>8. p = RegionStart(k.ends, (r + 1) + 1) /\ p <= Len(k.data)
    BY <1>0, <1>3, <2>2 DEF Bounds
  <2>9. AtRegion(k, p, r + 1, next)
    BY <2>7, <2>8 DEF AtRegion
  <2>. QED BY <2>9 DEF next
<1>. QED BY <1>11, <1>13, <1>14 DEF w

-----------------------------------------------------------------------------
(* Calls over a reader: regions.                                           *)

\* Offsets are unsigned.
LEMMA OffsetIsNat == OffsetMax \in Nat
BY LogicalChunkingAssumption

\* chunk_fastcdc_reader begins.
LEMMA WholeBegins ==
    ASSUME NEW k, CallOk(k), k.kind = "fastcdc_reader", ConfigValid(k.cfg), OffsetMax \in Nat
    PROVE  WholeFill(k, 0, OpenCdc(k.origin, k.cfg, Unlimited))
<1>. DEFINE D == k.data
            o == k.origin
            c == k.cfg
            T == Unlimited
            x == OpenCdc(o, c, T)
            good == Fits(Len(D), o, c)
            z == 0
<1>1. D \in Seq(Nat) /\ o \in Origins /\ c \in Configs /\ ConfigValid(c)
  BY DEF CallOk
<1>2. T \in Nat /\ z \in Nat /\ z <= Len(D) /\ z = 0
  BY <1>1 DEF Unlimited
<1>3. good => (Len(D) \in Nat /\ T > Len(D))
  <2>1. good => o.base + Len(D) <= OffsetMax
    BY DEF Fits
  <2>2. o.base \in Nat /\ Len(D) \in Nat
    BY <1>1 DEF Origins
  <2>. DEFINE base == o.base
              n == Len(D)
  <2>. HIDE DEF base, n, good
  <2>3. (base + n <= OffsetMax) => OffsetMax + 1 > n
    BY <2>2 DEF base, n
  <2>. QED BY <2>1, <2>2, <2>3 DEF base, n, Unlimited
<1>. HIDE DEF D, o, c, T, z
<1>4. /\ CdcInv(x, z, D, z, T) /\ x.origin = o /\ x.cfg = c
      /\ \A d \in Seq(Nat) : Traced(d, x)
  BY <1>1, <1>2, OpenIs
<1>. HIDE DEF x
<1>5. good => GoodAt(x, D, z, T, Len(D))
  <2>1. z + Len(D) = Len(D)
    BY <1>1, <1>2
  <2>2. Len(D) <= Len(D)
    BY <1>1
  <2>. QED BY <1>3, <1>4, <2>1, <2>2 DEF GoodAt
<1>6. Object(D, z, Len(D)) \in Seq(Nat)
  BY <1>1, <1>2, ObjectWhole
<1>7. Filled(k, z, x, z, T, Len(D), good)
  BY <1>4, <1>5, <1>6 DEF Filled, D
<1>. QED BY <1>4, <1>7 DEF WholeFill, x, z, T, D, o, c

LEMMA WholeRefused ==
    ASSUME NEW k, CallOk(k), k.kind = "fastcdc_reader", ~ConfigValid(k.cfg)
    PROVE  Agrees(k, Err("config"))
<1>. DEFINE D == k.data
            o == k.origin
            c == k.cfg
<1>1. D \in Seq(Nat) /\ o \in Origins /\ c \in Configs
  BY DEF CallOk
<1>2. ~Fits(Len(D), o, c)
  BY DEF Fits
<1>3. InMemory(k) = ChunkFastCdc(D, o, c)
  BY InMemoryIs
<1>. HIDE DEF D, o, c
<1>4. InMemory(k).ok = FALSE
  BY <1>1, <1>2, <1>3, FastCdcIs
<1>5. Err("config").ok = FALSE
  BY DEF Err
<1>. QED BY <1>4, <1>5, BothRefuse

\* A region above the maximum begins.
LEMMA RegionBegins ==
    ASSUME NEW k, CallOk(k), NEW p, NEW r, NEW list, AtRegion(k, p, r, list),
           r < Len(k.ends), NEW a, NEW b, Bounds(k, r, a, b),
           ~WholeRegion(b - a, k.cfg), Len(list) < k.cfg.chunks
    PROVE  RegionFill(k, p, OpenCdc(SubOrigin(k.origin, a),
                                    SubConfig(k.cfg, Len(list), b - a), b - a), r, list, a, b)
<1>. DEFINE D == k.data
            len == b - a
            used == Len(list)
            o == SubOrigin(k.origin, a)
            c == SubConfig(k.cfg, used, len)
            x == OpenCdc(o, c, len)
            L == LastEnd(k.ends)
<1>1. D \in Seq(Nat) /\ k.ends \in Seq(Nat) /\ k.origin \in Origins /\ k.cfg \in Configs
  BY DEF CallOk
<1>2. /\ RegionsAt(k, r, list) /\ p = a /\ p <= Len(D) /\ Admitted(k) /\ list \in Seq(Drafts)
  BY DEF AtRegion, RegionsAt, Bounds
<1>3. a \in Nat /\ b \in Nat /\ a < b /\ b <= L /\ L \in Nat /\ Len(D) \in Nat
  BY <1>1, LastEndIs DEF Bounds
<1>4. len \in Nat /\ len > 0 /\ a + len = b
  BY <1>3
<1>5. used \in Nat /\ used < k.cfg.chunks
  BY <1>2
<1>6. Fits(L, k.origin, k.cfg)
  BY <1>2 DEF Admitted
<1>7. ConfigValid(k.cfg) /\ k.origin.base + L <= OffsetMax
  BY <1>6 DEF Fits
<1>8. o \in Origins /\ o.base = k.origin.base + a
  BY <1>1, <1>3, SubOriginIs
<1>. HIDE DEF len, used
<1>9. c \in Configs /\ c.bytes = len /\ ConfigValid(c)
  BY <1>1, <1>4, <1>5, <1>7, SubConfigIs
<1>. HIDE DEF D, o, c, L
<1>10. /\ CdcInv(x, a, D, a, len) /\ x.origin = o /\ x.cfg = c
       /\ \A d \in Seq(Nat) : Traced(d, x)
  BY <1>1, <1>2, <1>3, <1>4, <1>8, <1>9, OpenIs
<1>. HIDE DEF x
<1>11. Match(k) => (GoodAt(x, D, a, len, len) /\ Traced(Object(D, a, len), x))
  <2>. SUFFICES ASSUME Match(k) PROVE GoodAt(x, D, a, len, len) /\ Traced(Object(D, a, len), x)
    OBVIOUS
  <2>1. Len(D) = L
    BY DEF Match, D, L
  <2>2. a + len <= Len(D)
    BY <1>3, <1>4, <2>1
  <2>3. len <= c.bytes
    BY <1>4, <1>9
  <2>4. o.base + len <= OffsetMax
    <3>. DEFINE base == k.origin.base
    <3>1. base \in Nat /\ base + L <= OffsetMax /\ o.base = base + a
      BY <1>1, <1>7, <1>8 DEF Origins
    <3>. HIDE DEF base
    <3>2. (base + a) + len = base + b /\ base + b <= base + L
      BY <1>3, <1>4, <3>1
    <3>. QED BY <1>3, <3>1, <3>2, OffsetIsNat
  <2>5. Fits(len, x.origin, x.cfg)
    BY <1>9, <1>10, <2>3, <2>4 DEF Fits
  <2>6. Object(D, a, len) \in Seq(Nat)
    BY <1>1, <1>3, <1>4, <2>2, ObjectIs
  <2>. QED BY <1>4, <1>10, <2>2, <2>5, <2>6 DEF GoodAt
<1>12. Filled(k, p, x, a, len, len, Match(k))
  BY <1>2, <1>10, <1>11 DEF Filled, D
<1>. QED BY <1>2, <1>10, <1>12 DEF RegionFill, x, o, c, len, used

\* The limit on chunks was used up.
LEMMA RegionRefused ==
    ASSUME NEW k, CallOk(k), NEW p, NEW r, NEW list, AtRegion(k, p, r, list),
           r < Len(k.ends), NEW a, NEW b, Bounds(k, r, a, b),
           ~WholeRegion(b - a, k.cfg), ~(Len(list) < k.cfg.chunks)
    PROVE  Agrees(k, Err("chunk count"))
<1>1. Err("chunk count").ok = FALSE
  BY DEF Err
<1>2. RegionsAt(k, r, list)
  BY DEF AtRegion
<1>3. CASE ~Match(k)
  <2>1. InMemory(k).ok = FALSE
    BY <1>2, <1>3, NotAdmitted DEF RegionsAt
  <2>. QED BY <1>1, <2>1, BothRefuse
<1>4. CASE Match(k)
  <2>1. PICK q : RegionAnswer(k, r, list, a, b, q)
    BY <1>2, <1>4, RegionNext
  <2>2. q.ok = FALSE
    BY <2>1 DEF RegionAnswer, RegionIs
  <2>3. InMemory(k).ok = FALSE
    BY <2>1, <2>2 DEF RegionAnswer
  <2>. QED BY <1>1, <2>3, BothRefuse
<1>. QED BY <1>3, <1>4

\* consume_exact_region: a read of m bytes.
LEMMA ConsumeRead ==
    ASSUME NEW k, CallOk(k), NEW p, NEW z, NEW r, NEW list, NEW a, NEW b,
           InRegion(k, p, z, r, list, a, b), NEW w \in Nat, w > 0,
           NEW m \in ReadOf(k.data, p, Min({z, w}))
    PROVE  /\ m \in Nat /\ m <= z /\ p \in Nat
           /\ m = 0 => ~Match(k)
           /\ (m > 0 /\ m < z) => InRegion(k, p + m, z - m, r, list, a, b)
           /\ m = z => (p + m = b /\ b <= Len(k.data))
<1>. DEFINE D == k.data
            L == LastEnd(k.ends)
            want == Min({z, w})
            N == Len(D)
<1>1. D \in Seq(Nat) /\ k.ends \in Seq(Nat)
  BY DEF CallOk
<1>2. a \in Nat /\ b \in Nat /\ a < b /\ b <= L /\ L \in Nat /\ N \in Nat
  <2>1. Bounds(k, r, a, b)
    BY DEF InRegion
  <2>2. L \in Nat
    BY <1>1, LastEndIs
  <2>3. N \in Nat
    BY <1>1
  <2>4. a \in Nat /\ b \in Nat /\ a < b /\ b <= L
    BY <2>1 DEF Bounds
  <2>. QED BY <2>2, <2>3, <2>4
<1>3. z \in 1 .. (b - a) /\ p = a + ((b - a) - z) /\ p <= N
  BY DEF InRegion
<1>4. z \in Nat /\ z > 0 /\ p \in Nat /\ p + z = b
  BY <1>2, <1>3
<1>5. want = IF z <= w THEN z ELSE w
  BY <1>4, MinTwo
<1>6. want \in Nat /\ want > 0 /\ want <= z
  <2>. HIDE DEF want
  <2>. QED BY <1>4, <1>5
<1>. HIDE DEF want, D
<1>7. m \in ReadOf(D, p, want) /\ p <= Len(D)
  BY <1>3 DEF want, D
<1>8. m \in Nat /\ m <= want /\ p + m <= Len(D) /\ (m = 0 <=> (want = 0 \/ p = Len(D)))
  BY <1>1, <1>4, <1>6, <1>7, ReadIs
<1>. HIDE DEF N, L
<1>9. m \in Nat /\ m <= want /\ p + m <= N /\ (m = 0 <=> (want = 0 \/ p = N))
  BY <1>8 DEF N
<1>10. m <= z /\ (m = 0 => N # L) /\ (m = z => (p + m = b /\ b <= N))
  BY <1>2, <1>4, <1>6, <1>9
<1>11. Match(k) <=> N = L
  BY DEF Match, N, L, D
<1>12. (m > 0 /\ m < z) => (z - m \in 1 .. (b - a) /\ p + m = a + ((b - a) - (z - m)))
  BY <1>2, <1>3, <1>4, <1>9
<1>13. (m > 0 /\ m < z) => InRegion(k, p + m, z - m, r, list, a, b)
  BY <1>9, <1>12 DEF InRegion, N, D
<1>. QED BY <1>4, <1>9, <1>10, <1>11, <1>13 DEF N, D

\* The whole region was read.
LEMMA ConsumeDone ==
    ASSUME NEW k, CallOk(k), NEW p, NEW z, NEW r, NEW list, NEW a, NEW b,
           InRegion(k, p, z, r, list, a, b), b <= Len(k.data),
           NEW q, q = PushRelativeChunk(list, k.origin, a, b - a, "Structural", k.cfg.chunks)
    PROVE  /\ q \in Results
           /\ q.ok = TRUE => AtRegion(k, b, r + 1, q.val)
           /\ q.ok = FALSE => Agrees(k, q)
<1>0. RegionsAt(k, r, list) /\ r < Len(k.ends) /\ Bounds(k, r, a, b) /\ WholeRegion(b - a, k.cfg)
  BY DEF InRegion
<1>1. q \in Results
  <2>. DEFINE o == k.origin
              len == b - a
              limit == k.cfg.chunks
  <2>1. list \in Seq(Drafts) /\ o \in Origins /\ a \in Nat
    BY <1>0 DEF RegionsAt, CallOk, Bounds
  <2>2. len \in Nat
    BY <1>0 DEF Bounds
  <2>3. q = PushRelativeChunk(list, o, a, len, "Structural", limit)
    OBVIOUS
  <2>. HIDE DEF o, len, limit
  <2>4. \A m \in Methods : PushIs(PushRelativeChunk(list, o, a, len, m, limit),
                                   list, o, a, len, m, limit)
    BY <2>1, <2>2, PushAnswers
  <2>5. "Structural" \in Methods
    BY DEF Methods
  <2>6. PushIs(PushRelativeChunk(list, o, a, len, "Structural", limit),
               list, o, a, len, "Structural", limit)
    BY <2>4, <2>5
  <2>. QED BY <2>3, <2>6, Zenon DEF PushIs
<1>2. q.ok = TRUE \/ q.ok = FALSE
  BY <1>1, ResultCases
<1>3. Match(k) => /\ q.ok = FALSE => InMemory(k).ok = FALSE
                  /\ q.ok = TRUE => TracedRegions(k, r + 1, q.val)
  <2>. SUFFICES ASSUME Match(k)
                PROVE  /\ q.ok = FALSE => InMemory(k).ok = FALSE
                       /\ q.ok = TRUE => TracedRegions(k, r + 1, q.val)
    OBVIOUS
  <2>1. PICK f : RegionAnswer(k, r, list, a, b, f)
    BY <1>0, RegionNext
  <2>2. f = q
    BY <1>0, <2>1, Zenon DEF RegionAnswer, RegionIs
  <2>3. q.ok = TRUE => q = Ok(q.val)
    BY <1>1, ResultCases
  <2>. QED BY <2>1, <2>2, <2>3, Zenon DEF RegionAnswer
<1>4. ~Match(k) => InMemory(k).ok = FALSE
  BY <1>0, NotAdmitted DEF RegionsAt
<1>5. q.ok = FALSE => Agrees(k, q)
  BY <1>3, <1>4, BothRefuse
<1>6. ASSUME q.ok = TRUE PROVE AtRegion(k, b, r + 1, q.val)
  <2>1. q.val \in Seq(Drafts)
    BY <1>1, <1>6, ResultCases
  <2>2. r + 1 \in 0 .. Len(k.ends) /\ k.ends # <<>>
    <3>. DEFINE e == k.ends
    <3>1. e \in Seq(Nat) /\ r \in 0 .. Len(e) /\ r < Len(e)
      BY <1>0 DEF CallOk, RegionsAt
    <3>. HIDE DEF e
    <3>2. r + 1 \in 0 .. Len(e) /\ e # <<>>
      BY <3>1
    <3>. QED BY <3>2 DEF e
  <2>3. RegionsAt(k, r + 1, q.val)
    BY <1>0, <1>3, <1>6, <2>1, <2>2 DEF RegionsAt
  <2>4. b = RegionStart(k.ends, (r + 1) + 1)
    BY <1>0 DEF Bounds
  <2>. QED BY <2>3, <2>4 DEF AtRegion
<1>. QED BY <1>1, <1>5, <1>6

\* The read after the last region.
LEMMA TrailingRead ==
    ASSUME NEW k, CallOk(k), NEW p, NEW list, AtRegion(k, p, Len(k.ends), list),
           NEW m \in ReadOf(k.data, p, 1)
    PROVE  /\ m # 0 => Agrees(k, Err("trailing structural data"))
           /\ m = 0 => Agrees(k, ValidateChunkCoverage(list, k.origin, LastEnd(k.ends)))
<1>. DEFINE D == k.data
            e == k.ends
            one == 1
<1>1. D \in Seq(Nat) /\ e \in Seq(Nat) /\ k.origin \in Origins
  BY DEF CallOk
<1>2. RegionsAt(k, Len(e), list) /\ p = RegionStart(e, Len(e) + 1) /\ p <= Len(D)
      /\ list \in Seq(Drafts)
  BY DEF AtRegion, RegionsAt
<1>3. p = LastEnd(e) /\ p \in Nat
  <2>. HIDE DEF e
  <2>1. CASE e = <<>>
    <3>1. Len(e) + 1 = 1 /\ LastEnd(e) = 0
      <4>1. Len(e) = 0
        BY <2>1
      <4>2. LastEnd(e) = 0
        BY <2>1, Zenon DEF LastEnd
      <4>. QED BY <4>1, <4>2
    <3>2. p = RegionStart(e, Len(e) + 1)
      BY <1>2 DEF e
    <3>. QED BY <3>1, <3>2 DEF RegionStart
  <2>2. CASE e # <<>>
    <3>1. Len(e) + 1 # 1 /\ (Len(e) + 1) - 1 = Len(e)
      BY <1>1, <2>2
    <3>. QED BY <1>1, <1>2, <2>2, <3>1, LastEndIs DEF RegionStart
  <2>. QED BY <2>1, <2>2
<1>4. m \in ReadOf(D, p, one) /\ one \in Nat /\ one # 0
  OBVIOUS
<1>. HIDE DEF D, one
<1>5. m = 0 <=> (one = 0 \/ p = Len(D))
  BY <1>1, <1>2, <1>3, <1>4, ReadIs
<1>6. Match(k) <=> m = 0
  BY <1>3, <1>4, <1>5 DEF Match, D
<1>7. m # 0 => Agrees(k, Err("trailing structural data"))
  <2>1. Err("trailing structural data").ok = FALSE
    BY DEF Err
  <2>2. ~Match(k) => InMemory(k).ok = FALSE
    BY <1>2, NotAdmitted DEF RegionsAt
  <2>. QED BY <1>6, <2>1, <2>2, BothRefuse
<1>8. ASSUME m = 0 PROVE Agrees(k, ValidateChunkCoverage(list, k.origin, LastEnd(k.ends)))
  <2>. DEFINE v == ValidateChunkCoverage(list, k.origin, LastEnd(k.ends))
  <2>1. InMemory(k) = v
    BY <1>2, <1>6, <1>8, RegionsDone
  <2>2. v \in Results
    <3>. DEFINE o == k.origin
                n == LastEnd(k.ends)
    <3>1. o \in Origins /\ n \in Nat
      BY <1>1, LastEndIs
    <3>. HIDE DEF o, n
    <3>2. ValidateChunkCoverage(list, o, n) \in Results
      BY <1>2, <3>1, ValidateIs
    <3>. QED BY <3>2 DEF o, n
  <2>. HIDE DEF v
  <2>3. InMemory(k) \in Results
    BY <2>1, <2>2, Zenon
  <2>4. Agrees(k, InMemory(k))
    BY <2>3, SameAnswer
  <2>5. Agrees(k, v)
    BY <2>1, <2>4, Zenon
  <2>. QED BY <2>5 DEF v
<1>. QED BY <1>7, <1>8

-----------------------------------------------------------------------------
(* Calls over a reader: admission.                                         *)

\* Lists of checks, each with its error, and when all of them hold.
Checks == Seq(BOOLEAN \X Errors)
AllHold(s) == \A i \in 1 .. Len(s) : s[i][1]

LEMMA CheckedAll ==
    ASSUME NEW s \in Checks, NEW v
    PROVE  /\ AllHold(s) => Checked(s, v) = Ok(v)
           /\ ~AllHold(s) => Checked(s, v).ok = FALSE
<1>1. Len(s) \in Nat /\ DOMAIN s = 1 .. Len(s) /\ \A i \in 1 .. Len(s) : s[i] \in BOOLEAN \X Errors
  BY DEF Checks
<1>2. \A i \in 1 .. Len(s) : s[i][2] \in Errors
  <2>. TAKE i \in 1 .. Len(s)
  <2>. DEFINE p == s[i]
  <2>1. p \in BOOLEAN \X Errors
    BY <1>1
  <2>. HIDE DEF p, Errors
  <2>2. p[2] \in Errors
    BY <2>1
  <2>. QED BY <2>2 DEF p
<1>3. /\ (\A i \in 1 .. Len(s) : s[i][1]) => Checked(s, v) = Ok(v)
      /\ (\E i \in 1 .. Len(s) : ~s[i][1]) => \E x \in Errors : Checked(s, v) = Err(x)
  BY <1>1, <1>2, CheckedIs
<1>4. ASSUME ~AllHold(s) PROVE Checked(s, v).ok = FALSE
  <2>1. PICK x \in Errors : Checked(s, v) = Err(x)
    BY <1>3, <1>4 DEF AllHold
  <2>. QED BY <2>1, OkIs
<1>. QED BY <1>3, <1>4 DEF AllHold

\* One list of checks after the other.
LEMMA JoinedHold ==
    ASSUME NEW s \in Checks, NEW t \in Checks
    PROVE  s \o t \in Checks /\ (AllHold(s \o t) <=> (AllHold(s) /\ AllHold(t)))
<1>. DEFINE P == BOOLEAN \X Errors
            u == s \o t
<1>1. s \in Seq(P) /\ t \in Seq(P)
  BY DEF Checks
<1>. HIDE DEF P
<1>2. /\ u \in Seq(P) /\ Len(u) = Len(s) + Len(t) /\ Len(s) \in Nat /\ Len(t) \in Nat
      /\ \A i \in 1 .. Len(s) : u[i] = s[i]
      /\ \A i \in 1 .. Len(t) : u[Len(s) + i] = t[i]
  BY <1>1
<1>. HIDE DEF u
<1>3. ASSUME AllHold(u) PROVE AllHold(s) /\ AllHold(t)
  <2>1. ASSUME NEW i \in 1 .. Len(s) PROVE s[i][1]
    <3>1. i \in 1 .. Len(u)
      BY <1>2, <2>1
    <3>. QED BY <1>2, <1>3, <2>1, <3>1 DEF AllHold
  <2>2. ASSUME NEW i \in 1 .. Len(t) PROVE t[i][1]
    <3>1. Len(s) + i \in 1 .. Len(u)
      BY <1>2, <2>2
    <3>2. u[Len(s) + i][1]
      BY <1>3, <3>1 DEF AllHold
    <3>. QED BY <1>2, <2>2, <3>2
  <2>. QED BY <2>1, <2>2 DEF AllHold
<1>4. ASSUME AllHold(s), AllHold(t) PROVE AllHold(u)
  <2>1. ASSUME NEW i \in 1 .. Len(u) PROVE u[i][1]
    <3>1. CASE i \in 1 .. Len(s)
      BY <1>2, <1>4, <3>1 DEF AllHold
    <3>2. CASE i \notin 1 .. Len(s)
      <4>1. i - Len(s) \in 1 .. Len(t) /\ Len(s) + (i - Len(s)) = i
        BY <1>2, <2>1, <3>2
      <4>2. u[i] = t[i - Len(s)] /\ t[i - Len(s)][1]
        BY <1>2, <1>4, <4>1 DEF AllHold
      <4>. QED BY <4>2
    <3>. QED BY <3>1, <3>2
  <2>. QED BY <2>1 DEF AllHold
<1>5. u \in Checks
  BY <1>2 DEF P, Checks
<1>. QED BY <1>3, <1>4, <1>5 DEF u

\* Lists of one, two and three checks.
LEMMA ShortChecks ==
    ASSUME NEW a \in BOOLEAN, NEW b \in BOOLEAN, NEW d \in BOOLEAN,
           NEW e \in Errors, NEW f \in Errors, NEW g \in Errors
    PROVE  /\ <<<<a, e>>>> \in Checks /\ (AllHold(<<<<a, e>>>>) <=> a)
           /\ <<<<a, e>>, <<b, f>>>> \in Checks /\ (AllHold(<<<<a, e>>, <<b, f>>>>) <=> (a /\ b))
           /\ <<<<a, e>>, <<b, f>>, <<d, g>>>> \in Checks
           /\ AllHold(<<<<a, e>>, <<b, f>>, <<d, g>>>>) <=> (a /\ b /\ d)
<1>. HIDE DEF Errors
<1>1. <<<<a, e>>>> \in Checks /\ <<<<a, e>>, <<b, f>>>> \in Checks
      /\ <<<<a, e>>, <<b, f>>, <<d, g>>>> \in Checks
  BY DEF Checks
<1>2. AllHold(<<<<a, e>>>>) <=> a
  BY DEF AllHold
<1>3. AllHold(<<<<a, e>>, <<b, f>>>>) <=> (a /\ b)
  BY DEF AllHold
<1>4. AllHold(<<<<a, e>>, <<b, f>>, <<d, g>>>>) <=> (a /\ b /\ d)
  BY DEF AllHold
<1>. QED BY <1>1, <1>2, <1>3, <1>4

\* What BeginStructuralReader checks.
ReaderChecks(k) ==
    EntryChecks(LastEnd(k.ends), k.origin, k.cfg) \o
        IF LastEnd(k.ends) = 0
        THEN <<<<k.ends = <<>>, "structural boundaries">>>>
        ELSE <<CountCheck(Len(k.ends), k.cfg.chunks),
               <<BoundaryEndsValid(k.ends, LastEnd(k.ends)), "structural boundaries">>>>

LEMMA AdmittedIs ==
    ASSUME NEW k, CallOk(k)
    PROVE  LET adm == Checked(ReaderChecks(k), <<>>)
           IN  (Admitted(k) => adm = Ok(<<>>)) /\ (~Admitted(k) => adm.ok = FALSE)
<1>. DEFINE ends == k.ends
            o == k.origin
            c == k.cfg
            n == LastEnd(ends)
            adm == Checked(ReaderChecks(k), <<>>)
            first == EntryChecks(n, o, c)
            two == <<CountCheck(Len(ends), c.chunks),
                     <<BoundaryEndsValid(ends, n), "structural boundaries">>>>
            more == IF n = 0 THEN <<<<ends = <<>>, "structural boundaries">>>> ELSE two
            fits == Fits(n, o, c)
            bev == Len(ends) <= c.chunks /\ BoundaryEndsValid(ends, n)
<1>1. ends \in Seq(Nat) /\ o \in Origins /\ c \in Configs
  BY DEF CallOk
<1>2. n \in Nat
  BY <1>1, LastEndIs
<1>3. adm = Checked(first \o more, <<>>)
  BY DEF ReaderChecks
<1>4. Admitted(k) <=> (fits /\ (n = 0 => ends = <<>>) /\ (n # 0 => bev))
  BY DEF Admitted
<1>. HIDE DEF ends, o, c, n, adm
<1>5. PICK a \in BOOLEAN, b \in BOOLEAN, d \in BOOLEAN, e \in Errors, f \in Errors, g \in Errors :
         /\ fits <=> (a /\ b /\ d)
         /\ first = <<<<a, e>>, <<b, f>>, <<d, g>>>>
  <2>1. \E a, b, d \in BOOLEAN : \E e, f, g \in Errors :
            /\ Fits(n, o, c) <=> (a /\ b /\ d)
            /\ EntryChecks(n, o, c) = <<<<a, e>>, <<b, f>>, <<d, g>>>>
    BY <1>1, <1>2, EntryChecksAre
  <2>. QED BY <2>1
<1>6. PICK i \in Errors : i = "structural boundaries"
  BY DEF Errors
<1>7. first \in Checks /\ (AllHold(first) <=> fits)
  <2>. HIDE DEF first, fits
  <2>. QED BY <1>5, ShortChecks, ZenonT(40)
<1>8. more \in Checks /\ (AllHold(more) <=> ((n = 0 => ends = <<>>) /\ (n # 0 => bev)))
  <2>1. CASE n = 0
    <3>1. PICK h \in BOOLEAN : h = (ends = <<>>)
      <4>1. (ends = <<>>) \in BOOLEAN
        OBVIOUS
      <4>. QED BY <4>1, Zenon
    <3>2. more = <<<<h, i>>>>
      BY <1>6, <2>1, <3>1, Zenon
    <3>. HIDE DEF more
    <3>3. <<<<h, i>>>> \in Checks /\ (AllHold(<<<<h, i>>>>) <=> h)
      BY ShortChecks
    <3>. QED BY <2>1, <3>1, <3>2, <3>3, Zenon
  <2>2. CASE n # 0
    <3>1. PICK h \in BOOLEAN, l \in BOOLEAN, s \in Errors, t \in Errors :
            (bev <=> (h /\ l)) /\ two = <<<<h, s>>, <<l, t>>>>
      <4>1. \E h, l \in BOOLEAN : \E s, t \in Errors :
              /\ (Len(ends) <= c.chunks /\ BoundaryEndsValid(ends, n)) <=> (h /\ l)
              /\ <<CountCheck(Len(ends), c.chunks),
                   <<BoundaryEndsValid(ends, n), "structural boundaries">>>>
                   = <<<<h, s>>, <<l, t>>>>
        BY <1>1, <1>2, EndsChecked
      <4>. QED BY <4>1
    <3>. HIDE DEF two, bev
    <3>2. more = <<<<h, s>>, <<l, t>>>>
      BY <2>2, <3>1, Zenon
    <3>. HIDE DEF more
    <3>3. <<<<h, s>>, <<l, t>>>> \in Checks /\ (AllHold(<<<<h, s>>, <<l, t>>>>) <=> (h /\ l))
      BY ShortChecks, ZenonT(40)
    <3>. QED BY <2>2, <3>1, <3>2, <3>3, Zenon
  <2>. QED BY <2>1, <2>2
<1>. HIDE DEF first, fits, more, bev
<1>9. first \o more \in Checks /\ (AllHold(first \o more) <=> Admitted(k))
  <2>1. first \o more \in Checks /\ (AllHold(first \o more) <=> (AllHold(first) /\ AllHold(more)))
    BY <1>7, <1>8, JoinedHold
  <2>. QED BY <1>4, <1>7, <1>8, <2>1, Zenon
<1>10. (Admitted(k) => adm = Ok(<<>>)) /\ (~Admitted(k) => adm.ok = FALSE)
  <2>. DEFINE all == first \o more
  <2>1. all \in Checks /\ (AllHold(all) <=> Admitted(k)) /\ adm = Checked(all, <<>>)
    BY <1>3, <1>9
  <2>. HIDE DEF all
  <2>. QED BY <2>1, CheckedAll
<1>. QED BY <1>10 DEF adm

\* chunk_structural_reader begins.
LEMMA StructuralBegins ==
    ASSUME NEW k, CallOk(k), k.kind = "structural_reader"
    PROVE  LET adm == Checked(ReaderChecks(k), <<>>)
           IN  /\ adm.ok = TRUE \/ adm.ok = FALSE
               /\ adm.ok = TRUE => AtRegion(k, 0, 0, <<>>)
               /\ adm.ok = FALSE => Agrees(k, adm)
<1>. DEFINE adm == Checked(ReaderChecks(k), <<>>)
<1>1. (Admitted(k) => adm = Ok(<<>>)) /\ (~Admitted(k) => adm.ok = FALSE)
  BY AdmittedIs
<1>. HIDE DEF adm
<1>2. Admitted(k) => adm.ok = TRUE
  BY <1>1, OkIs
<1>3. adm.ok = FALSE => Agrees(k, adm)
  <2>. SUFFICES ASSUME adm.ok = FALSE PROVE Agrees(k, adm)
    OBVIOUS
  <2>1. ~Admitted(k)
    BY <1>2
  <2>2. InMemory(k).ok = FALSE
    BY <2>1, NotAdmitted
  <2>. QED BY <2>2, BothRefuse
<1>4. ASSUME Admitted(k) PROVE AtRegion(k, 0, 0, <<>>)
  <2>. DEFINE D == k.data
              e == k.ends
              o == k.origin
              c == k.cfg
  <2>1. D \in Seq(Nat) /\ e \in Seq(Nat) /\ o \in Origins /\ c \in Configs
    BY DEF CallOk
  <2>2. <<>> \in Seq(Drafts) /\ 0 \in 0 .. Len(e) /\ 0 <= Len(D)
    BY <2>1
  <2>3. RegionStart(e, 0 + 1) = 0
    BY DEF RegionStart
  <2>4. (Match(k) /\ e # <<>>) => TracedRegions(k, 0, <<>>)
    <3>. SUFFICES ASSUME Match(k), e # <<>> PROVE TracedRegions(k, 0, <<>>)
      OBVIOUS
    <3>1. EndsOk(e, LastEnd(e)) /\ LastEnd(e) = Len(D)
      BY <1>4, EndsOfAdmitted DEF Match
    <3>. HIDE DEF D, e, o, c
    <3>2. EndsOk(e, Len(D))
      BY <3>1
    <3>3. PICK G : RegionsTrace(D, e, o, c, G)
      BY <2>1, <3>2, RegionsTraceExists
    <3>4. G[0] = Ok(<<>>)
      BY <3>3 DEF RegionsTrace
    <3>. QED BY <3>3, <3>4, Zenon DEF TracedRegions, D, e, o, c
  <2>5. RegionsAt(k, 0, <<>>)
    BY <1>4, <2>2, <2>4 DEF RegionsAt
  <2>. QED BY <2>2, <2>3, <2>5 DEF AtRegion
<1>5. adm.ok = TRUE => AtRegion(k, 0, 0, <<>>)
  BY <1>1, <1>4
<1>6. adm.ok = TRUE \/ adm.ok = FALSE
  BY <1>1, <1>2
<1>. QED BY <1>3, <1>5, <1>6 DEF adm

-----------------------------------------------------------------------------
(* The invariant.                                                          *)

\* Where a call is and what it has so far: the in-memory call's answer for as much of
\* the data.
StreamInv ==
    /\ chunkPc # "idle" => CallOk(call)
    /\ chunkPc = "called" => (pos = 0 /\ region = 0 /\ chunks = <<>>)
    /\ chunkPc = "fill" => FillOk(call, pos, cdc, region, chunks)
    /\ chunkPc = "region" => AtRegion(call, pos, region, chunks)
    /\ chunkPc = "consume" => \E a, b : InRegion(call, pos, need, region, chunks, a, b)
    /\ (Ended /\ call.kind \in Readers) => Agrees(call, outcome)

\* What a step has to show, by where it leads.
LEMMA ReturnKeeps ==
    ASSUME CallOk(call), call' = call, NEW r, Return(r), call.kind \in Readers => Agrees(call, r)
    PROVE  StreamInv'
<1>1. chunkPc' = "returned" /\ outcome' = r
  BY DEF Return
<1>2. CallOk(call')
  OBVIOUS
<1>3. call'.kind \in Readers => Agrees(call', outcome')
  BY <1>1
<1>. QED BY <1>1, <1>2, <1>3 DEF StreamInv

LEMMA FillingKeeps ==
    ASSUME CallOk(call), call' = call, chunkPc' = "fill",
           FillOk(call', pos', cdc', region', chunks')
    PROVE  StreamInv'
<1>1. CallOk(call')
  OBVIOUS
<1>. QED BY <1>1 DEF StreamInv, Ended

LEMMA RegionKeeps ==
    ASSUME CallOk(call), call' = call, chunkPc' = "region",
           AtRegion(call', pos', region', chunks')
    PROVE  StreamInv'
<1>1. CallOk(call')
  OBVIOUS
<1>. QED BY <1>1 DEF StreamInv, Ended

LEMMA ConsumingKeeps ==
    ASSUME CallOk(call), call' = call, chunkPc' = "consume", NEW a, NEW b,
           InRegion(call', pos', need', region', chunks', a, b)
    PROVE  StreamInv'
<1>1. CallOk(call')
  OBVIOUS
<1>. QED BY <1>1 DEF StreamInv, Ended

\* One lemma per action.
LEMMA StreamBeginMemory ==
    ASSUME StreamInv, BeginMemory
    PROVE  StreamInv'
<1>1. CallOk(call) /\ call' = call /\ call.kind \notin Readers /\ Return(InMemory(call))
  BY DEF BeginMemory, StreamInv
<1>. QED BY <1>1, ReturnKeeps

LEMMA StreamBeginFastCdc ==
    ASSUME StreamInv, BeginFastCdcReader
    PROVE  StreamInv'
<1>1. CallOk(call) /\ call' = call /\ call.kind = "fastcdc_reader" /\ pos = 0
  BY DEF BeginFastCdcReader, StreamInv
<1>2. CASE ConfigValid(call.cfg)
  <2>1. chunkPc' = "fill" /\ cdc' = OpenCdc(call.origin, call.cfg, Unlimited) /\ pos' = pos
    BY <1>2 DEF BeginFastCdcReader
  <2>2. WholeFill(call, 0, OpenCdc(call.origin, call.cfg, Unlimited))
    BY <1>1, <1>2, WholeBegins, OffsetIsNat
  <2>3. WholeFill(call', pos', cdc')
    BY <1>1, <2>1, <2>2, Zenon
  <2>4. FillOk(call', pos', cdc', region', chunks')
    BY <2>3 DEF FillOk
  <2>. QED BY <1>1, <2>1, <2>4, FillingKeeps
<1>3. CASE ~ConfigValid(call.cfg)
  <2>1. Return(Err("config"))
    BY <1>3 DEF BeginFastCdcReader
  <2>2. Agrees(call, Err("config"))
    BY <1>1, <1>3, WholeRefused
  <2>. QED BY <1>1, <2>1, <2>2, ReturnKeeps
<1>. QED BY <1>2, <1>3

LEMMA StreamBeginStructural ==
    ASSUME StreamInv, BeginStructuralReader
    PROVE  StreamInv'
<1>. DEFINE adm == Checked(ReaderChecks(call), <<>>)
<1>1. /\ CallOk(call) /\ call' = call /\ call.kind = "structural_reader"
      /\ pos = 0 /\ region = 0 /\ chunks = <<>>
  BY DEF BeginStructuralReader, StreamInv
<1>2. /\ IF adm.ok THEN chunkPc' = "region" /\ UNCHANGED outcome ELSE Return(adm)
      /\ UNCHANGED <<call, pos, cdc, region, need, chunks, ids>>
  BY Zenon DEF BeginStructuralReader, ReaderChecks
<1>3. /\ adm.ok = TRUE \/ adm.ok = FALSE
      /\ adm.ok = TRUE => AtRegion(call, 0, 0, <<>>)
      /\ adm.ok = FALSE => Agrees(call, adm)
  BY <1>1, StructuralBegins
<1>. HIDE DEF adm
<1>4. CASE adm.ok = TRUE
  <2>1. chunkPc' = "region" /\ pos' = pos /\ region' = region /\ chunks' = chunks
    BY <1>2, <1>4
  <2>2. AtRegion(call', pos', region', chunks')
    BY <1>1, <1>3, <1>4, <2>1, Zenon
  <2>. QED BY <1>1, <2>1, <2>2, RegionKeeps
<1>5. CASE adm.ok = FALSE
  <2>1. Return(adm)
    BY <1>2, <1>5
  <2>. QED BY <1>1, <1>3, <1>5, <2>1, ReturnKeeps
<1>. QED BY <1>3, <1>4, <1>5

LEMMA StreamFill ==
    ASSUME StreamInv, FillBuffer
    PROVE  StreamInv'
<1>1. CallOk(call) /\ call' = call /\ FillOk(call, pos, cdc, region, chunks)
      /\ chunkPc' = "fill" /\ region' = region /\ chunks' = chunks
  BY DEF FillBuffer, Filling, StreamInv
<1>2. PICK n \in Returned(Min({cdc.left, cdc.cfg.max - cdc.buf, cdc.take})) :
          pos' = pos + n /\ cdc' = AfterRead(cdc, n)
  BY DEF FillBuffer, AfterRead
<1>3. ReadAt(cdc, pos, call.data, n)
  BY <1>2, Zenon DEF FillBuffer, Filling, ReadAt, Returned, ReadOf
<1>4. FillOk(call, pos + n, AfterRead(cdc, n), region, chunks)
  BY <1>1, <1>3, FillRead
<1>5. FillOk(call', pos', cdc', region', chunks')
  BY <1>1, <1>2, <1>4, Zenon
<1>. QED BY <1>1, <1>5, FillingKeeps

LEMMA StreamNextChunk ==
    ASSUME StreamInv, NextChunk
    PROVE  StreamInv'
<1>. DEFINE len == Cut(Buffer(call.data, pos, cdc.buf), 0, cdc.cfg)
            q == NextPush(cdc, len)
<1>1. CallOk(call) /\ call' = call /\ FillOk(call, pos, cdc, region, chunks)
      /\ chunkPc = "fill" /\ pos' = pos /\ region' = region /\ chunks' = chunks
  BY DEF NextChunk, StreamInv
<1>2. CutAtBuffer(cdc, pos, call.data, len)
  <2>1. cdc.buf > 0 /\ ~(~cdc.eof /\ cdc.buf < cdc.cfg.max)
    BY DEF NextChunk, Filling
  <2>. HIDE DEF len
  <2>. QED BY <2>1 DEF CutAtBuffer, len
<1>3. IF q.ok
      THEN /\ cdc' = AfterChunk(cdc, len, q.val)
           /\ UNCHANGED <<chunkPc, outcome>>
      ELSE Return(q) /\ UNCHANGED cdc
  BY Zenon DEF NextChunk, NextPush, Buffer, AfterChunk
<1>. HIDE DEF len
<1>4. /\ q \in Results
      /\ q.ok = TRUE => FillOk(call, pos, AfterChunk(cdc, len, q.val), region, chunks)
      /\ q.ok = FALSE => Agrees(call, q)
  BY <1>1, <1>2, FillNext
<1>. HIDE DEF q
<1>5. CASE q.ok = TRUE
  <2>1. cdc' = AfterChunk(cdc, len, q.val) /\ chunkPc' = "fill"
    BY <1>1, <1>3, <1>5
  <2>2. FillOk(call', pos', cdc', region', chunks')
    BY <1>1, <1>4, <1>5, <2>1, Zenon
  <2>. QED BY <1>1, <2>1, <2>2, FillingKeeps
<1>6. CASE q.ok = FALSE
  <2>1. Return(q)
    BY <1>3, <1>6
  <2>. QED BY <1>1, <1>4, <1>6, <2>1, ReturnKeeps
<1>7. q.ok = TRUE \/ q.ok = FALSE
  BY <1>4, ResultCases
<1>. QED BY <1>5, <1>6, <1>7

LEMMA StreamEndCdc ==
    ASSUME StreamInv, EndCdc
    PROVE  StreamInv'
<1>1. CallOk(call) /\ call' = call /\ FillOk(call, pos, cdc, region, chunks)
      /\ pos' = pos /\ cdc.eof /\ cdc.buf = 0
  BY DEF EndCdc, StreamInv
<1>. DEFINE wanted == call.ends[region + 1] - RegionStart(call.ends, region + 1)
            v == ValidateChunkCoverage(cdc.chunks, cdc.origin, cdc.size)
            q == OfRegion(cdc, wanted)
<1>2. IF call.kind = "fastcdc_reader"
      THEN Return(v) /\ UNCHANGED <<chunks, region>>
      ELSE IF q.ok
      THEN /\ chunks' = chunks \o Structural(q.val)
           /\ region' = region + 1
           /\ chunkPc' = "region"
           /\ UNCHANGED outcome
      ELSE Return(q) /\ UNCHANGED <<chunks, region>>
  BY Zenon DEF EndCdc, OfRegion
<1>. HIDE DEF q, v, wanted
<1>3. CASE WholeFill(call, pos, cdc)
  <2>1. Agrees(call, v)
    BY <1>1, <1>3, WholeEnd, OffsetIsNat DEF v
  <2>2. Return(v)
    BY <1>2, <1>3 DEF WholeFill
  <2>. QED BY <1>1, <2>1, <2>2, ReturnKeeps
<1>4. ASSUME NEW a, NEW b, RegionFill(call, pos, cdc, region, chunks, a, b)
      PROVE  StreamInv'
  <2>1. call.kind = "structural_reader" /\ Bounds(call, region, a, b)
    BY <1>4 DEF RegionFill, RegionsAt
  <2>2. call.kind # "fastcdc_reader"
    BY <2>1
  <2>3. wanted = b - a
    BY <2>1 DEF Bounds, wanted
  <2>4. /\ q.ok = TRUE \/ q.ok = FALSE
        /\ q.ok = TRUE => AtRegion(call, pos, region + 1, chunks \o Structural(q.val))
        /\ q.ok = FALSE => Agrees(call, q)
    <3>. DEFINE w == OfRegion(cdc, b - a)
    <3>1. /\ w.ok = TRUE \/ w.ok = FALSE
          /\ w.ok = TRUE => AtRegion(call, pos, region + 1, chunks \o Structural(w.val))
          /\ w.ok = FALSE => Agrees(call, w)
      BY <1>1, <1>4, RegionEnds
    <3>2. q = w
      BY <2>3, Zenon DEF q
    <3>. HIDE DEF w
    <3>. QED BY <3>1, <3>2, Zenon
  <2>5. CASE q.ok = TRUE
    <3>1. chunks' = chunks \o Structural(q.val) /\ region' = region + 1 /\ chunkPc' = "region"
      BY <1>2, <2>2, <2>5
    <3>2. AtRegion(call', pos', region', chunks')
      BY <1>1, <2>4, <2>5, <3>1, Zenon
    <3>. QED BY <1>1, <3>1, <3>2, RegionKeeps
  <2>6. CASE q.ok = FALSE
    <3>1. Return(q)
      BY <1>2, <2>2, <2>6
    <3>. QED BY <1>1, <2>4, <2>6, <3>1, ReturnKeeps
  <2>. QED BY <2>4, <2>5, <2>6
<1>. QED BY <1>1, <1>3, <1>4 DEF FillOk

LEMMA StreamBeginRegion ==
    ASSUME StreamInv, BeginRegion
    PROVE  StreamInv'
<1>. DEFINE a == RegionStart(call.ends, region + 1)
            b == call.ends[region + 1]
<1>1. /\ CallOk(call) /\ call' = call /\ AtRegion(call, pos, region, chunks)
      /\ region < Len(call.ends) /\ pos' = pos /\ region' = region /\ chunks' = chunks
  BY DEF BeginRegion, StreamInv
<1>2. \/ /\ WholeRegion(b - a, call.cfg)
         /\ chunkPc' = "consume" /\ need' = b - a
      \/ /\ ~WholeRegion(b - a, call.cfg) /\ Len(chunks) < call.cfg.chunks
         /\ chunkPc' = "fill"
         /\ cdc' = OpenCdc(SubOrigin(call.origin, a), SubConfig(call.cfg, Len(chunks), b - a), b - a)
      \/ /\ ~WholeRegion(b - a, call.cfg) /\ Len(chunks) >= call.cfg.chunks
         /\ Return(Err("chunk count"))
  BY Zenon DEF BeginRegion
<1>3. Bounds(call, region, a, b)
  <2>1. RegionsAt(call, region, chunks)
    BY <1>1 DEF AtRegion
  <2>. QED BY <1>1, <2>1, BoundsAre DEF RegionsAt
<1>. HIDE DEF a, b
<1>4. CASE /\ WholeRegion(b - a, call.cfg)
           /\ chunkPc' = "consume" /\ need' = b - a
  <2>1. a \in Nat /\ b \in Nat /\ a < b /\ pos = a /\ pos <= Len(call.data)
    BY <1>1, <1>3 DEF Bounds, AtRegion, a
  <2>. DEFINE z == b - a
  <2>2. z \in 1 .. (b - a) /\ a = a + ((b - a) - z)
    BY <2>1
  <2>. HIDE DEF z
  <2>3. InRegion(call, pos, z, region, chunks, a, b)
    BY <1>1, <1>3, <1>4, <2>1, <2>2 DEF InRegion, AtRegion
  <2>4. InRegion(call', pos', need', region', chunks', a, b)
    BY <1>1, <1>4, <2>3, Zenon DEF z
  <2>. QED BY <1>1, <1>4, <2>4, ConsumingKeeps
<1>5. CASE /\ ~WholeRegion(b - a, call.cfg) /\ Len(chunks) < call.cfg.chunks
           /\ chunkPc' = "fill"
           /\ cdc' = OpenCdc(SubOrigin(call.origin, a), SubConfig(call.cfg, Len(chunks), b - a), b - a)
  <2>1. RegionFill(call, pos, OpenCdc(SubOrigin(call.origin, a),
                                      SubConfig(call.cfg, Len(chunks), b - a), b - a),
                   region, chunks, a, b)
    BY <1>1, <1>3, <1>5, RegionBegins
  <2>2. RegionFill(call', pos', cdc', region', chunks', a, b)
    BY <1>1, <1>5, <2>1, Zenon
  <2>3. FillOk(call', pos', cdc', region', chunks')
    BY <2>2 DEF FillOk
  <2>. QED BY <1>1, <1>5, <2>3, FillingKeeps
<1>6. CASE /\ ~WholeRegion(b - a, call.cfg) /\ Len(chunks) >= call.cfg.chunks
           /\ Return(Err("chunk count"))
  <2>1. ~(Len(chunks) < call.cfg.chunks)
    <3>1. chunks \in Seq(Drafts) /\ call.cfg.chunks \in Nat
      BY <1>1 DEF AtRegion, RegionsAt, CallOk, Configs
    <3>2. Len(chunks) \in Nat
      BY <3>1
    <3>. DEFINE i == Len(chunks)
                j == call.cfg.chunks
    <3>3. i >= j /\ i \in Nat /\ j \in Nat
      BY <1>6, <3>1, <3>2
    <3>. HIDE DEF i, j
    <3>4. ~(i < j)
      BY <3>3
    <3>. QED BY <3>4 DEF i, j
  <2>2. Agrees(call, Err("chunk count"))
    BY <1>1, <1>3, <1>6, <2>1, RegionRefused
  <2>. QED BY <1>1, <1>6, <2>2, ReturnKeeps
<1>. QED BY <1>2, <1>4, <1>5, <1>6

LEMMA StreamConsume ==
    ASSUME StreamInv, ConsumeExactRegion
    PROVE  StreamInv'
<1>1. CallOk(call) /\ call' = call
  BY DEF ConsumeExactRegion, StreamInv
<1>2. PICK a, b : InRegion(call, pos, need, region, chunks, a, b)
  BY DEF ConsumeExactRegion, StreamInv
<1>. DEFINE q == PushRelativeChunk(chunks, call.origin, a, b - a, "Structural", call.cfg.chunks)
<1>3. a = RegionStart(call.ends, region + 1) /\ b = call.ends[region + 1]
  BY <1>2 DEF InRegion, Bounds
<1>4. PICK n \in Returned(Min({need, ReadBuffer})) :
         /\ pos' = pos + n /\ need' = need - n
         /\ \/ /\ n = 0
               /\ Return(Err("short structural stream"))
            \/ /\ n > 0 /\ n < need
               /\ UNCHANGED <<chunkPc, outcome, chunks, region>>
            \/ /\ n > 0 /\ n = need /\ q.ok
               /\ chunks' = q.val /\ region' = region + 1
               /\ chunkPc' = "region"
            \/ /\ n > 0 /\ n = need /\ ~q.ok
               /\ Return(q)
  BY <1>3, Zenon DEF ConsumeExactRegion
<1>. HIDE DEF q
<1>5. n \in ReadOf(call.data, pos, Min({need, ReadBuffer}))
  BY Zenon DEF Returned, ReadOf
<1>6. /\ n \in Nat /\ n <= need /\ pos \in Nat
      /\ n = 0 => ~Match(call)
      /\ (n > 0 /\ n < need) => InRegion(call, pos + n, need - n, region, chunks, a, b)
      /\ n = need => (pos + n = b /\ b <= Len(call.data))
  <2>1. ReadBuffer \in Nat /\ ReadBuffer > 0
    BY LogicalChunkingAssumption
  <2>. QED BY <1>1, <1>2, <1>5, <2>1, ConsumeRead
<1>7. n = need =>
        /\ q \in Results
        /\ q.ok = TRUE => AtRegion(call, b, region + 1, q.val)
        /\ q.ok = FALSE => Agrees(call, q)
  BY <1>1, <1>2, <1>6, ConsumeDone DEF q
<1>8. CASE n = 0 /\ Return(Err("short structural stream"))
  <2>1. InMemory(call).ok = FALSE
    BY <1>1, <1>2, <1>6, <1>8, NotAdmitted DEF InRegion, RegionsAt
  <2>2. Err("short structural stream").ok = FALSE
    BY DEF Err
  <2>3. Agrees(call, Err("short structural stream"))
    BY <2>1, <2>2, BothRefuse
  <2>. QED BY <1>1, <1>8, <2>3, ReturnKeeps
<1>9. CASE n > 0 /\ n < need /\ UNCHANGED <<chunkPc, outcome, chunks, region>>
  <2>1. chunkPc' = "consume" /\ chunks' = chunks /\ region' = region
    BY <1>9 DEF ConsumeExactRegion
  <2>2. InRegion(call', pos', need', region', chunks', a, b)
    BY <1>1, <1>4, <1>6, <1>9, <2>1, Zenon
  <2>. QED BY <1>1, <2>1, <2>2, ConsumingKeeps
<1>10. CASE n > 0 /\ n = need /\ q.ok /\ chunks' = q.val /\ region' = region + 1 /\ chunkPc' = "region"
  <2>1. q.ok = TRUE
    BY <1>7, <1>10, ResultCases
  <2>2. AtRegion(call, b, region + 1, q.val) /\ pos' = b
    BY <1>4, <1>6, <1>7, <1>10, <2>1
  <2>3. AtRegion(call', pos', region', chunks')
    BY <1>1, <1>10, <2>2, Zenon
  <2>. QED BY <1>1, <1>10, <2>3, RegionKeeps
<1>11. CASE n > 0 /\ n = need /\ ~q.ok /\ Return(q)
  <2>1. q.ok = FALSE
    BY <1>7, <1>11, ResultCases
  <2>2. Agrees(call, q)
    BY <1>7, <1>11, <2>1
  <2>. QED BY <1>1, <1>11, <2>2, ReturnKeeps
<1>. QED BY <1>4, <1>8, <1>9, <1>10, <1>11

LEMMA StreamTrailing ==
    ASSUME StreamInv, ReadTrailing
    PROVE  StreamInv'
<1>1. /\ CallOk(call) /\ call' = call /\ AtRegion(call, pos, region, chunks)
      /\ region = Len(call.ends)
  BY DEF ReadTrailing, StreamInv
<1>. DEFINE v == ValidateChunkCoverage(chunks, call.origin, LastEnd(call.ends))
<1>2. PICK n \in Returned(1) : Return(IF n # 0 THEN Err("trailing structural data") ELSE v)
  BY Zenon DEF ReadTrailing
<1>3. n \in ReadOf(call.data, pos, 1)
  BY Zenon DEF Returned, ReadOf
<1>4. AtRegion(call, pos, Len(call.ends), chunks)
  BY <1>1, Zenon
<1>5. /\ n # 0 => Agrees(call, Err("trailing structural data"))
      /\ n = 0 => Agrees(call, v)
  BY <1>1, <1>3, <1>4, TrailingRead
<1>. HIDE DEF v
<1>6. CASE n # 0
  <2>1. Return(Err("trailing structural data"))
    BY <1>2, <1>6
  <2>. QED BY <1>1, <1>5, <1>6, <2>1, ReturnKeeps
<1>7. CASE n = 0
  <2>1. Return(v)
    BY <1>2, <1>7
  <2>. QED BY <1>1, <1>5, <1>7, <2>1, ReturnKeeps
<1>. QED BY <1>6, <1>7

LEMMA StreamReadFails ==
    ASSUME StreamInv, ReadFails
    PROVE  StreamInv'
<1>1. CallOk(call) /\ call' = call /\ Return(Err("io"))
  BY DEF ReadFails, StreamInv, Filling
<1>2. \A e \in Faults : Agrees(call, Err(e))
  BY FaultsAgree
<1>3. Agrees(call, Err("io"))
  BY <1>2 DEF Faults
<1>. QED BY <1>1, <1>3, ReturnKeeps

LEMMA StreamCheckpoint ==
    ASSUME StreamInv, CheckpointFails
    PROVE  StreamInv'
<1>1. CallOk(call) /\ call' = call /\ Return(Err("cancelled"))
  BY DEF CheckpointFails, StreamInv
<1>2. \A e \in Faults : Agrees(call, Err(e))
  BY FaultsAgree
<1>3. Agrees(call, Err("cancelled"))
  BY <1>2 DEF Faults
<1>. QED BY <1>1, <1>3, ReturnKeeps

LEMMA StreamAssignIds ==
    ASSUME StreamInv, AssignIds
    PROVE  StreamInv'
<1>1. chunkPc = "returned" /\ chunkPc' = "assigned" /\ call' = call /\ outcome' = outcome
  BY DEF AssignIds
<1>2. CallOk(call) /\ (call.kind \in Readers => Agrees(call, outcome))
  BY <1>1 DEF StreamInv, Ended
<1>3. CallOk(call') /\ (call'.kind \in Readers => Agrees(call', outcome'))
  BY <1>1, <1>2, Zenon
<1>. QED BY <1>1, <1>3 DEF StreamInv

\* Every step keeps the invariant.
LEMMA StreamStep ==
    ASSUME StreamInv, [Next]_vars
    PROVE  StreamInv'
<1>1. CASE ChunkNext
  BY <1>1, StreamBeginMemory, StreamBeginFastCdc, StreamBeginStructural, StreamFill,
     StreamNextChunk, StreamEndCdc, StreamBeginRegion, StreamConsume, StreamTrailing,
     StreamReadFails, StreamCheckpoint, StreamAssignIds DEF ChunkNext
<1>2. CASE UNCHANGED chunkVars
  <2>1. /\ call' = call /\ chunkPc' = chunkPc /\ pos' = pos /\ cdc' = cdc /\ region' = region
        /\ need' = need /\ chunks' = chunks /\ outcome' = outcome
    BY <1>2 DEF chunkVars
  <2>. QED BY <2>1 DEF StreamInv, Ended
<1>. QED BY <1>1, <1>2 DEF Next, vars

\* It holds at the start.
LEMMA StreamStarts ==
    ASSUME Init
    PROVE  StreamInv
<1>1. PICK k : /\ ChunkInitWith(k)
               /\ k = NoCall \/ k \in ChunkCalls
  BY DEF Init
<1>2. /\ call = k /\ chunkPc = StartOf(k) /\ pos = 0 /\ region = 0 /\ chunks = <<>>
  BY <1>1 DEF ChunkInitWith
<1>3. k \in ChunkCalls => CallOk(k)
  BY LogicalChunkingAssumption DEF CallOk, Origins, Configs
<1>4. CASE k = NoCall
  BY <1>2, <1>4 DEF StreamInv, StartOf, Ended
<1>5. CASE k # NoCall
  <2>1. chunkPc = "called" /\ CallOk(call)
    BY <1>1, <1>2, <1>3, <1>5 DEF StartOf
  <2>. QED BY <1>2, <2>1 DEF StreamInv, Ended
<1>. QED BY <1>4, <1>5

\* It implies the property.
LEMMA StreamImplies ==
    ASSUME StreamInv
    PROVE  StreamMatchesMemory
BY DEF StreamInv, StreamMatchesMemory, Agrees

\* However a reader splits its bytes, however long the stream, the limits and the ends
\* are: a streaming call that met no fault answers what the in-memory call answers for
\* all the bytes (chunk_fastcdc_reader, chunk_structural_reader).
THEOREM StreamsMatchMemory == Spec => []StreamMatchesMemory
<1>1. Init => StreamInv
  BY StreamStarts
<1>2. StreamInv /\ [Next]_vars => StreamInv'
  BY StreamStep
<1>3. StreamInv => StreamMatchesMemory
  BY StreamImplies
<1>. QED BY <1>1, <1>2, <1>3, PTL DEF Spec

-----------------------------------------------------------------------------
(* The merge sort.                                                         *)

\* The equation of a loop: its state at first and after each step.
LoopEq(n, base, step, h) == h[0] = base /\ \A k \in 1 .. n : h[k] = step[<<h[k - 1], k>>]

\* The equation of a loop has a solution.
LEMMA LoopExists ==
    ASSUME NEW n \in Nat, NEW A, NEW base \in A, NEW step \in [A \X (1 .. n) -> A]
    PROVE  \E h \in [0 .. n -> A] : LoopEq(n, base, step, h)
<1>. DEFINE Good == {m \in 0 .. n : \E h \in [0 .. m -> A] :
                        h[0] = base /\ \A k \in 1 .. m : h[k] = step[<<h[k - 1], k>>]}
<1>1. 0 \in Good
  <2>. DEFINE h == [k \in 0 .. 0 |-> base]
  <2>1. h \in [0 .. 0 -> A] /\ h[0] = base /\ \A k \in 1 .. 0 : h[k] = step[<<h[k - 1], k>>]
    OBVIOUS
  <2>2. 0 \in 0 .. n
    OBVIOUS
  <2>. HIDE DEF h
  <2>. QED BY <2>1, <2>2
<1>2. ASSUME NEW m \in 1 .. n, m - 1 \in Good PROVE m \in Good
  <2>1. PICK g \in [0 .. (m - 1) -> A] :
            g[0] = base /\ \A k \in 1 .. (m - 1) : g[k] = step[<<g[k - 1], k>>]
    BY <1>2
  <2>. DEFINE h == [k \in 0 .. m |-> IF k = m THEN step[<<g[m - 1], m>>] ELSE g[k]]
  <2>2. g[m - 1] \in A /\ step[<<g[m - 1], m>>] \in A
    <3>1. m - 1 \in 0 .. (m - 1)
      OBVIOUS
    <3>. QED BY <2>1, <3>1
  <2>3. \A k \in 0 .. m : k # m => k \in 0 .. (m - 1)
    OBVIOUS
  <2>4. h \in [0 .. m -> A]
    BY <2>1, <2>2, <2>3
  <2>5. h[0] = base
    <3>1. 0 \in 0 .. m /\ 0 # m
      OBVIOUS
    <3>. QED BY <2>1, <3>1
  <2>6. ASSUME NEW k \in 1 .. m PROVE h[k] = step[<<h[k - 1], k>>]
    <3>1. k \in 0 .. m /\ k - 1 \in 0 .. m /\ k - 1 # m
      OBVIOUS
    <3>2. h[k - 1] = g[k - 1]
      BY <3>1
    <3>3. CASE k = m
      <4>1. h[k] = step[<<g[m - 1], m>>]
        BY <3>1, <3>3
      <4>. HIDE DEF h
      <4>. QED BY <3>2, <3>3, <4>1
    <3>4. CASE k # m
      <4>1. k \in 1 .. (m - 1) /\ h[k] = g[k]
        BY <3>1, <3>4
      <4>. HIDE DEF h
      <4>. QED BY <2>1, <3>2, <4>1
    <3>. QED BY <3>3, <3>4
  <2>7. m \in 0 .. n
    OBVIOUS
  <2>. HIDE DEF h
  <2>. QED BY <2>4, <2>5, <2>6, <2>7
<1>3. 0 .. n \subseteq Good
  <2>. HIDE DEF Good
  <2>. QED BY <1>1, <1>2, UpTo
<1>4. n \in Good
  <2>. HIDE DEF Good
  <2>. QED BY <1>3
<1>. QED BY <1>4 DEF LoopEq

\* less[a][b] says that item a precedes item b; a may stand before b unless b precedes it.
Before(less, a, b) == ~less[b][a]

\* A total order on the n items, in which some may be equal.
OrderOf(less, n) ==
    /\ \A a, b \in 1 .. n : Before(less, a, b) \/ Before(less, b, a)
    /\ \A a, b, c \in 1 .. n :
          Before(less, a, b) /\ Before(less, b, c) => Before(less, a, c)

\* The positions a + 1 .. b of s are a run.
Run(s, a, b, less) == \A p, q \in (a + 1) .. b : p < q => Before(less, s[p], s[q])

\* Neighbours in order are a run.
LEMMA NeighboursRun ==
    ASSUME NEW n \in Nat, NEW less, OrderOf(less, n), NEW a \in Nat, NEW b \in Nat, NEW s,
           \A p \in (a + 1) .. b : s[p] \in 1 .. n,
           \A p \in (a + 1) .. (b - 1) : Before(less, s[p], s[p + 1])
    PROVE  Run(s, a, b, less)
<1>. SUFFICES ASSUME NEW p \in (a + 1) .. b, NEW q \in (a + 1) .. b, p < q
              PROVE  Before(less, s[p], s[q])
  BY DEF Run
<1>. DEFINE d == q - p - 1
            S == {i \in 0 .. d : Before(less, s[p], s[p + 1 + i])}
<1>1. d \in Nat /\ p \in Nat /\ p + 1 + d = q
  OBVIOUS
<1>2. 0 \in S
  <2>1. p \in (a + 1) .. (b - 1) /\ p + 1 + 0 = p + 1 /\ 0 \in 0 .. d
    BY <1>1
  <2>. QED BY <2>1
<1>. HIDE DEF d
<1>3. ASSUME NEW i \in 1 .. d, i - 1 \in S PROVE i \in S
  <2>. DEFINE x == p + 1 + (i - 1)
  <2>1. x \in (a + 1) .. (b - 1) /\ x \in (a + 1) .. b /\ x + 1 \in (a + 1) .. b
        /\ x + 1 = p + 1 + i /\ i \in 0 .. d
    BY <1>1
  <2>2. Before(less, s[p], s[x])
    BY <1>3
  <2>. HIDE DEF x
  <2>3. Before(less, s[x], s[x + 1])
    BY <2>1
  <2>4. s[p] \in 1 .. n /\ s[x] \in 1 .. n /\ s[x + 1] \in 1 .. n
    BY <2>1
  <2>5. Before(less, s[p], s[x + 1])
    BY <2>2, <2>3, <2>4 DEF OrderOf
  <2>. QED BY <2>1, <2>5
<1>4. 0 .. d \subseteq S
  <2>. HIDE DEF S
  <2>. QED BY <1>1, <1>2, <1>3, UpTo
<1>5. d \in S
  <2>. HIDE DEF S
  <2>. QED BY <1>1, <1>4
<1>. QED BY <1>1, <1>5

\* One item more: the one that comes next on the left or on the right.
MergeStep(s, start, middle, end, less, prior, k) ==
    LET l == start + prior.left + 1
        r == middle + (k - 1 - prior.left) + 1
    IN  IF l <= middle /\ (r <= end => ~less[s[r]][s[l]])
        THEN [left |-> prior.left + 1, out |-> Append(prior.out, s[l])]
        ELSE [left |-> prior.left, out |-> Append(prior.out, s[r])]

\* The equation of Merge.
MergeEq(s, start, middle, end, less, h) ==
    h = [k \in 0 .. end - start |->
            IF k = 0 THEN [left |-> 0, out |-> <<>>]
            ELSE MergeStep(s, start, middle, end, less, h[k - 1], k)]

MergeChain(s, start, middle, end, less, h) ==
    /\ h[0] = [left |-> 0, out |-> <<>>]
    /\ \A k \in 1 .. end - start : h[k] = MergeStep(s, start, middle, end, less, h[k - 1], k)
    /\ Merge(s, start, middle, end, less) = h[end - start].out

\* Merge is such a loop.
LEMMA MergeSteps ==
    ASSUME NEW s, NEW start \in Nat, NEW middle \in Nat, NEW end \in Nat, start <= middle,
           middle <= end, NEW less
    PROVE  \E h : MergeChain(s, start, middle, end, less, h)
<1>. DEFINE N == end - start
            S == {s[i] : i \in Int}
            A == [left : Int, out : Seq(S)]
            base == [left |-> 0, out |-> <<>>]
            Step(a, k) == MergeStep(s, start, middle, end, less, a, k)
            step == [p \in A \X (1 .. N) |-> Step(p[1], p[2])]
            F == CHOOSE h : MergeEq(s, start, middle, end, less, h)
<1>1. N \in Nat
  OBVIOUS
<1>2. base \in A
  OBVIOUS
<1>3. ASSUME NEW a \in A, NEW k \in 1 .. N PROVE Step(a, k) \in A
  <2>. DEFINE L == a.left
              out == a.out
              l == start + L + 1
              r == middle + (k - 1 - L) + 1
              t == IF l <= middle /\ (r <= end => ~less[s[r]][s[l]])
                   THEN [left |-> L + 1, out |-> Append(out, s[l])]
                   ELSE [left |-> L, out |-> Append(out, s[r])]
  <2>1. L \in Int /\ out \in Seq(S)
    <3>. HIDE DEF S
    <3>. QED OBVIOUS
  <2>2. l \in Int /\ r \in Int /\ L + 1 \in Int
    <3>. HIDE DEF L
    <3>. QED BY <2>1
  <2>3. s[l] \in S /\ s[r] \in S
    <3>. HIDE DEF l, r
    <3>. QED BY <2>2
  <2>4. Step(a, k) = t
    BY Zenon DEF MergeStep
  <2>5. Append(out, s[l]) \in Seq(S) /\ Append(out, s[r]) \in Seq(S)
    <3>. HIDE DEF S, out, l, r
    <3>. QED BY <2>1, <2>3
  <2>6. t \in A
    <3>. HIDE DEF S, L, out, l, r
    <3>. QED BY <2>1, <2>2, <2>5
  <2>. HIDE DEF t
  <2>. QED BY <2>4, <2>6
<1>4. step \in [A \X (1 .. N) -> A]
  <2>. HIDE DEF A, N
  <2>. QED BY <1>3
<1>. HIDE DEF A
<1>5. PICK h \in [0 .. N -> A] : LoopEq(N, base, step, h)
  <2>. HIDE DEF N, step, base
  <2>. QED BY <1>1, <1>2, <1>4, LoopExists
<1>6. \A k \in 1 .. N : h[k] = Step(h[k - 1], k)
  <2>1. \A k \in 1 .. N : h[k - 1] \in A
    BY <1>5
  <2>. HIDE DEF N
  <2>. QED BY <1>5, <2>1 DEF LoopEq
<1>7. MergeEq(s, start, middle, end, less, h)
  <2>1. \A k \in 0 .. N : h[k] = IF k = 0 THEN base ELSE Step(h[k - 1], k)
    <3>1. \A k \in 0 .. N : k # 0 => k \in 1 .. N
      BY <1>1
    <3>. HIDE DEF N, base
    <3>. QED BY <1>5, <1>6, <3>1 DEF LoopEq
  <2>2. h = [k \in 0 .. N |-> IF k = 0 THEN base ELSE Step(h[k - 1], k)]
    <3>. HIDE DEF N, base
    <3>. QED BY <1>5, <2>1
  <2>. QED BY <2>2, Zenon DEF MergeEq
<1>8. MergeEq(s, start, middle, end, less, F)
  <2>. HIDE DEF MergeEq
  <2>. QED BY <1>7
<1>9. Merge(s, start, middle, end, less) = F[N].out
  BY DEF Merge, MergeEq, MergeStep
<1>. HIDE DEF F
<1>10. F = [k \in 0 .. N |-> IF k = 0 THEN base ELSE Step(F[k - 1], k)]
  BY <1>8, Zenon DEF MergeEq
<1>11. F[0] = base /\ \A k \in 1 .. N : F[k] = Step(F[k - 1], k)
  <2>1. 0 \in 0 .. N /\ \A k \in 1 .. N : k # 0 /\ k \in 0 .. N
    BY <1>1
  <2>. HIDE DEF N, base
  <2>. QED BY <1>10, <2>1
<1>. QED BY <1>9, <1>11 DEF MergeChain

\* Where the j-th item of the output was.
TakenFrom(start, middle, h, j) ==
    IF h[j].left > h[j - 1].left THEN start + h[j].left ELSE middle + (j - h[j].left)

\* After k items: how many came from each side, and the last one stands before the next on
\* either side.
MergeState(s, n, start, middle, end, less, h, k) ==
    /\ h[k].left \in 0 .. (middle - start) /\ k - h[k].left \in 0 .. (end - middle)
    /\ h[k].out \in Seq(1 .. n) /\ Len(h[k].out) = k
    /\ k > 0 =>
          LET i == TakenFrom(start, middle, h, k)
          IN  /\ h[k].left \in {h[k - 1].left, h[k - 1].left + 1}
              /\ i \in (start + 1) .. end
              /\ h[k].out = Append(h[k - 1].out, s[i])
              /\ start + h[k].left < middle => Before(less, s[i], s[start + h[k].left + 1])
              /\ middle + (k - h[k].left) < end =>
                    Before(less, s[i], s[middle + (k - h[k].left) + 1])
              /\ k > 1 => Before(less, s[TakenFrom(start, middle, h, k - 1)], s[i])

\* What a merge is given: two neighbouring runs of positions of n items.
Mergeable(s, n, start, middle, end, less) ==
    /\ n \in Nat /\ start \in Nat /\ middle \in Nat /\ end \in Nat
    /\ start <= middle /\ middle <= end /\ end <= n
    /\ s \in [1 .. n -> 1 .. n] /\ OrderOf(less, n)
    /\ Run(s, start, middle, less) /\ Run(s, middle, end, less)

\* The next items on both sides.
LEMMA MergeHeads ==
    ASSUME NEW s, NEW n, NEW start, NEW middle, NEW end, NEW less,
           Mergeable(s, n, start, middle, end, less), NEW L, NEW R,
           L \in 0 .. (middle - start), R \in 0 .. (end - middle)
    PROVE  /\ start + L < middle => /\ start + L + 1 \in (start + 1) .. end
                                    /\ s[start + L + 1] \in 1 .. n
           /\ middle + R < end => /\ middle + R + 1 \in (start + 1) .. end
                                  /\ s[middle + R + 1] \in 1 .. n
           /\ start + L + 1 < middle => Before(less, s[start + L + 1], s[start + L + 2])
           /\ middle + R + 1 < end => Before(less, s[middle + R + 1], s[middle + R + 2])
<1>1. n \in Nat /\ start \in Nat /\ middle \in Nat /\ end \in Nat
      /\ start <= middle /\ middle <= end /\ end <= n /\ L \in Nat /\ R \in Nat
  BY DEF Mergeable
<1>2. ASSUME NEW i \in (start + 1) .. end PROVE s[i] \in 1 .. n
  <2>1. i \in 1 .. n
    BY <1>1
  <2>. QED BY <2>1 DEF Mergeable
<1>3. start + L < middle => start + L + 1 \in (start + 1) .. end
  BY <1>1
<1>4. middle + R < end => middle + R + 1 \in (start + 1) .. end
  BY <1>1
<1>5. ASSUME start + L + 1 < middle PROVE Before(less, s[start + L + 1], s[start + L + 2])
  <2>1. start + L + 1 \in (start + 1) .. middle /\ start + L + 2 \in (start + 1) .. middle
        /\ start + L + 1 < start + L + 2
    BY <1>1, <1>5
  <2>. QED BY <2>1 DEF Mergeable, Run
<1>6. ASSUME middle + R + 1 < end PROVE Before(less, s[middle + R + 1], s[middle + R + 2])
  <2>1. middle + R + 1 \in (middle + 1) .. end /\ middle + R + 2 \in (middle + 1) .. end
        /\ middle + R + 1 < middle + R + 2
    BY <1>1, <1>6
  <2>. QED BY <2>1 DEF Mergeable, Run
<1>. QED BY <1>2, <1>3, <1>4, <1>5, <1>6

\* One item more keeps the state of the merge.
LEMMA MergeKeeps ==
    ASSUME NEW s, NEW n, NEW start, NEW middle, NEW end, NEW less,
           Mergeable(s, n, start, middle, end, less), NEW h,
           MergeChain(s, start, middle, end, less, h), NEW k \in 1 .. (end - start),
           MergeState(s, n, start, middle, end, less, h, k - 1)
    PROVE  MergeState(s, n, start, middle, end, less, h, k)
<1>. DEFINE L == h[k - 1].left
            R == k - 1 - L
            out == h[k - 1].out
            l == start + L + 1
            r == middle + R + 1
            last == TakenFrom(start, middle, h, k - 1)
            i == TakenFrom(start, middle, h, k)
            left == l <= middle /\ (r <= end => Before(less, s[l], s[r]))
<1>1. n \in Nat /\ start \in Nat /\ middle \in Nat /\ end \in Nat
      /\ start <= middle /\ middle <= end /\ end <= n /\ k \in Nat
  BY DEF Mergeable
<1>2. L \in 0 .. (middle - start) /\ R \in 0 .. (end - middle) /\ out \in Seq(1 .. n)
      /\ Len(out) = k - 1
  BY DEF MergeState
<1>3. k - 1 > 0 => /\ (start + L < middle => Before(less, s[last], s[l]))
                   /\ (middle + R < end => Before(less, s[last], s[r]))
  BY DEF MergeState
<1>4. h[k] = IF left THEN [left |-> L + 1, out |-> Append(out, s[l])]
             ELSE [left |-> L, out |-> Append(out, s[r])]
  <2>1. h[k] = MergeStep(s, start, middle, end, less, h[k - 1], k)
    BY DEF MergeChain
  <2>. QED BY <2>1, Zenon DEF MergeStep, Before
<1>5. /\ start + L < middle => l \in (start + 1) .. end /\ s[l] \in 1 .. n
      /\ middle + R < end => r \in (start + 1) .. end /\ s[r] \in 1 .. n
      /\ start + L + 1 < middle => Before(less, s[l], s[start + L + 2])
      /\ middle + R + 1 < end => Before(less, s[r], s[middle + R + 2])
  <2>. HIDE DEF L, R
  <2>. QED BY <1>2, MergeHeads
<1>6. i = IF h[k].left > L THEN start + h[k].left ELSE middle + (k - h[k].left)
  BY Zenon DEF TakenFrom
<1>7. CASE left
  <2>1. h[k].left = L + 1 /\ h[k].out = Append(out, s[l])
    BY <1>4, <1>7
  <2>. HIDE DEF L, out
  <2>2. h[k].left > L /\ start + h[k].left = l /\ L \in Nat
    BY <1>1, <1>2, <2>1
  <2>3. i = l
    BY <1>6, <2>2
  <2>4. start + L < middle /\ s[l] \in 1 .. n /\ l \in (start + 1) .. end
    <3>1. start + L < middle
      BY <1>1, <1>2, <1>7
    <3>. QED BY <1>5, <3>1
  <2>5. h[k].left \in 0 .. (middle - start) /\ k - h[k].left = R
    BY <1>1, <1>2, <2>1, <2>4
  <2>6. h[k].out \in Seq(1 .. n) /\ Len(h[k].out) = k
    BY <1>1, <1>2, <2>1, <2>4
  <2>7. start + h[k].left < middle => Before(less, s[l], s[start + h[k].left + 1])
    <3>1. start + h[k].left = start + L + 1 /\ start + h[k].left + 1 = start + L + 2
      BY <1>1, <2>1, <2>2
    <3>. QED BY <1>5, <3>1
  <2>8. middle + R < end => Before(less, s[l], s[middle + R + 1])
    <3>1. middle + R < end => r <= end
      BY <1>1, <1>2
    <3>. QED BY <1>7, <3>1
  <2>9. k > 1 => Before(less, s[last], s[l])
    <3>1. k > 1 => k - 1 > 0
      BY <1>1
    <3>. QED BY <1>3, <2>4, <3>1
  <2>. HIDE DEF i, l, R, last, left
  <2>. QED BY <1>2, <2>1, <2>3, <2>4, <2>5, <2>6, <2>7, <2>8, <2>9 DEF MergeState, L, i, last, out
<1>8. CASE ~left
  <2>1. h[k].left = L /\ h[k].out = Append(out, s[r])
    BY <1>4, <1>8
  <2>2. middle + R < end
    <3>1. ~(l <= middle) => R + 1 <= end - middle
      <4>. HIDE DEF L
      <4>. QED BY <1>1, <1>2
    <3>2. (l <= middle) => r <= end
      BY <1>8
    <3>. HIDE DEF L
    <3>. QED BY <1>1, <1>2, <3>1, <3>2
  <2>. HIDE DEF L, out
  <2>3. ~(h[k].left > L) /\ middle + (k - h[k].left) = r /\ L \in Nat
    BY <1>1, <1>2, <2>1
  <2>4. i = r
    BY <1>6, <2>3
  <2>5. s[r] \in 1 .. n /\ r \in (start + 1) .. end
    BY <1>5, <2>2
  <2>6. h[k].left \in 0 .. (middle - start) /\ k - h[k].left = R + 1 /\ R + 1 \in 0 .. (end - middle)
    <3>1. h[k].left \in 0 .. (middle - start)
      BY <1>2, <2>1
    <3>2. k - L = R + 1
      BY <1>1, <2>3
    <3>3. R + 1 \in 0 .. (end - middle)
      <4>. HIDE DEF R
      <4>. QED BY <1>1, <1>2, <2>2
    <3>. QED BY <2>1, <3>1, <3>2, <3>3
  <2>7. h[k].out \in Seq(1 .. n) /\ Len(h[k].out) = k
    BY <1>1, <1>2, <2>1, <2>5
  <2>8. start + L < middle => Before(less, s[r], s[start + L + 1])
    <3>1. ASSUME start + L < middle PROVE ~Before(less, s[l], s[r]) /\ s[l] \in 1 .. n
      <4>1. l <= middle
        BY <1>1, <1>2, <3>1
      <4>. QED BY <1>5, <1>8, <3>1, <4>1
    <3>2. \A a, b \in 1 .. n : Before(less, a, b) \/ Before(less, b, a)
      BY DEF Mergeable, OrderOf
    <3>. QED BY <2>5, <3>1, <3>2
  <2>9. middle + (R + 1) < end => Before(less, s[r], s[middle + (R + 1) + 1])
    <3>1. middle + (R + 1) = middle + R + 1 /\ middle + (R + 1) + 1 = middle + R + 2
      BY <1>1, <1>2
    <3>. QED BY <1>5, <3>1
  <2>10. k > 1 => Before(less, s[last], s[r])
    <3>1. k > 1 => k - 1 > 0
      BY <1>1
    <3>. QED BY <1>3, <2>2, <3>1
  <2>11. h[k].left = h[k - 1].left
    BY <2>1 DEF L
  <2>12. h[k].out = Append(h[k - 1].out, s[i])
    BY <2>1, <2>4 DEF out
  <2>. HIDE DEF i, r, R, last, left
  <2>13. /\ i \in (start + 1) .. end
         /\ start + h[k].left < middle => Before(less, s[i], s[start + h[k].left + 1])
         /\ middle + (k - h[k].left) < end => Before(less, s[i], s[middle + (k - h[k].left) + 1])
         /\ k > 1 => Before(less, s[last], s[i])
    BY <2>1, <2>4, <2>5, <2>6, <2>8, <2>9, <2>10
  <2>. QED BY <2>6, <2>7, <2>11, <2>12, <2>13, SMTT(30) DEF MergeState, i, last
<1>. QED BY <1>7, <1>8

\* m holds the items of s at start + 1 .. end, each once (u says which), as a run.
MergedBy(s, n, start, end, less, m, u) ==
    /\ m \in Seq(1 .. n) /\ Len(m) = end - start
    /\ u \in [1 .. (end - start) -> (start + 1) .. end]
    /\ \A j \in 1 .. (end - start) : m[j] = s[u[j]]
    /\ \A j, k \in 1 .. (end - start) : j # k => u[j] # u[k]
    /\ Run(m, 0, end - start, less)

MergeStates(s, n, start, middle, end, less, h) ==
    \A k \in 0 .. (end - start) : MergeState(s, n, start, middle, end, less, h, k)

\* Every state of a merge.
LEMMA MergeHolds ==
    ASSUME NEW s, NEW n, NEW start, NEW middle, NEW end, NEW less,
           Mergeable(s, n, start, middle, end, less), NEW h,
           MergeChain(s, start, middle, end, less, h)
    PROVE  MergeStates(s, n, start, middle, end, less, h)
<1>. DEFINE N == end - start
            S == {k \in 0 .. N : MergeState(s, n, start, middle, end, less, h, k)}
<1>1. n \in Nat /\ start \in Nat /\ middle \in Nat /\ end \in Nat
      /\ start <= middle /\ middle <= end /\ end <= n /\ N \in Nat
  BY DEF Mergeable
<1>2. 0 \in S
  <2>1. h[0].left = 0 /\ h[0].out = <<>>
    BY DEF MergeChain
  <2>2. h[0].left \in 0 .. (middle - start) /\ 0 - h[0].left \in 0 .. (end - middle) /\ ~(0 > 0)
    BY <1>1, <2>1
  <2>3. h[0].out \in Seq(1 .. n) /\ Len(h[0].out) = 0
    BY <2>1
  <2>4. MergeState(s, n, start, middle, end, less, h, 0)
    BY <2>2, <2>3 DEF MergeState
  <2>. QED BY <1>1, <2>4
<1>3. ASSUME NEW k \in 1 .. N, k - 1 \in S PROVE k \in S
  <2>1. MergeState(s, n, start, middle, end, less, h, k)
    BY <1>3, MergeKeeps
  <2>. QED BY <1>1, <2>1
<1>4. 0 .. N \subseteq S
  <2>. HIDE DEF S, N
  <2>. QED BY <1>1, <1>2, <1>3, UpTo
<1>. QED BY <1>4 DEF MergeStates

\* The sides only grow.
LEMMA MergeGrows ==
    ASSUME NEW s, NEW n, NEW start, NEW middle, NEW end, NEW less,
           Mergeable(s, n, start, middle, end, less), NEW h,
           MergeStates(s, n, start, middle, end, less, h),
           NEW j \in 0 .. (end - start), NEW k \in 0 .. (end - start), j <= k
    PROVE  h[j].left <= h[k].left /\ j - h[j].left <= k - h[k].left
<1>. DEFINE N == end - start
            S == {i \in 0 .. N : i >= j => h[j].left <= h[i].left /\ j - h[j].left <= i - h[i].left}
<1>1. start \in Nat /\ middle \in Nat /\ end \in Nat /\ start <= middle /\ middle <= end /\ N \in Nat
  BY DEF Mergeable
<1>2. \A i \in 0 .. N : h[i].left \in Nat
  BY <1>1 DEF MergeStates, MergeState
<1>3. \A i \in 1 .. N : h[i].left \in {h[i - 1].left, h[i - 1].left + 1}
  <2>. TAKE i \in 1 .. N
  <2>1. i \in 0 .. N /\ i > 0
    BY <1>1
  <2>2. MergeState(s, n, start, middle, end, less, h, i)
    BY <2>1 DEF MergeStates
  <2>. QED BY <2>1, <2>2 DEF MergeState
<1>. HIDE DEF N
<1>4. 0 \in S
  <2>1. 0 \in 0 .. N
    BY <1>1
  <2>2. 0 >= j => j = 0
    BY <1>1
  <2>. QED BY <1>2, <2>1, <2>2
<1>5. ASSUME NEW i \in 1 .. N, i - 1 \in S PROVE i \in S
  <2>1. i \in 0 .. N /\ i - 1 \in 0 .. N
    BY <1>1
  <2>2. CASE i = j
    BY <1>2, <2>1, <2>2
  <2>3. CASE i # j
    <3>1. ASSUME i >= j
          PROVE  h[j].left <= h[i].left /\ j - h[j].left <= i - h[i].left
      <4>1. i - 1 >= j /\ j \in 0 .. N
        BY <1>1, <2>3, <3>1 DEF N
      <4>2. h[j].left <= h[i - 1].left /\ j - h[j].left <= (i - 1) - h[i - 1].left
        BY <1>5, <4>1
      <4>3. h[j].left \in Nat /\ h[i - 1].left \in Nat /\ h[i].left \in {h[i - 1].left, h[i - 1].left + 1}
        BY <1>2, <1>3, <2>1, <4>1
      <4>. DEFINE x == h[j].left
                  y == h[i - 1].left
                  z == h[i].left
      <4>. HIDE DEF x, y, z
      <4>4. x <= z /\ j - x <= i - z
        <5>1. x <= y /\ j - x <= (i - 1) - y /\ x \in Nat /\ y \in Nat /\ (z = y \/ z = y + 1)
          BY <4>2, <4>3 DEF x, y, z
        <5>. QED BY <1>1, <4>1, <5>1
      <4>. QED BY <4>4 DEF x, z
    <3>. QED BY <2>1, <3>1
  <2>. QED BY <2>2, <2>3
<1>6. 0 .. N \subseteq S
  <2>. HIDE DEF S
  <2>. QED BY <1>1, <1>4, <1>5, UpTo
<1>7. k \in S
  <2>. HIDE DEF S
  <2>. QED BY <1>6 DEF N
<1>. QED BY <1>7

\* Which side an item was taken from.
LEMMA TakenIs ==
    ASSUME NEW s, NEW n, NEW start, NEW middle, NEW end, NEW less,
           Mergeable(s, n, start, middle, end, less), NEW h,
           MergeStates(s, n, start, middle, end, less, h), NEW j \in 1 .. (end - start)
    PROVE  /\ h[j].left \in Nat /\ h[j - 1].left \in Nat
           /\ \/ /\ h[j].left = h[j - 1].left + 1
                 /\ TakenFrom(start, middle, h, j) = start + h[j].left
                 /\ start + h[j].left <= middle
              \/ /\ h[j].left = h[j - 1].left
                 /\ TakenFrom(start, middle, h, j) = middle + (j - h[j].left)
                 /\ j - h[j].left > 0
<1>1. start \in Nat /\ middle \in Nat /\ end \in Nat /\ start <= middle /\ middle <= end
      /\ end - start \in Nat
  BY DEF Mergeable
<1>2. j \in 0 .. (end - start) /\ j - 1 \in 0 .. (end - start) /\ j > 0
  BY <1>1
<1>3. MergeState(s, n, start, middle, end, less, h, j)
      /\ MergeState(s, n, start, middle, end, less, h, j - 1)
  BY <1>2 DEF MergeStates
<1>4. /\ h[j].left \in 0 .. (middle - start)
      /\ h[j - 1].left \in 0 .. (middle - start) /\ (j - 1) - h[j - 1].left \in 0 .. (end - middle)
      /\ h[j].left \in {h[j - 1].left, h[j - 1].left + 1}
  BY <1>2, <1>3 DEF MergeState
<1>. DEFINE x == h[j].left
            y == h[j - 1].left
            t == TakenFrom(start, middle, h, j)
<1>5. t = IF x > y THEN start + x ELSE middle + (j - x)
  BY DEF TakenFrom
<1>. HIDE DEF x, y, t
<1>6. x \in Nat /\ y \in Nat /\ (x = y \/ x = y + 1) /\ start + x <= middle /\ (j - 1) - y >= 0
  BY <1>1, <1>4 DEF x, y
<1>7. CASE x = y + 1
  <2>1. x > y
    BY <1>6, <1>7
  <2>. QED BY <1>5, <1>6, <1>7, <2>1 DEF x, y, t
<1>8. CASE x = y
  <2>1. ~(x > y) /\ j - x > 0
    BY <1>1, <1>6, <1>8
  <2>. QED BY <1>5, <1>6, <1>8, <2>1 DEF x, y, t
<1>. QED BY <1>6, <1>7, <1>8

\* No item is taken twice.
LEMMA TakenOnce ==
    ASSUME NEW s, NEW n, NEW start, NEW middle, NEW end, NEW less,
           Mergeable(s, n, start, middle, end, less), NEW h,
           MergeStates(s, n, start, middle, end, less, h),
           NEW j \in 1 .. (end - start), NEW k \in 1 .. (end - start), j < k
    PROVE  TakenFrom(start, middle, h, j) # TakenFrom(start, middle, h, k)
<1>. DEFINE a == h[j].left
            b == h[k - 1].left
            c == h[k].left
            t == TakenFrom(start, middle, h, j)
            v == TakenFrom(start, middle, h, k)
<1>1. start \in Nat /\ middle \in Nat /\ end \in Nat /\ j \in Nat /\ k \in Nat
  BY DEF Mergeable
<1>2. /\ a \in Nat
      /\ \/ t = start + a /\ start + a <= middle
         \/ t = middle + (j - a) /\ j - a > 0
  BY TakenIs
<1>3. /\ b \in Nat /\ c \in Nat
      /\ \/ c = b + 1 /\ v = start + c /\ start + c <= middle
         \/ c = b /\ v = middle + (k - c) /\ k - c > 0
  BY TakenIs
<1>4. a <= b /\ j - a <= (k - 1) - b
  <2>1. j \in 0 .. (end - start) /\ k - 1 \in 0 .. (end - start) /\ j <= k - 1
    BY <1>1
  <2>. QED BY <2>1, MergeGrows
<1>. HIDE DEF a, b, c, t, v
<1>5. t # v
  <2>1. CASE t = start + a /\ start + a <= middle
    BY <1>1, <1>2, <1>3, <1>4, <2>1
  <2>2. CASE t = middle + (j - a) /\ j - a > 0
    BY <1>1, <1>2, <1>3, <1>4, <2>2
  <2>. QED BY <1>2, <2>1, <2>2
<1>. QED BY <1>5 DEF t, v

\* The output, item by item.
LEMMA MergeItems ==
    ASSUME NEW s, NEW n, NEW start, NEW middle, NEW end, NEW less,
           Mergeable(s, n, start, middle, end, less), NEW h,
           MergeStates(s, n, start, middle, end, less, h),
           NEW i \in 1 .. (end - start)
    PROVE  h[end - start].out[i] = s[TakenFrom(start, middle, h, i)]
<1>. DEFINE N == end - start
            t == TakenFrom(start, middle, h, i)
            S == {k \in 0 .. N : k >= i => h[k].out[i] = s[t]}
<1>1. start \in Nat /\ end \in Nat /\ N \in Nat /\ i \in 1 .. N
  BY DEF Mergeable
<1>2. ASSUME NEW k \in 1 .. N
      PROVE  /\ h[k].out = Append(h[k - 1].out, s[TakenFrom(start, middle, h, k)])
             /\ h[k - 1].out \in Seq(1 .. n) /\ Len(h[k - 1].out) = k - 1
  <2>1. k \in 0 .. N /\ k - 1 \in 0 .. N /\ k > 0
    BY <1>1
  <2>2. MergeState(s, n, start, middle, end, less, h, k)
        /\ MergeState(s, n, start, middle, end, less, h, k - 1)
    BY <2>1 DEF MergeStates
  <2>. QED BY <2>1, <2>2 DEF MergeState
<1>. HIDE DEF N
<1>3. 0 \in S
  BY <1>1
<1>4. ASSUME NEW k \in 1 .. N, k - 1 \in S PROVE k \in S
  <2>. DEFINE o == h[k - 1].out
  <2>1. k \in 0 .. N
    BY <1>1
  <2>2. o \in Seq(1 .. n) /\ Len(o) = k - 1
    BY <1>2
  <2>3. CASE k = i
    <3>1. h[k].out = Append(o, s[t])
      BY <1>2, <2>3
    <3>. HIDE DEF o, t
    <3>2. Append(o, s[t])[k] = s[t]
      BY <2>2
    <3>. QED BY <2>1, <2>3, <3>1, <3>2
  <2>4. CASE k # i
    <3>1. ASSUME k >= i PROVE h[k].out[i] = s[t]
      <4>1. k - 1 >= i /\ i \in 1 .. (k - 1)
        BY <1>1, <2>4, <3>1
      <4>2. o[i] = s[t]
        BY <1>4, <4>1
      <4>. DEFINE w == s[TakenFrom(start, middle, h, k)]
      <4>3. h[k].out = Append(o, w)
        BY <1>2
      <4>. HIDE DEF o, w, t
      <4>4. Append(o, w)[i] = o[i]
        BY <2>2, <4>1
      <4>. QED BY <4>2, <4>3, <4>4
    <3>. QED BY <2>1, <3>1
  <2>. QED BY <2>3, <2>4
<1>5. 0 .. N \subseteq S
  <2>. HIDE DEF S
  <2>. QED BY <1>1, <1>3, <1>4, UpTo
<1>6. N \in S /\ N >= i
  <2>. HIDE DEF S
  <2>. QED BY <1>1, <1>5
<1>. QED BY <1>6 DEF N

\* Merge: every item once, as a run.
LEMMA MergeIs ==
    ASSUME NEW s, NEW n, NEW start, NEW middle, NEW end, NEW less,
           Mergeable(s, n, start, middle, end, less)
    PROVE  \E u : MergedBy(s, n, start, end, less, Merge(s, start, middle, end, less), u)
<1>1. n \in Nat /\ start \in Nat /\ middle \in Nat /\ end \in Nat /\ start <= middle
      /\ middle <= end /\ end - start \in Nat /\ OrderOf(less, n)
  BY DEF Mergeable
<1>2. PICK h : MergeChain(s, start, middle, end, less, h)
  BY <1>1, MergeSteps
<1>3. MergeStates(s, n, start, middle, end, less, h)
  BY <1>2, MergeHolds
<1>. DEFINE N == end - start
            m == Merge(s, start, middle, end, less)
            u == [j \in 1 .. N |-> TakenFrom(start, middle, h, j)]
<1>4. m = h[N].out
  BY <1>2 DEF MergeChain
<1>5. m \in Seq(1 .. n) /\ Len(m) = N
  <2>1. N \in 0 .. (end - start)
    BY <1>1
  <2>2. MergeState(s, n, start, middle, end, less, h, N)
    BY <1>3, <2>1 DEF MergeStates
  <2>. QED BY <1>4, <2>2 DEF MergeState
<1>6. ASSUME NEW j \in 1 .. N
      PROVE  /\ u[j] = TakenFrom(start, middle, h, j) /\ u[j] \in (start + 1) .. end
             /\ j > 1 => Before(less, s[u[j - 1]], s[u[j]])
  <2>1. j \in 0 .. N /\ j > 0 /\ (j > 1 => j - 1 \in 1 .. N)
    BY <1>1
  <2>2. MergeState(s, n, start, middle, end, less, h, j)
    BY <1>3, <2>1 DEF MergeStates
  <2>3. /\ TakenFrom(start, middle, h, j) \in (start + 1) .. end
        /\ j > 1 => Before(less, s[TakenFrom(start, middle, h, j - 1)], s[TakenFrom(start, middle, h, j)])
    BY <2>1, <2>2 DEF MergeState
  <2>4. u[j] = TakenFrom(start, middle, h, j)
        /\ (j > 1 => u[j - 1] = TakenFrom(start, middle, h, j - 1))
    BY <2>1
  <2>. HIDE DEF u
  <2>. QED BY <2>3, <2>4
<1>7. \A j \in 1 .. N : m[j] = s[u[j]]
  <2>1. \A j \in 1 .. N : h[N].out[j] = s[TakenFrom(start, middle, h, j)]
    BY <1>3, MergeItems
  <2>. HIDE DEF m
  <2>. QED BY <1>4, <1>6, <2>1
<1>8. \A j, k \in 1 .. N : j # k => u[j] # u[k]
  <2>1. ASSUME NEW j \in 1 .. N, NEW k \in 1 .. N, j < k PROVE u[j] # u[k]
    <3>1. TakenFrom(start, middle, h, j) # TakenFrom(start, middle, h, k)
      BY <1>3, <2>1, TakenOnce
    <3>. QED BY <3>1
  <2>. HIDE DEF u
  <2>2. \A j, k \in 1 .. N : j # k => j < k \/ k < j
    BY <1>1
  <2>. QED BY <2>1, <2>2
<1>9. u \in [1 .. N -> (start + 1) .. end]
  BY <1>6
<1>. HIDE DEF m, u, N
<1>10. Run(m, 0, N, less)
  <2>1. \A p \in (0 + 1) .. N : m[p] \in 1 .. n
    BY <1>1, <1>5 DEF N
  <2>2. ASSUME NEW p \in (0 + 1) .. (N - 1) PROVE Before(less, m[p], m[p + 1])
    <3>1. p \in 1 .. N /\ p + 1 \in 1 .. N /\ p + 1 > 1 /\ (p + 1) - 1 = p
      BY <1>1 DEF N
    <3>2. Before(less, s[u[p]], s[u[p + 1]])
      BY <1>6, <3>1
    <3>. QED BY <1>7, <3>1, <3>2
  <2>3. N \in Nat /\ 0 \in Nat
    BY <1>1 DEF N
  <2>. DEFINE z == 0
  <2>4. z \in Nat /\ (\A p \in (z + 1) .. N : m[p] \in 1 .. n)
        /\ (\A p \in (z + 1) .. (N - 1) : Before(less, m[p], m[p + 1]))
    BY <2>1, <2>2
  <2>. HIDE DEF z
  <2>5. Run(m, z, N, less)
    BY <1>1, <2>3, <2>4, NeighboursRun
  <2>. QED BY <2>5 DEF z
<1>11. MergedBy(s, n, start, end, less, m, u)
  BY <1>5, <1>7, <1>8, <1>9, <1>10 DEF MergedBy, N
<1>. QED BY <1>11 DEF m

\* x is a multiple of w.
Aligned(x, w) == \E b \in Nat : x = b * w

\* Multiples of a width: zero, one width further, and those of twice the width.
LEMMA AlignedSteps ==
    ASSUME NEW w \in Nat
    PROVE  /\ Aligned(0, w)
           /\ \A x \in Nat : Aligned(x, w) => Aligned(x + w, w)
           /\ \A x \in Nat : Aligned(x, 2 * w) => Aligned(x, w)
<1>1. Aligned(0, w)
  <2>1. 0 = 0 * w
    OBVIOUS
  <2>. QED BY <2>1 DEF Aligned
<1>2. ASSUME NEW x \in Nat, Aligned(x, w) PROVE Aligned(x + w, w)
  <2>1. PICK b \in Nat : x = b * w
    BY <1>2 DEF Aligned
  <2>2. x + w = (b + 1) * w /\ b + 1 \in Nat
    BY <2>1
  <2>. QED BY <2>2 DEF Aligned
<1>3. ASSUME NEW x \in Nat, Aligned(x, 2 * w) PROVE Aligned(x, w)
  <2>1. PICK b \in Nat : x = b * (2 * w)
    BY <1>3 DEF Aligned
  <2>2. x = (2 * b) * w /\ 2 * b \in Nat
    BY <2>1
  <2>. QED BY <2>2 DEF Aligned
<1>. QED BY <1>1, <1>2, <1>3

\* Two different multiples of a width are at least a width apart.
LEMMA AlignedGap ==
    ASSUME NEW w \in Nat, NEW x \in Nat, NEW y \in Nat, Aligned(x, w), Aligned(y, w), x < y
    PROVE  x + w <= y
<1>1. PICK a \in Nat : x = a * w
  BY DEF Aligned
<1>2. PICK b \in Nat : y = b * w
  BY DEF Aligned
<1>3. a < b
  <2>. SUFFICES ASSUME b <= a PROVE FALSE
    OBVIOUS
  <2>1. PICK d \in Nat : a = b + d
    <3>1. a - b \in Nat /\ a = b + (a - b)
      OBVIOUS
    <3>. QED BY <3>1
  <2>2. x = b * w + d * w /\ d * w \in Nat /\ b * w \in Nat
    BY <1>1, <2>1
  <2>. QED BY <1>2, <2>2
<1>4. PICK d \in Nat : b = a + 1 + d
  <2>1. b - a - 1 \in Nat /\ b = a + 1 + (b - a - 1)
    BY <1>3
  <2>. QED BY <2>1
<1>5. y = a * w + w + d * w /\ d * w \in Nat /\ a * w \in Nat
  BY <1>2, <1>4
<1>. QED BY <1>1, <1>5

\* Where the run that begins at x ends.
Within(x, w, n) == IF x + w <= n THEN x + w ELSE n

\* Runs of width w one after the other.
RunsOf(s, n, w, less) == \A x \in 0 .. n : Aligned(x, w) => Run(s, x, Within(x, w, n), less)

\* t rearranges the first items of s.
Rearranges(t, s, n, u) ==
    /\ t \in Seq(1 .. n) /\ Len(t) <= n
    /\ u \in [1 .. Len(t) -> 1 .. Len(t)]
    /\ \A j, k \in 1 .. Len(t) : j # k => u[j] # u[k]
    /\ \A j \in 1 .. Len(t) : t[j] = s[u[j]]

\* The output of a pass so far: whole pairs of runs, merged.
PassState(s, n, w, less, t) ==
    /\ \E u : Rearranges(t, s, n, u)
    /\ Len(t) = n \/ Aligned(Len(t), 2 * w)
    /\ RunsOf(t, Len(t), 2 * w, less)

PassStep(s, n, w, less, t) ==
    LET middle == Within(Len(t), w, n)
        end == Within(middle, w, n)
    IN  t \o Merge(s, Len(t), middle, end, less)

Passable(s, n, w, less) ==
    /\ n \in Nat /\ w \in Nat \ {0} /\ s \in [1 .. n -> 1 .. n] /\ OrderOf(less, n)
    /\ RunsOf(s, n, w, less)

\* The next pair of runs can be merged.
LEMMA PairMergeable ==
    ASSUME NEW s, NEW n, NEW w, NEW less, Passable(s, n, w, less), NEW a \in 0 .. n,
           a = n \/ Aligned(a, 2 * w)
    PROVE  LET middle == Within(a, w, n)
               end == Within(middle, w, n)
           IN  /\ Mergeable(s, n, a, middle, end, less)
               /\ end = n \/ (end = a + 2 * w /\ Aligned(end, 2 * w))
               /\ a < n => a < end
               /\ end = Within(a, 2 * w, n)
<1>. DEFINE middle == Within(a, w, n)
            end == Within(middle, w, n)
<1>1. n \in Nat /\ w \in Nat /\ w > 0 /\ a \in Nat /\ a <= n
  BY DEF Passable
<1>2. middle = IF a + w <= n THEN a + w ELSE n
  BY DEF Within
<1>3. end = IF middle + w <= n THEN middle + w ELSE n
  BY DEF Within
<1>. HIDE DEF middle, end
<1>4. middle \in Nat /\ end \in Nat /\ a <= middle /\ middle <= end /\ end <= n
      /\ (a < n => a < end)
  BY <1>1, <1>2, <1>3
<1>5. ASSUME a = n PROVE middle = n /\ end = n
  BY <1>1, <1>2, <1>3, <1>5
<1>6. ASSUME Aligned(a, 2 * w) PROVE Aligned(a, w) /\ Aligned(a + w, w)
  BY <1>1, <1>6, AlignedSteps
<1>7. \A x \in 0 .. n : Aligned(x, w) => Run(s, x, Within(x, w, n), less)
  BY DEF Passable, RunsOf
<1>8. \A x \in Nat : Run(s, x, x, less)
  BY DEF Run
<1>9. Run(s, a, middle, less)
  <2>1. CASE a = n
    BY <1>1, <1>5, <1>8, <2>1
  <2>2. CASE Aligned(a, 2 * w)
    BY <1>6, <1>7, <2>2 DEF middle
  <2>. QED BY <2>1, <2>2
<1>10. Run(s, middle, end, less)
  <2>1. CASE middle = n
    <3>1. end = n
      BY <1>1, <1>3, <2>1
    <3>. QED BY <1>1, <1>8, <2>1, <3>1
  <2>2. CASE middle # n
    <3>1. middle = a + w /\ a # n
      BY <1>1, <1>2, <1>5, <2>2
    <3>2. Aligned(middle, w) /\ middle \in 0 .. n
      <4>1. Aligned(a + w, w)
        BY <1>6, <3>1
      <4>2. middle \in 0 .. n
        BY <1>1, <1>4
      <4>. QED BY <3>1, <4>1, <4>2
    <3>. QED BY <1>7, <3>2 DEF end
  <2>. QED BY <2>1, <2>2
<1>11. Mergeable(s, n, a, middle, end, less)
  BY <1>1, <1>4, <1>9, <1>10 DEF Mergeable, Passable
<1>12. end = IF a + 2 * w <= n THEN a + 2 * w ELSE n
  BY <1>1, <1>2, <1>3
<1>13. end = n \/ (end = a + 2 * w /\ Aligned(end, 2 * w))
  <2>1. 2 * w \in Nat
    BY <1>1
  <2>. DEFINE v == 2 * w
  <2>. HIDE DEF v
  <2>2. end = n \/ end = a + v
    BY <1>12 DEF v
  <2>3. (a = n \/ Aligned(a, v)) /\ v \in Nat
    BY <2>1 DEF v
  <2>4. Aligned(a, v) => Aligned(a + v, v)
    BY <1>1, <2>3, AlignedSteps
  <2>5. end = n \/ (end = a + v /\ Aligned(end, v))
    BY <1>5, <2>2, <2>3, <2>4
  <2>. QED BY <2>5 DEF v
<1>. QED BY <1>4, <1>11, <1>12, <1>13 DEF middle, end, Within

\* The places of two lists, one after the other.
LEMMA ConcatIs ==
    ASSUME NEW V, NEW t \in Seq(V), NEW m \in Seq(V)
    PROVE  /\ t \o m \in Seq(V) /\ Len(t \o m) = Len(t) + Len(m)
           /\ \A j \in 1 .. Len(t) : (t \o m)[j] = t[j]
           /\ \A j \in 1 .. Len(m) : (t \o m)[Len(t) + j] = m[j]
OBVIOUS

\* A run in a part of a sequence.
LEMMA RunShifts ==
    ASSUME NEW r, NEW m, NEW a \in Nat, NEW N \in Nat, NEW less, Run(m, 0, N, less),
           \A j \in 1 .. N : r[a + j] = m[j]
    PROVE  Run(r, a, a + N, less)
<1>. SUFFICES ASSUME NEW p \in (a + 1) .. (a + N), NEW q \in (a + 1) .. (a + N), p < q
              PROVE  Before(less, r[p], r[q])
  BY DEF Run
<1>1. p - a \in 1 .. N /\ q - a \in 1 .. N /\ p - a < q - a /\ a + (p - a) = p /\ a + (q - a) = q
  OBVIOUS
<1>2. p - a \in (0 + 1) .. N /\ q - a \in (0 + 1) .. N
  BY <1>1
<1>3. Before(less, m[p - a], m[q - a])
  BY <1>1, <1>2 DEF Run
<1>4. r[p] = m[p - a] /\ r[q] = m[q - a]
  BY <1>1
<1>. QED BY <1>3, <1>4

\* One pair more.
LEMMA PassKeeps ==
    ASSUME NEW s, NEW n, NEW w, NEW less, Passable(s, n, w, less), NEW t,
           PassState(s, n, w, less, t)
    PROVE  LET r == PassStep(s, n, w, less, t)
           IN  PassState(s, n, w, less, r) /\ (Len(t) < n => Len(r) > Len(t))
<1>. DEFINE a == Len(t)
            middle == Within(a, w, n)
            end == Within(middle, w, n)
            m == Merge(s, a, middle, end, less)
            r == t \o m
            N == end - a
            v == 2 * w
<1>1. PICK u : Rearranges(t, s, n, u)
  BY DEF PassState
<1>2. n \in Nat /\ w \in Nat /\ w > 0 /\ a \in Nat /\ a <= n /\ t \in Seq(1 .. n) /\ v \in Nat
      /\ v > 0
  BY <1>1 DEF Passable, Rearranges
<1>3. a \in 0 .. n /\ (a = n \/ Aligned(a, v))
  BY <1>2 DEF PassState
<1>4. /\ Mergeable(s, n, a, middle, end, less)
      /\ end = n \/ (end = a + v /\ Aligned(end, v))
      /\ a < n => a < end
      /\ end = Within(a, v, n)
  <2>. HIDE DEF a
  <2>. QED BY <1>3, PairMergeable
<1>5. r = PassStep(s, n, w, less, t)
  BY DEF PassStep
<1>6. PICK y : MergedBy(s, n, a, end, less, m, y)
  <2>. HIDE DEF a, middle, end
  <2>. QED BY <1>4, MergeIs
<1>7. end \in Nat /\ a <= end /\ end <= n /\ N \in Nat /\ a + N = end
  <2>1. end \in Nat /\ a <= middle /\ middle <= end /\ end <= n /\ middle \in Nat
    <3>. HIDE DEF a, middle, end
    <3>. QED BY <1>4 DEF Mergeable
  <2>. HIDE DEF a, middle, end
  <2>. QED BY <1>2, <2>1
<1>8. m \in Seq(1 .. n) /\ Len(m) = N
  <2>. HIDE DEF a, middle, end, m
  <2>. QED BY <1>6 DEF MergedBy
<1>9. /\ r \in Seq(1 .. n) /\ Len(r) = end
      /\ \A j \in 1 .. a : r[j] = t[j]
      /\ \A j \in 1 .. N : r[a + j] = m[j]
  <2>. HIDE DEF m, N, end
  <2>1. /\ r \in Seq(1 .. n) /\ Len(r) = Len(t) + Len(m)
        /\ \A j \in 1 .. Len(t) : r[j] = t[j]
        /\ \A j \in 1 .. Len(m) : r[Len(t) + j] = m[j]
    <3>. DEFINE V == 1 .. n
    <3>1. t \in Seq(V) /\ m \in Seq(V)
      BY <1>2, <1>8
    <3>. HIDE DEF V
    <3>2. /\ r \in Seq(V) /\ Len(r) = Len(t) + Len(m)
          /\ \A j \in 1 .. Len(t) : r[j] = t[j]
          /\ \A j \in 1 .. Len(m) : r[Len(t) + j] = m[j]
      BY <3>1, ConcatIs
    <3>. QED BY <3>2 DEF V
  <2>. HIDE DEF r
  <2>2. Len(r) = a + N
    BY <1>8, <2>1
  <2>3. \A j \in 1 .. N : r[a + j] = m[j]
    BY <1>8, <2>1, Zenon
  <2>. QED BY <1>7, <2>1, <2>2, <2>3
<1>. HIDE DEF middle, end, m, r, N
<1>10. Rearranges(r, s, n, [j \in 1 .. end |-> IF j <= a THEN u[j] ELSE y[j - a]])
  <2>. DEFINE z == [j \in 1 .. end |-> IF j <= a THEN u[j] ELSE y[j - a]]
  <2>1. ASSUME NEW j \in 1 .. end
        PROVE  /\ j <= a => j \in 1 .. a
               /\ ~(j <= a) => j - a \in 1 .. N /\ a + (j - a) = j
    BY <1>2, <1>7
  <2>2. /\ u \in [1 .. a -> 1 .. a] /\ \A j, k \in 1 .. a : j # k => u[j] # u[k]
        /\ \A j \in 1 .. a : t[j] = s[u[j]]
    BY <1>1 DEF Rearranges
  <2>3. /\ y \in [1 .. N -> (a + 1) .. end] /\ \A j, k \in 1 .. N : j # k => y[j] # y[k]
        /\ \A j \in 1 .. N : m[j] = s[y[j]]
    BY <1>6 DEF MergedBy, N
  <2>. HIDE DEF a
  <2>4. ASSUME NEW j \in 1 .. end
        PROVE  /\ z[j] \in 1 .. end /\ r[j] = s[z[j]]
               /\ j <= a => z[j] <= a /\ z[j] = u[j]
               /\ ~(j <= a) => z[j] > a /\ z[j] = y[j - a]
    <3>1. CASE j <= a
      <4>1. z[j] = u[j] /\ j \in 1 .. a /\ u[j] \in 1 .. a
        BY <2>1, <2>2, <3>1
      <4>. HIDE DEF z
      <4>2. z[j] \in 1 .. end /\ z[j] <= a
        BY <1>2, <1>7, <4>1
      <4>3. r[j] = s[z[j]]
        BY <1>9, <2>2, <4>1
      <4>. QED BY <3>1, <4>1, <4>2, <4>3
    <3>2. CASE ~(j <= a)
      <4>1. z[j] = y[j - a] /\ j - a \in 1 .. N /\ a + (j - a) = j
        BY <2>1, <3>2
      <4>. HIDE DEF z
      <4>2. y[j - a] \in (a + 1) .. end
        BY <2>3, <4>1
      <4>3. z[j] \in 1 .. end /\ z[j] > a
        BY <1>2, <1>7, <4>1, <4>2
      <4>4. r[j] = s[z[j]]
        <5>1. r[a + (j - a)] = m[j - a] /\ m[j - a] = s[y[j - a]]
          BY <1>9, <2>3, <4>1
        <5>. QED BY <4>1, <5>1
      <4>. QED BY <3>2, <4>1, <4>3, <4>4
    <3>. QED BY <3>1, <3>2
  <2>5. z \in [1 .. end -> 1 .. end]
    BY <2>4
  <2>. HIDE DEF z
  <2>6. ASSUME NEW j \in 1 .. end, NEW k \in 1 .. end, j # k PROVE z[j] # z[k]
    <3>1. CASE j <= a /\ k <= a
      BY <2>1, <2>2, <2>4, <2>6, <3>1
    <3>2. CASE ~(j <= a) /\ ~(k <= a)
      <4>1. j - a \in 1 .. N /\ k - a \in 1 .. N /\ j - a # k - a
        BY <1>2, <2>1, <2>6, <3>2
      <4>. QED BY <2>3, <2>4, <3>2, <4>1
    <3>3. CASE j <= a /\ ~(k <= a)
      <4>1. z[j] <= a /\ z[k] > a /\ z[j] \in Nat /\ z[k] \in Nat
        BY <2>4, <3>3
      <4>. QED BY <1>2, <4>1
    <3>4. CASE ~(j <= a) /\ k <= a
      <4>1. z[k] <= a /\ z[j] > a /\ z[j] \in Nat /\ z[k] \in Nat
        BY <2>4, <3>4
      <4>. QED BY <1>2, <4>1
    <3>. QED BY <3>1, <3>2, <3>3, <3>4
  <2>7. Rearranges(r, s, n, z)
    BY <1>7, <1>9, <2>4, <2>5, <2>6 DEF Rearranges
  <2>. QED BY <2>7 DEF z
<1>11. RunsOf(r, end, v, less)
  <2>. SUFFICES ASSUME NEW x \in 0 .. end, Aligned(x, v)
                PROVE  Run(r, x, Within(x, v, end), less)
    BY DEF RunsOf
  <2>. DEFINE to == Within(x, v, end)
  <2>1. to = IF x + v <= end THEN x + v ELSE end
    BY DEF Within
  <2>6. v \in Nat /\ v > 0
    BY <1>2
  <2>. HIDE DEF v, to
  <2>0. RunsOf(t, a, v, less)
    BY DEF PassState, v
  <2>. HIDE DEF a
  <2>2. CASE x < a /\ a = n
    <3>1. end = a
      BY <1>2, <1>7, <2>2
    <3>2. x \in 0 .. a
      BY <1>2, <2>2
    <3>3. Run(t, x, to, less)
      BY <2>0, <3>1, <3>2 DEF RunsOf, to
    <3>4. to \in Nat /\ to <= a
      BY <1>2, <1>7, <2>1, <3>1
    <3>5. \A p \in (x + 1) .. to : r[p] = t[p]
      <4>. TAKE p \in (x + 1) .. to
      <4>1. p \in 1 .. a
        BY <1>2, <3>2, <3>4
      <4>. QED BY <1>9, <4>1, Zenon
    <3>. QED BY <3>3, <3>5 DEF Run, to
  <2>3. CASE x < a /\ a # n
    <3>1. x + v <= a
      BY <1>2, <1>3, <2>3, AlignedGap DEF v
    <3>2. x \in 0 .. a /\ x + v <= end
      BY <1>2, <1>7, <2>3, <3>1
    <3>3. to = x + v /\ Within(x, v, a) = x + v
      BY <2>1, <3>1, <3>2 DEF Within
    <3>4. Run(t, x, to, less)
      BY <2>0, <3>2, <3>3 DEF RunsOf
    <3>5. \A p \in (x + 1) .. to : r[p] = t[p]
      <4>. TAKE p \in (x + 1) .. to
      <4>1. to \in Nat /\ to <= a
        BY <1>2, <2>6, <3>1, <3>2, <3>3
      <4>2. p \in 1 .. a
        BY <1>2, <3>2, <4>1
      <4>. QED BY <1>9, <4>2, Zenon
    <3>. QED BY <3>4, <3>5 DEF Run, to
  <2>4. CASE x = a
    <3>1. Run(m, 0, N, less)
      BY <1>6 DEF MergedBy, N
    <3>2. Run(r, a, a + N, less)
      BY <1>2, <1>7, <1>9, <3>1, RunShifts
    <3>3. to = end
      <4>1. end = IF a + v <= n THEN a + v ELSE n
        BY <1>4 DEF Within, v
      <4>. QED BY <1>2, <1>7, <2>1, <2>4, <4>1 DEF v
    <3>. QED BY <1>7, <2>4, <3>2, <3>3 DEF to
  <2>5. CASE x > a
    <3>1. x = end
      <4>1. a # n /\ Aligned(a, v)
        BY <1>2, <1>3, <1>7, <2>5 DEF v
      <4>2. a + v <= x
        BY <1>2, <2>5, <4>1, AlignedGap DEF v
      <4>3. end = IF a + v <= n THEN a + v ELSE n
        BY <1>4 DEF Within, v
      <4>4. v \in Nat
        BY <1>2 DEF v
      <4>. QED BY <1>2, <1>7, <4>2, <4>3, <4>4
    <3>2. to = end
      BY <1>7, <2>1, <2>6, <3>1
    <3>3. Run(r, end, end, less)
      BY <1>7 DEF Run
    <3>. QED BY <3>1, <3>2, <3>3 DEF to
  <2>. QED BY <1>2, <1>7, <2>2, <2>3, <2>4, <2>5
<1>12. PassState(s, n, w, less, r)
  BY <1>4, <1>9, <1>10, <1>11 DEF PassState, v
<1>. QED BY <1>4, <1>5, <1>9, <1>12

\* The next pair, as MergePass has it, and the equation of MergePass.
PairStep(s, width, less, before) ==
    LET start == Len(before)
        middle == Min({start + width, Len(s)})
        end == Min({middle + width, Len(s)})
    IN  before \o Merge(s, start, middle, end, less)

PassEq(s, width, less, h) ==
    h = [pairs \in 0 .. Len(s) |->
            IF pairs = 0 THEN <<>> ELSE PairStep(s, width, less, h[pairs - 1])]

\* The next pair of runs: where it starts, meets and ends.
LEMMA PairStepIs ==
    ASSUME NEW n \in Nat, NEW s \in Seq(1 .. n), Len(s) = n, NEW w \in Nat, NEW less,
           NEW V, NEW t \in Seq(V)
    PROVE  PairStep(s, w, less, t) = PassStep(s, n, w, less, t)
<1>. DEFINE start == Len(t)
            middle == Min({start + w, Len(s)})
            end == Min({middle + w, Len(s)})
<1>1. start \in Nat
  OBVIOUS
<1>. HIDE DEF start
<1>2. middle = Within(start, w, n)
  <2>1. start + w \in Nat
    BY <1>1
  <2>2. Min({start + w, n}) = IF start + w <= n THEN start + w ELSE n
    BY <2>1, MinTwo
  <2>. QED BY <2>2 DEF Within
<1>. HIDE DEF middle
<1>3. end = Within(middle, w, n)
  <2>1. middle + w \in Nat
    BY <1>1, <1>2 DEF Within
  <2>2. Min({middle + w, n}) = IF middle + w <= n THEN middle + w ELSE n
    BY <2>1, MinTwo
  <2>. QED BY <2>2 DEF Within
<1>4. PairStep(s, w, less, t) = t \o Merge(s, start, middle, end, less)
  BY Zenon DEF PairStep, start, middle
<1>. HIDE DEF end
<1>. QED BY <1>2, <1>3, <1>4, Zenon DEF PassStep, start

\* What a pass makes of its input.
PassResult(s, n, w, less, t) ==
    Len(t) = n /\ (\E u : Rearranges(t, s, n, u)) /\ RunsOf(t, n, 2 * w, less)

\* A pass over runs of one width keeps everything and leaves runs of twice the width.
LEMMA PassIs ==
    ASSUME NEW s, NEW n, NEW w, NEW less, Passable(s, n, w, less), s \in Seq(1 .. n), Len(s) = n
    PROVE  PassResult(s, n, w, less, MergePass(s, w, less))
<1>. DEFINE A == Seq(1 .. n)
            base == <<>>
            Ok1(t) == PassState(s, n, w, less, t)
            Step(t) == PassStep(s, n, w, less, t)
            step == [p \in A \X (1 .. n) |-> IF Ok1(p[1]) THEN Step(p[1]) ELSE p[1]]
            F == CHOOSE h : PassEq(s, w, less, h)
            Far(t, k) == Len(t) >= k \/ Len(t) = n
<1>1. n \in Nat /\ w \in Nat /\ w > 0
  BY DEF Passable
<1>2. \A t : Ok1(t) => t \in A /\ Len(t) \in Nat /\ Len(t) <= n
  <2>. TAKE t
  <2>. HAVE Ok1(t)
  <2>1. PICK u : Rearranges(t, s, n, u)
    BY DEF PassState
  <2>2. t \in Seq(1 .. n) /\ Len(t) <= n
    BY <2>1 DEF Rearranges
  <2>. QED BY <2>2
<1>3. \A t : Ok1(t) => Ok1(Step(t)) /\ (Len(t) < n => Len(Step(t)) > Len(t))
  BY PassKeeps
<1>4. Ok1(base)
  <2>. DEFINE u == [j \in 1 .. 0 |-> j]
  <2>1. Len(base) = 0 /\ base \in Seq(1 .. n)
    OBVIOUS
  <2>2. Rearranges(base, s, n, u)
    <3>1. u \in [1 .. 0 -> 1 .. 0] /\ \A j \in 1 .. 0 : FALSE
      OBVIOUS
    <3>. HIDE DEF u, base
    <3>. QED BY <1>1, <2>1, <3>1 DEF Rearranges
  <2>3. Aligned(0, 2 * w)
    <3>1. 2 * w \in Nat
      BY <1>1
    <3>. DEFINE v == 2 * w
    <3>. HIDE DEF v
    <3>2. Aligned(0, v)
      BY <3>1, AlignedSteps DEF v
    <3>. QED BY <3>2 DEF v
  <2>4. RunsOf(base, 0, 2 * w, less)
    <3>1. \A x \in 0 .. 0 : Within(x, 2 * w, 0) = 0 /\ x = 0
      BY <1>1 DEF Within
    <3>2. Run(base, 0, 0, less)
      BY DEF Run
    <3>. QED BY <3>1, <3>2 DEF RunsOf
  <2>. QED BY <2>1, <2>2, <2>3, <2>4 DEF PassState
<1>5. base \in A
  OBVIOUS
<1>. HIDE DEF A, base
<1>6. step \in [A \X (1 .. n) -> A]
  <2>1. \A t \in A : (IF Ok1(t) THEN Step(t) ELSE t) \in A
    <3>. HIDE DEF Ok1, Step
    <3>. QED BY <1>2, <1>3
  <2>. HIDE DEF Ok1, Step
  <2>. QED BY <2>1
<1>7. PICK h \in [0 .. n -> A] : LoopEq(n, base, step, h)
  <2>. HIDE DEF step
  <2>. QED BY <1>1, <1>5, <1>6, LoopExists
<1>. HIDE DEF Ok1, Step
<1>8. ASSUME NEW k \in 1 .. n PROVE h[k] = IF Ok1(h[k - 1]) THEN Step(h[k - 1]) ELSE h[k - 1]
  <2>1. h[k] = step[<<h[k - 1], k>>]
    BY <1>7 DEF LoopEq
  <2>2. h[k - 1] \in A
    BY <1>7, SMTT(30)
  <2>. QED BY <2>1, <2>2
<1>9. \A k \in 0 .. n : Ok1(h[k])
  <2>. DEFINE S == {k \in 0 .. n : Ok1(h[k])}
  <2>1. 0 \in S
    BY <1>1, <1>4, <1>7 DEF LoopEq
  <2>2. ASSUME NEW k \in 1 .. n, k - 1 \in S PROVE k \in S
    <3>1. k \in 0 .. n
      BY <1>1
    <3>. QED BY <1>3, <1>8, <2>2, <3>1
  <2>3. 0 .. n \subseteq S
    <3>. HIDE DEF S
    <3>. QED BY <1>1, <2>1, <2>2, UpTo
  <2>. QED BY <2>3
<1>10. \A t : Ok1(t) => PairStep(s, w, less, t) = Step(t)
  <2>1. \A t \in A : PairStep(s, w, less, t) = Step(t)
    <3>. DEFINE V == 1 .. n
    <3>. HIDE DEF V
    <3>1. \A t \in Seq(V) : PairStep(s, w, less, t) = PassStep(s, n, w, less, t)
      BY <1>1, PairStepIs
    <3>. QED BY <3>1 DEF A, V, Step
  <2>. QED BY <1>2, <2>1
<1>11. PassEq(s, w, less, h)
  <2>1. \A k \in 0 .. n : h[k] = IF k = 0 THEN base ELSE PairStep(s, w, less, h[k - 1])
    <3>. TAKE k \in 0 .. n
    <3>1. CASE k = 0
      BY <1>7, <3>1 DEF LoopEq
    <3>2. CASE k # 0
      <4>1. k \in 1 .. n /\ k - 1 \in 0 .. n
        BY <1>1, <3>2
      <4>. QED BY <1>8, <1>9, <1>10, <3>2, <4>1
    <3>. QED BY <3>1, <3>2
  <2>2. h = [k \in 0 .. n |-> IF k = 0 THEN base ELSE PairStep(s, w, less, h[k - 1])]
    BY <1>7, <2>1
  <2>. QED BY <2>2, Zenon DEF PassEq, base
<1>12. PassEq(s, w, less, F)
  <2>. HIDE DEF PassEq
  <2>. QED BY <1>11
<1>13. MergePass(s, w, less) = F[n]
  <2>1. MergePass(s, w, less) = F[Len(s)]
    BY DEF MergePass, PassEq, PairStep
  <2>. QED BY <2>1
<1>. HIDE DEF F
<1>14. F = [k \in 0 .. n |-> IF k = 0 THEN base ELSE PairStep(s, w, less, F[k - 1])]
  BY <1>12, Zenon DEF PassEq, base
<1>15. \A k \in 0 .. n : Ok1(F[k]) /\ Far(F[k], k)
  <2>. DEFINE S == {k \in 0 .. n : Ok1(F[k]) /\ Far(F[k], k)}
  <2>1. 0 \in S
    <3>1. 0 \in 0 .. n /\ F[0] = base
      BY <1>1, <1>14
    <3>2. Len(base) = 0
      BY DEF base
    <3>. QED BY <1>4, <3>1, <3>2
  <2>2. ASSUME NEW k \in 1 .. n, k - 1 \in S PROVE k \in S
    <3>. DEFINE t == F[k - 1]
                r == F[k]
    <3>1. k \in 0 .. n /\ k # 0 /\ k - 1 \in 0 .. n
      BY <1>1
    <3>2. r = PairStep(s, w, less, t)
      BY <1>14, <3>1
    <3>3. Ok1(t) /\ Far(t, k - 1)
      BY <2>2
    <3>. HIDE DEF t, r
    <3>4. r = Step(t) /\ Ok1(r) /\ (Len(t) < n => Len(r) > Len(t))
      BY <1>3, <1>10, <3>2, <3>3
    <3>5. Len(t) \in Nat /\ Len(r) \in Nat /\ Len(t) <= n /\ Len(r) <= n
      BY <1>2, <3>3, <3>4
    <3>6. CASE Len(t) < n
      <4>1. Len(t) >= k - 1
        BY <1>1, <3>3, <3>5, <3>6
      <4>2. Len(r) >= k
        BY <1>1, <3>4, <3>5, <3>6, <4>1
      <4>. QED BY <3>1, <3>4, <4>2 DEF r
    <3>7. CASE ~(Len(t) < n)
      <4>1. Len(t) = n
        BY <1>1, <3>5, <3>7
      <4>2. Len(r) >= Len(t)
        <5>1. r = t \o Merge(s, Len(t), Within(Len(t), w, n), Within(Within(Len(t), w, n), w, n), less)
          BY <3>4, Zenon DEF Step, PassStep
        <5>2. Within(Len(t), w, n) = n /\ Within(n, w, n) = n
          BY <1>1, <4>1 DEF Within
        <5>3. Mergeable(s, n, n, n, n, less)
          <6>1. Run(s, n, n, less)
            BY <1>1 DEF Run
          <6>2. n \in Nat /\ n <= n
            BY <1>1
          <6>. QED BY <6>1, <6>2 DEF Mergeable, Passable
        <5>. DEFINE m == Merge(s, n, n, n, less)
        <5>4. PICK u : MergedBy(s, n, n, n, less, m, u)
          BY <5>3, MergeIs
        <5>5. m \in Seq(1 .. n) /\ t \in Seq(1 .. n)
          BY <1>2, <3>3, <5>4 DEF MergedBy, A
        <5>6. r = t \o m
          BY <4>1, <5>1, <5>2
        <5>. HIDE DEF m
        <5>. QED BY <5>5, <5>6
      <4>3. Len(r) = n
        BY <1>1, <3>5, <4>1, <4>2
      <4>. QED BY <3>1, <3>4, <4>3 DEF r
    <3>. QED BY <3>6, <3>7
  <2>3. 0 .. n \subseteq S
    <3>. HIDE DEF S
    <3>. QED BY <1>1, <2>1, <2>2, UpTo
  <2>. QED BY <2>3
<1>. DEFINE r == F[n]
<1>16. Ok1(r) /\ Len(r) = n
  <2>1. n \in 0 .. n
    BY <1>1
  <2>2. Ok1(r) /\ Far(r, n)
    BY <1>15, <2>1
  <2>. HIDE DEF r
  <2>3. Len(r) \in Nat /\ Len(r) <= n
    BY <1>2, <2>2
  <2>. QED BY <1>1, <2>2, <2>3
<1>. HIDE DEF r
<1>17. PassResult(s, n, w, less, r)
  BY <1>16 DEF PassResult, PassState, Ok1
<1>. QED BY <1>13, <1>17 DEF r

\* An order of n items in runs of some width.
SortOk(n, less, x) ==
    /\ x \in [width : Nat \ {0}, order : Seq(1 .. n)] /\ Len(x.order) = n
    /\ \A i, j \in 1 .. n : i # j => x.order[i] # x.order[j]
    /\ RunsOf(x.order, n, x.width, less)

SortStep(n, less, runs) ==
    IF runs.width >= n THEN runs
    ELSE [width |-> 2 * runs.width, order |-> MergePass(runs.order, runs.width, less)]

\* A pass keeps the items and doubles the width.
LEMMA SortKeeps ==
    ASSUME NEW n \in Nat, NEW less, OrderOf(less, n), NEW x, SortOk(n, less, x)
    PROVE  LET y == SortStep(n, less, x)
           IN  /\ SortOk(n, less, y)
               /\ y.width = IF x.width >= n THEN x.width ELSE 2 * x.width
<1>. DEFINE y == SortStep(n, less, x)
            w == x.width
            s == x.order
            t == MergePass(s, w, less)
<1>1. w \in Nat /\ w > 0 /\ s \in Seq(1 .. n) /\ Len(s) = n
  BY DEF SortOk
<1>2. CASE w >= n
  BY <1>2 DEF SortStep
<1>3. CASE ~(w >= n)
  <2>1. y = [width |-> 2 * w, order |-> t]
    BY <1>3 DEF SortStep
  <2>2. Passable(s, n, w, less)
    <3>1. s \in [1 .. n -> 1 .. n]
      BY <1>1, SMTT(30)
    <3>2. RunsOf(s, n, w, less)
      BY DEF SortOk
    <3>. QED BY <1>1, <3>1, <3>2, SMTT(30) DEF Passable
  <2>3. PassResult(s, n, w, less, t)
    <3>. HIDE DEF s, w
    <3>. QED BY <1>1, <2>2, PassIs
  <2>4. PICK u : Rearranges(t, s, n, u)
    BY <2>3 DEF PassResult
  <2>5. Len(t) = n /\ RunsOf(t, n, 2 * w, less)
    BY <2>3 DEF PassResult
  <2>6. \A i, j \in 1 .. n : i # j => s[i] # s[j]
    BY DEF SortOk
  <2>. HIDE DEF s, w, t
  <2>7. /\ t \in Seq(1 .. n) /\ u \in [1 .. n -> 1 .. n]
        /\ \A j, k \in 1 .. n : j # k => u[j] # u[k]
        /\ \A j \in 1 .. n : t[j] = s[u[j]]
    BY <2>4, <2>5 DEF Rearranges
  <2>8. \A i, j \in 1 .. n : i # j => t[i] # t[j]
    <3>1. \A i \in 1 .. n : u[i] \in 1 .. n
      BY <2>7
    <3>. QED BY <2>6, <2>7, <3>1, SMTT(30)
  <2>9. 2 * w \in Nat \ {0}
    BY <1>1
  <2>. HIDE DEF y
  <2>10. y.width = 2 * w /\ y.order = t /\ y \in [width : Nat \ {0}, order : Seq(1 .. n)]
    BY <2>1, <2>7, <2>9
  <2>11. SortOk(n, less, y)
    BY <2>5, <2>8, <2>10 DEF SortOk
  <2>. QED BY <1>3, <2>10, <2>11 DEF y, w
<1>. QED BY <1>2, <1>3

\* The equation of SortedOrder.
SortBase(n) == [width |-> 1, order |-> [i \in 1 .. n |-> i]]
SortEq(n, less, h) ==
    h = [pass \in 0 .. n |->
            IF pass = 0 THEN SortBase(n) ELSE SortStep(n, less, h[pass - 1])]

\* The sort begins with runs of one.
LEMMA SortBegins ==
    ASSUME NEW n \in Nat, NEW less
    PROVE  SortOk(n, less, SortBase(n))
<1>. DEFINE o == [i \in 1 .. n |-> i]
            b == SortBase(n)
<1>1. o \in [1 .. n -> 1 .. n] /\ \A i \in 1 .. n : o[i] = i
  OBVIOUS
<1>2. o \in Seq(1 .. n) /\ Len(o) = n
  <2>. HIDE DEF o
  <2>. QED BY <1>1
<1>3. b = [width |-> 1, order |-> o]
  BY DEF SortBase
<1>. HIDE DEF o, b
<1>4. b \in [width : Nat \ {0}, order : Seq(1 .. n)] /\ b.width = 1 /\ b.order = o
  BY <1>2, <1>3
<1>5. RunsOf(o, n, 1, less)
  <2>. SUFFICES ASSUME NEW x \in 0 .. n PROVE Run(o, x, Within(x, 1, n), less)
    BY DEF RunsOf
  <2>1. Within(x, 1, n) \in Int /\ Within(x, 1, n) <= x + 1
    BY DEF Within
  <2>. DEFINE y == Within(x, 1, n)
  <2>. HIDE DEF y
  <2>2. \A p, q \in (x + 1) .. y : ~(p < q)
    BY <2>1 DEF y
  <2>3. Run(o, x, y, less)
    BY <2>2 DEF Run
  <2>. QED BY <2>3 DEF y
<1>6. \A i, j \in 1 .. n : i # j => o[i] # o[j]
  BY <1>1
<1>. QED BY <1>2, <1>4, <1>5, <1>6 DEF SortOk, b

\* The sort of n items is an order of all of them, as one run.
LEMMA SortedIs ==
    ASSUME NEW n \in Nat, NEW less, Len(less) = n, OrderOf(less, n)
    PROVE  LET o == SortedOrder(less)
           IN  /\ o \in Seq(1 .. n) /\ Len(o) = n
               /\ \A i, j \in 1 .. n : i # j => o[i] # o[j]
               /\ Run(o, 0, n, less)
<1>. DEFINE A == [width : Nat \ {0}, order : Seq(1 .. n)]
            base == SortBase(n)
            Good(x) == SortOk(n, less, x)
            Step(x) == SortStep(n, less, x)
            step == [p \in A \X (1 .. n) |-> IF Good(p[1]) THEN Step(p[1]) ELSE p[1]]
            F == CHOOSE h : SortEq(n, less, h)
            Far(x, k) == x.width >= n \/ x.width >= k + 1
<1>1. Good(base)
  BY SortBegins
<1>2. \A x : Good(x) => x \in A /\ x.width \in Nat /\ x.width > 0
  BY DEF SortOk
<1>3. \A x : Good(x) => Good(Step(x)) /\ Step(x).width = IF x.width >= n THEN x.width ELSE 2 * x.width
  BY SortKeeps
<1>4. SortedOrder(less) = F[n].order
  BY DEF SortedOrder, SortEq, SortBase, SortStep
<1>5. base.width = 1
  BY DEF SortBase
<1>. HIDE DEF A, base, Good, Step
<1>6. step \in [A \X (1 .. n) -> A]
  <2>1. \A x \in A : (IF Good(x) THEN Step(x) ELSE x) \in A
    BY <1>2, <1>3
  <2>. QED BY <2>1
<1>7. PICK h \in [0 .. n -> A] : LoopEq(n, base, step, h)
  <2>1. base \in A
    BY <1>1, <1>2
  <2>. HIDE DEF step
  <2>. QED BY <1>6, <2>1, LoopExists
<1>8. ASSUME NEW k \in 1 .. n PROVE h[k] = IF Good(h[k - 1]) THEN Step(h[k - 1]) ELSE h[k - 1]
  <2>1. h[k] = step[<<h[k - 1], k>>]
    BY <1>7 DEF LoopEq
  <2>2. h[k - 1] \in A
    BY <1>7
  <2>. QED BY <2>1, <2>2
<1>9. \A k \in 0 .. n : Good(h[k])
  <2>. DEFINE S == {k \in 0 .. n : Good(h[k])}
  <2>1. 0 \in S
    BY <1>1, <1>7 DEF LoopEq
  <2>2. ASSUME NEW k \in 1 .. n, k - 1 \in S PROVE k \in S
    <3>1. k \in 0 .. n
      OBVIOUS
    <3>. QED BY <1>3, <1>8, <2>2, <3>1
  <2>3. 0 .. n \subseteq S
    <3>. HIDE DEF S
    <3>. QED BY <2>1, <2>2, UpTo
  <2>. QED BY <2>3
<1>10. SortEq(n, less, h)
  <2>1. \A k \in 0 .. n : h[k] = IF k = 0 THEN base ELSE Step(h[k - 1])
    <3>. TAKE k \in 0 .. n
    <3>1. CASE k = 0
      BY <1>7, <3>1 DEF LoopEq
    <3>2. CASE k # 0
      <4>1. k \in 1 .. n /\ k - 1 \in 0 .. n
        BY <3>2
      <4>. QED BY <1>8, <1>9, <3>2, <4>1
    <3>. QED BY <3>1, <3>2
  <2>2. h = [k \in 0 .. n |-> IF k = 0 THEN base ELSE Step(h[k - 1])]
    BY <1>7, <2>1
  <2>. QED BY <2>2, Zenon DEF SortEq, base, Step
<1>11. SortEq(n, less, F)
  <2>. HIDE DEF SortEq
  <2>. QED BY <1>10
<1>. HIDE DEF F
<1>12. F = [k \in 0 .. n |-> IF k = 0 THEN base ELSE Step(F[k - 1])]
  BY <1>11, Zenon DEF SortEq, base, Step
<1>13. \A k \in 0 .. n : Good(F[k]) /\ Far(F[k], k)
  <2>. DEFINE S == {k \in 0 .. n : Good(F[k]) /\ Far(F[k], k)}
  <2>1. 0 \in S
    <3>1. 0 \in 0 .. n /\ F[0] = base
      BY <1>12
    <3>. QED BY <1>1, <1>5, <3>1
  <2>2. ASSUME NEW k \in 1 .. n, k - 1 \in S PROVE k \in S
    <3>. DEFINE x == F[k - 1]
                y == F[k]
    <3>1. k \in 0 .. n /\ k # 0 /\ k - 1 \in 0 .. n
      OBVIOUS
    <3>2. y = Step(x)
      BY <1>12, <3>1
    <3>3. Good(x) /\ Far(x, k - 1)
      BY <2>2
    <3>. HIDE DEF x, y
    <3>4. Good(y) /\ y.width = IF x.width >= n THEN x.width ELSE 2 * x.width
      BY <1>3, <3>2, <3>3
    <3>5. x.width \in Nat /\ x.width > 0
      BY <1>2, <3>3
    <3>6. Far(y, k)
      <4>. DEFINE v == x.width
                  z == y.width
      <4>. HIDE DEF v, z
      <4>1. v \in Nat /\ v > 0 /\ z = (IF v >= n THEN v ELSE 2 * v) /\ (v >= n \/ v >= k - 1 + 1)
        BY <3>3, <3>4, <3>5 DEF v, z
      <4>2. z >= n \/ z >= k + 1
        BY <4>1
      <4>. QED BY <4>2 DEF z
    <3>. QED BY <3>1, <3>4, <3>6 DEF y
  <2>3. 0 .. n \subseteq S
    <3>. HIDE DEF S
    <3>. QED BY <2>1, <2>2, UpTo
  <2>. QED BY <2>3
<1>. DEFINE r == F[n]
            o == r.order
            w == r.width
<1>14. Good(r) /\ Far(r, n)
  BY <1>13
<1>. HIDE DEF r
<1>15. o \in Seq(1 .. n) /\ Len(o) = n /\ RunsOf(o, n, w, less) /\ w \in Nat
       /\ \A i, j \in 1 .. n : i # j => o[i] # o[j]
  BY <1>14 DEF Good, SortOk
<1>16. Run(o, 0, n, less)
  <2>1. w >= n
    BY <1>14, <1>15
  <2>. HIDE DEF o, w
  <2>2. Aligned(0, w) /\ 0 \in 0 .. n
    BY <1>15, AlignedSteps
  <2>3. Within(0, w, n) = n
    BY <1>15, <2>1 DEF Within
  <2>4. Run(o, 0, Within(0, w, n), less)
    BY <1>15, <2>2 DEF RunsOf
  <2>. QED BY <2>3, <2>4
<1>. QED BY <1>4, <1>15, <1>16 DEF r

-----------------------------------------------------------------------------
(* Chunk ids.                                                              *)

\* The order of drafts: by entry, then object, then offset.
LEMMA DraftLessIs ==
    ASSUME NEW a \in Drafts, NEW b \in Drafts
    PROVE  DraftLess(a, b) <=>
              \/ a.entry < b.entry
              \/ a.entry = b.entry /\ a.object < b.object
              \/ a.entry = b.entry /\ a.object = b.object /\ a.offset < b.offset
<1>. DEFINE x == DraftKey(a)
            y == DraftKey(b)
            Lt(i) == x[i] < y[i] /\ \A j \in 1 .. i - 1 : x[j] = y[j]
<1>1. /\ x[1] = a.entry /\ x[2] = a.object /\ x[3] = a.offset
      /\ y[1] = b.entry /\ y[2] = b.object /\ y[3] = b.offset
      /\ Len(x) = 3 /\ Len(y) = 3 /\ DOMAIN x = 1 .. 3 /\ DOMAIN y = 1 .. 3
  BY DEF DraftKey
<1>2. DraftLess(a, b) <=> (\/ Len(x) < Len(y) /\ SubSeq(y, 1, Len(x)) = x
                           \/ \E i \in DOMAIN x \cap DOMAIN y : Lt(i))
  BY DEF DraftLess, LexLess
<1>. HIDE DEF x, y
<1>3. ~(Len(x) < Len(y))
  BY <1>1
<1>4. DOMAIN x \cap DOMAIN y = {1, 2, 3}
  BY <1>1
<1>5. DraftLess(a, b) <=> (Lt(1) \/ Lt(2) \/ Lt(3))
  <2>. HIDE DEF Lt
  <2>. QED BY <1>2, <1>3, <1>4
<1>6. /\ Lt(1) <=> x[1] < y[1]
      /\ Lt(2) <=> x[2] < y[2] /\ x[1] = y[1]
      /\ Lt(3) <=> x[3] < y[3] /\ x[1] = y[1] /\ x[2] = y[2]
  OBVIOUS
<1>. HIDE DEF Lt
<1>. QED BY <1>1, <1>5, <1>6

\* Which of two drafts comes first, decided for any three drafts.
LEMMA DraftsOrdered ==
    ASSUME NEW a \in Drafts, NEW b \in Drafts, NEW c \in Drafts
    PROVE  /\ ~DraftLess(a, b) \/ ~DraftLess(b, a)
           /\ ~DraftLess(b, a) /\ ~DraftLess(c, b) => ~DraftLess(c, a)
           /\ DraftLess(a, b) \/ DraftLess(b, a) \/ DraftKey(a) = DraftKey(b)
           /\ DraftLess(a, b) => DraftKey(a) # DraftKey(b)
<1>1. /\ a.entry \in Nat /\ a.object \in Nat /\ a.offset \in Nat
      /\ b.entry \in Nat /\ b.object \in Nat /\ b.offset \in Nat
      /\ c.entry \in Nat /\ c.object \in Nat /\ c.offset \in Nat
  BY DEF Drafts
<1>2. DraftKey(a) = DraftKey(b) <=>
        a.entry = b.entry /\ a.object = b.object /\ a.offset = b.offset
  BY DEF DraftKey
<1>3. DraftLess(a, b) <=>
              \/ a.entry < b.entry
              \/ a.entry = b.entry /\ a.object < b.object
              \/ a.entry = b.entry /\ a.object = b.object /\ a.offset < b.offset
  BY DraftLessIs
<1>4. DraftLess(b, a) <=>
              \/ b.entry < a.entry
              \/ b.entry = a.entry /\ b.object < a.object
              \/ b.entry = a.entry /\ b.object = a.object /\ b.offset < a.offset
  BY DraftLessIs
<1>5. DraftLess(c, b) <=>
              \/ c.entry < b.entry
              \/ c.entry = b.entry /\ c.object < b.object
              \/ c.entry = b.entry /\ c.object = b.object /\ c.offset < b.offset
  BY DraftLessIs
<1>6. DraftLess(c, a) <=>
              \/ c.entry < a.entry
              \/ c.entry = a.entry /\ c.object < a.object
              \/ c.entry = a.entry /\ c.object = a.object /\ c.offset < a.offset
  BY DraftLessIs
<1>7. ~DraftLess(a, b) \/ ~DraftLess(b, a)
  BY <1>1, <1>3, <1>4
<1>8. ~DraftLess(b, a) /\ ~DraftLess(c, b) => ~DraftLess(c, a)
  BY <1>1, <1>4, <1>5, <1>6
<1>9. DraftLess(a, b) \/ DraftLess(b, a) \/ DraftKey(a) = DraftKey(b)
  BY <1>1, <1>2, <1>3, <1>4
<1>10. DraftLess(a, b) => DraftKey(a) # DraftKey(b)
  BY <1>1, <1>2, <1>3
<1>. QED BY <1>7, <1>8, <1>9, <1>10

\* o puts the n drafts of a list in order.
Puts(o, list, n) ==
    /\ o \in [1 .. n -> 1 .. n]
    /\ \A i, j \in 1 .. n : i # j => o[i] # o[j]
    /\ \A i, j \in 1 .. n : i < j => ~DraftLess(list[o[j]], list[o[i]])

\* Drafts are sorted by their positions.
LEMMA DraftsSorted ==
    ASSUME NEW n \in Nat, NEW list \in Seq(Drafts), Len(list) = n
    PROVE  \E o : Puts(o, list, n) /\ CanonicalDrafts(list) = [i \in 1 .. n |-> list[o[i]]]
<1>. DEFINE less == [a \in 1 .. n |-> [b \in 1 .. n |-> DraftLess(list[a], list[b])]]
            o == SortedOrder(less)
<1>1. DOMAIN list = 1 .. n
  OBVIOUS
<1>2. CanonicalDrafts(list) = [i \in 1 .. n |-> list[o[i]]]
  <2>1. CanonicalDrafts(list) =
          LET order == SortedOrder([a \in DOMAIN list |-> [b \in DOMAIN list |->
                                        DraftLess(list[a], list[b])]])
          IN  [i \in DOMAIN list |-> list[order[i]]]
    BY DEF CanonicalDrafts, SortBy
  <2>. QED BY <1>1, <2>1
<1>3. Len(less) = n
  OBVIOUS
<1>4. \A a, b \in 1 .. n : less[b][a] <=> DraftLess(list[b], list[a])
  OBVIOUS
<1>5. \A a \in 1 .. n : list[a] \in Drafts
  OBVIOUS
<1>6. \A a, b \in 1 .. n : Before(less, a, b) <=> ~DraftLess(list[b], list[a])
  <2>. HIDE DEF less
  <2>. QED BY <1>4 DEF Before
<1>. HIDE DEF less
<1>7. OrderOf(less, n)
  <2>1. ASSUME NEW a \in 1 .. n, NEW b \in 1 .. n PROVE Before(less, a, b) \/ Before(less, b, a)
    <3>1. list[a] \in Drafts /\ list[b] \in Drafts
      BY <1>5
    <3>2. ~DraftLess(list[a], list[b]) \/ ~DraftLess(list[b], list[a])
      BY <3>1, DraftsOrdered
    <3>. QED BY <1>6, <3>2
  <2>2. ASSUME NEW a \in 1 .. n, NEW b \in 1 .. n, NEW c \in 1 .. n,
               Before(less, a, b), Before(less, b, c)
        PROVE  Before(less, a, c)
    <3>1. list[a] \in Drafts /\ list[b] \in Drafts /\ list[c] \in Drafts
      BY <1>5
    <3>2. ~DraftLess(list[b], list[a]) /\ ~DraftLess(list[c], list[b])
      BY <1>6, <2>2
    <3>3. ~DraftLess(list[c], list[a])
      BY <3>1, <3>2, DraftsOrdered
    <3>. QED BY <1>6, <3>3
  <2>. QED BY <2>1, <2>2 DEF OrderOf
<1>8. /\ o \in Seq(1 .. n) /\ Len(o) = n
      /\ \A i, j \in 1 .. n : i # j => o[i] # o[j]
      /\ Run(o, 0, n, less)
  BY <1>3, <1>7, SortedIs
<1>. HIDE DEF o
<1>9. Puts(o, list, n)
  <2>1. o \in [1 .. n -> 1 .. n]
    BY <1>8
  <2>2. ASSUME NEW i \in 1 .. n, NEW j \in 1 .. n, i < j
        PROVE  ~DraftLess(list[o[j]], list[o[i]])
    <3>1. i \in (0 + 1) .. n /\ j \in (0 + 1) .. n
      OBVIOUS
    <3>2. Before(less, o[i], o[j])
      BY <1>8, <2>2, <3>1 DEF Run
    <3>3. o[i] \in 1 .. n /\ o[j] \in 1 .. n
      BY <2>1
    <3>. QED BY <1>6, <3>2, <3>3
  <2>. QED BY <1>8, <2>1, <2>2 DEF Puts
<1>. QED BY <1>2, <1>9

OneToOne(q, n) == \A i, j \in 1 .. n : i # j => q[i] # q[j]
Onto(q, n) == \A t \in 1 .. n : \E s \in 1 .. n : q[s] = t

\* An injection of 1 .. n into itself reaches every number.
LEMMA OrderIsOnto ==
    ASSUME NEW n \in Nat, NEW q \in [1 .. n -> 1 .. n], OneToOne(q, n)
    PROVE  Onto(q, n)
<1>. DEFINE V == 1 .. n
<1>1. IsFiniteSet(V)
  BY FS_Interval
<1>2. q \in Injection(V, V)
  BY DEF Injection, IsInjective, OneToOne
<1>. HIDE DEF V
<1>3. q \in Surjection(V, V)
  BY <1>1, <1>2, FS_Injection
<1>. QED BY <1>3 DEF Surjection, V, Onto

\* x holds the drafts of a list, strictly in order.
Strictly(x, list, n) ==
    /\ x \in [1 .. n -> Drafts]
    /\ \A i, j \in 1 .. n : i < j => DraftLess(x[i], x[j])
    /\ ToSet(list) = {x[i] : i \in 1 .. n}

\* Before the i-th draft in order there are i - 1.
LEMMA DraftsBefore ==
    ASSUME NEW n \in Nat, NEW list, NEW x, Strictly(x, list, n), NEW i \in 1 .. n
    PROVE  Cardinality({d \in ToSet(list) : DraftLess(d, x[i])}) = i - 1
<1>. DEFINE T == {d \in ToSet(list) : DraftLess(d, x[i])}
            S == 1 .. (i - 1)
            f == [k \in S |-> x[k]]
<1>1. /\ x \in [1 .. n -> Drafts]
      /\ \A a, b \in 1 .. n : a < b => DraftLess(x[a], x[b])
      /\ ToSet(list) = {x[a] : a \in 1 .. n}
  BY DEF Strictly
<1>2. \A a \in 1 .. n : x[a] \in Drafts
  BY <1>1
<1>3. \A a, b \in 1 .. n : DraftLess(x[a], x[b]) => ~DraftLess(x[b], x[a])
  <2>. TAKE a, b \in 1 .. n
  <2>1. x[a] \in Drafts /\ x[b] \in Drafts
    BY <1>2
  <2>. QED BY <2>1, DraftsOrdered
<1>4. \A a, b \in 1 .. n : DraftLess(x[a], x[b]) <=> a < b
  <2>. TAKE a, b \in 1 .. n
  <2>1. CASE a < b
    BY <1>1, <2>1
  <2>2. CASE b < a
    BY <1>1, <1>3, <2>2
  <2>3. CASE a = b
    BY <1>3, <2>3
  <2>. QED BY <2>1, <2>2, <2>3
<1>5. \A k \in S : k \in 1 .. n /\ k < i
  OBVIOUS
<1>6. f \in [S -> T]
  BY <1>1, <1>4, <1>5
<1>7. \A a, b \in S : f[a] = f[b] => a = b
  <2>. TAKE a, b \in S
  <2>1. a \in 1 .. n /\ b \in 1 .. n /\ f[a] = x[a] /\ f[b] = x[b]
    BY <1>5
  <2>2. x[a] = x[b] => ~(a < b) /\ ~(b < a)
    BY <1>3, <1>4, <2>1
  <2>. HIDE DEF f
  <2>. QED BY <2>1, <2>2
<1>8. \A t \in T : \E s \in S : f[s] = t
  <2>. TAKE t \in T
  <2>1. PICK a \in 1 .. n : t = x[a]
    BY <1>1
  <2>2. a < i
    BY <1>4, <2>1
  <2>3. a \in S
    BY <2>2
  <2>. QED BY <2>1, <2>3
<1>9. IsFiniteSet(S) /\ Cardinality(S) = i - 1
  BY FS_Interval
<1>. HIDE DEF T, S, f
<1>10. f \in Bijection(S, T)
  BY <1>6, <1>7, <1>8 DEF Bijection, Injection, Surjection, IsInjective
<1>11. Cardinality(T) = Cardinality(S)
  BY <1>9, <1>10, FS_Bijection DEF ExistsBijection
<1>. QED BY <1>9, <1>11 DEF T

\* Drafts as the crate's calls return them.
Assignable(list) ==
    /\ list \in Seq(Drafts)
    /\ \A i \in 1 .. Len(list) :
          /\ list[i].len # 0 \/ list[i].method = "MicroFile"
          /\ list[i].offset + list[i].len <= OffsetMax

\* Positions of a list's drafts are all different.
DistinctKeys(list) ==
    \A i, j \in 1 .. Len(list) : i # j => DraftKey(list[i]) # DraftKey(list[j])

\* x holds the drafts of a list in order.
InOrder(x, list, n) ==
    /\ x \in [1 .. n -> Drafts]
    /\ \A i, j \in 1 .. n : i < j => ~DraftLess(x[j], x[i])
    /\ \E q \in [1 .. n -> 1 .. n] :
          /\ \A i, j \in 1 .. n : i # j => q[i] # q[j]
          /\ \A i \in 1 .. n : x[i] = list[q[i]]

\* The sorted drafts, whatever order they came in.
LEMMA SortedPermuted ==
    ASSUME NEW all \in Seq(Drafts), NEW p \in Orders(Len(all))
    PROVE  InOrder(CanonicalDrafts(Permuted(all, p)), all, Len(all))
<1>. DEFINE n == Len(all)
            list == Permuted(all, p)
            x == CanonicalDrafts(list)
<1>1. n \in Nat /\ all \in [1 .. n -> Drafts]
  OBVIOUS
<1>2. p \in [1 .. n -> 1 .. n] /\ \A i, j \in 1 .. n : i # j => p[i] # p[j]
  BY DEF Orders
<1>3. list = [i \in 1 .. n |-> all[p[i]]]
  BY DEF Permuted
<1>. HIDE DEF n, list
<1>4. list \in [1 .. n -> Drafts] /\ \A i \in 1 .. n : list[i] = all[p[i]]
  BY <1>1, <1>2, <1>3
<1>5. list \in Seq(Drafts) /\ Len(list) = n
  <2>. HIDE DEF Drafts
  <2>. QED BY <1>1, <1>4
<1>6. PICK o : Puts(o, list, n) /\ x = [i \in 1 .. n |-> list[o[i]]]
  BY <1>1, <1>5, DraftsSorted
<1>7. /\ o \in [1 .. n -> 1 .. n]
      /\ \A i, j \in 1 .. n : i # j => o[i] # o[j]
      /\ \A i, j \in 1 .. n : i < j => ~DraftLess(list[o[j]], list[o[i]])
  BY <1>6 DEF Puts
<1>. HIDE DEF x
<1>8. x \in [1 .. n -> Drafts] /\ \A i \in 1 .. n : x[i] = list[o[i]]
  BY <1>4, <1>6, <1>7
<1>9. \A i, j \in 1 .. n : i < j => ~DraftLess(x[j], x[i])
  BY <1>7, <1>8
<1>. DEFINE q == [i \in 1 .. n |-> p[o[i]]]
<1>10. q \in [1 .. n -> 1 .. n] /\ \A i \in 1 .. n : q[i] = p[o[i]]
  BY <1>2, <1>7
<1>. HIDE DEF q
<1>11. \A i, j \in 1 .. n : i # j => q[i] # q[j]
  <2>1. \A i \in 1 .. n : o[i] \in 1 .. n
    BY <1>7
  <2>. QED BY <1>2, <1>7, <1>10, <2>1
<1>12. \A i \in 1 .. n : x[i] = all[q[i]]
  <2>1. \A i \in 1 .. n : o[i] \in 1 .. n
    BY <1>7
  <2>. QED BY <1>4, <1>8, <1>10, <2>1
<1>13. InOrder(x, all, n)
  BY <1>8, <1>9, <1>10, <1>11, <1>12 DEF InOrder
<1>. QED BY <1>13 DEF x, n, list

\* In a sorted list it is enough to compare neighbours.
Neighbours(x, n) == \A i \in 1 .. n - 1 : DraftKey(x[i]) # DraftKey(x[i + 1])

\* What the neighbours of a sorted list say of all of it.
LEMMA NeighboursDiffer ==
    ASSUME NEW list \in Seq(Drafts), NEW n \in Nat, Len(list) = n, NEW x, InOrder(x, list, n)
    PROVE  /\ Neighbours(x, n) => Strictly(x, list, n)
           /\ Neighbours(x, n) <=> DistinctKeys(list)
           /\ ToSet(list) = {x[i] : i \in 1 .. n}
<1>1. /\ x \in [1 .. n -> Drafts]
      /\ \A i, j \in 1 .. n : i < j => ~DraftLess(x[j], x[i])
  BY DEF InOrder
<1>2. PICK q \in [1 .. n -> 1 .. n] :
          /\ \A i, j \in 1 .. n : i # j => q[i] # q[j]
          /\ \A i \in 1 .. n : x[i] = list[q[i]]
  BY DEF InOrder
<1>3. \A t \in 1 .. n : \E s \in 1 .. n : q[s] = t
  <2>1. OneToOne(q, n)
    BY <1>2 DEF OneToOne
  <2>2. Onto(q, n)
    BY <2>1, OrderIsOnto
  <2>. QED BY <2>2 DEF Onto
<1>4. \A i \in 1 .. n : x[i] \in Drafts /\ q[i] \in 1 .. n
  BY <1>1
<1>5. DOMAIN list = 1 .. n
  OBVIOUS
<1>6. ToSet(list) = {x[i] : i \in 1 .. n}
  <2>1. ToSet(list) = {list[t] : t \in 1 .. n}
    BY <1>5 DEF ToSet
  <2>2. ASSUME NEW t \in 1 .. n PROVE \E i \in 1 .. n : list[t] = x[i]
    <3>1. PICK s \in 1 .. n : q[s] = t
      BY <1>3
    <3>. QED BY <1>2, <3>1
  <2>3. ASSUME NEW i \in 1 .. n PROVE \E t \in 1 .. n : x[i] = list[t]
    BY <1>2, <1>4
  <2>. DEFINE A == {list[t] : t \in 1 .. n}
              B == {x[i] : i \in 1 .. n}
  <2>4. A \subseteq B
    <3>. SUFFICES ASSUME NEW t \in 1 .. n PROVE list[t] \in B
      OBVIOUS
    <3>1. PICK i \in 1 .. n : list[t] = x[i]
      BY <2>2
    <3>. QED BY <3>1
  <2>5. B \subseteq A
    BY <2>3
  <2>6. A = B
    <3>. HIDE DEF A, B
    <3>. QED BY <2>4, <2>5
  <2>. QED BY <2>1, <2>6
<1>7. ASSUME Neighbours(x, n), NEW i \in 1 .. n, NEW j \in 1 .. n, i < j
      PROVE  DraftLess(x[i], x[j])
  <2>1. i \in 1 .. n - 1 /\ i + 1 \in 1 .. n /\ i < i + 1
    BY <1>7
  <2>2. DraftKey(x[i]) # DraftKey(x[i + 1])
    BY <1>7, <2>1 DEF Neighbours
  <2>. DEFINE a == x[i]
              b == x[i + 1]
              c == x[j]
  <2>3. a \in Drafts /\ b \in Drafts /\ c \in Drafts
    BY <1>4, <2>1
  <2>4. ~DraftLess(b, a)
    BY <1>1, <2>1
  <2>5. DraftKey(a) # DraftKey(b)
    BY <2>2
  <2>6. i + 1 = j \/ i + 1 < j
    BY <1>7
  <2>7. i + 1 # j => ~DraftLess(c, b)
    BY <1>1, <2>1, <2>6
  <2>8. i + 1 = j => b = c
    OBVIOUS
  <2>. HIDE DEF a, b, c
  <2>9. DraftLess(a, b)
    BY <2>3, <2>4, <2>5, DraftsOrdered
  <2>10. i + 1 # j => DraftLess(a, c)
    <3>1. ~DraftLess(c, b) /\ ~DraftLess(a, c) => ~DraftLess(a, b)
      BY <2>3, DraftsOrdered
    <3>. QED BY <2>7, <2>9, <3>1
  <2>11. DraftLess(a, c)
    BY <2>8, <2>9, <2>10
  <2>. QED BY <2>11 DEF a, c
<1>8. Neighbours(x, n) => Strictly(x, list, n)
  BY <1>1, <1>6, <1>7 DEF Strictly
<1>9. ASSUME Neighbours(x, n), NEW i \in 1 .. n, NEW j \in 1 .. n, i # j
      PROVE  DraftKey(list[i]) # DraftKey(list[j])
  <2>1. PICK s \in 1 .. n : q[s] = i
    BY <1>3
  <2>2. PICK t \in 1 .. n : q[t] = j
    BY <1>3
  <2>. DEFINE a == x[s]
              b == x[t]
  <2>3. a = list[i] /\ b = list[j] /\ a \in Drafts /\ b \in Drafts
    BY <1>2, <1>4, <2>1, <2>2
  <2>4. s < t \/ t < s
    BY <1>9, <2>1, <2>2
  <2>5. DraftLess(a, b) \/ DraftLess(b, a)
    BY <1>7, <1>9, <2>4
  <2>. HIDE DEF a, b
  <2>6. DraftKey(a) # DraftKey(b)
    BY <2>3, <2>5, DraftsOrdered
  <2>. QED BY <2>3, <2>6
<1>10. ASSUME DistinctKeys(list), NEW i \in 1 .. n - 1
       PROVE  DraftKey(x[i]) # DraftKey(x[i + 1])
  <2>1. i \in 1 .. n /\ i + 1 \in 1 .. n /\ i # i + 1
    OBVIOUS
  <2>2. q[i] # q[i + 1] /\ q[i] \in 1 .. n /\ q[i + 1] \in 1 .. n
    BY <1>2, <1>4, <2>1
  <2>3. DraftKey(list[q[i]]) # DraftKey(list[q[i + 1]])
    BY <1>10, <2>2 DEF DistinctKeys
  <2>. QED BY <1>2, <2>1, <2>3
<1>. QED BY <1>6, <1>8, <1>9, <1>10 DEF Neighbours, DistinctKeys

\* What assign_chunk_ids answers for the drafts of a list in any order.
Numbered(r, list, limit) ==
    /\ r.ok <=> DistinctKeys(list) /\ Len(list) <= limit
    /\ r.ok => /\ {y.draft : y \in ToSet(r.val)} = ToSet(list)
               /\ Len(r.val) = Len(list)
               /\ \A i \in 1 .. Len(r.val) :
                     r.val[i].id =
                        Cardinality({d \in ToSet(list) : DraftLess(d, r.val[i].draft)})

\* The ids of v number the drafts of a list.
Numbers(v, list, n) ==
    /\ {y.draft : y \in ToSet(v)} = ToSet(list)
    /\ Len(v) = n
    /\ \A i \in 1 .. n :
          v[i].id = Cardinality({d \in ToSet(list) : DraftLess(d, v[i].draft)})

\* The list that AssignChunkIds returns.
LEMMA NumberedIs ==
    ASSUME NEW list \in Seq(Drafts), NEW n \in Nat, Len(list) = n,
           NEW x, Strictly(x, list, n), NEW v,
           v = [i \in 1 .. n |-> [id |-> i - 1, draft |-> x[i]]]
    PROVE  Numbers(v, list, n)
<1>1. Len(v) = n /\ DOMAIN v = 1 .. n
  OBVIOUS
<1>2. \A i \in 1 .. n : v[i].id = i - 1 /\ v[i].draft = x[i]
  OBVIOUS
<1>3. ToSet(list) = {x[i] : i \in 1 .. n}
  BY DEF Strictly
<1>4. ToSet(v) = {v[i] : i \in 1 .. n}
  BY <1>1 DEF ToSet
<1>5. {y.draft : y \in ToSet(v)} = ToSet(list)
  <2>1. {y.draft : y \in ToSet(v)} = {v[i].draft : i \in 1 .. n}
    <3>. DEFINE A == {y.draft : y \in ToSet(v)}
                B == {v[i].draft : i \in 1 .. n}
    <3>1. ASSUME NEW a \in A PROVE a \in B
      <4>1. PICK y \in ToSet(v) : a = y.draft
        BY Zenon
      <4>2. PICK i \in 1 .. n : y = v[i]
        BY <1>4, Zenon
      <4>. QED BY <4>1, <4>2, Zenon
    <3>2. ASSUME NEW a \in B PROVE a \in A
      <4>1. PICK i \in 1 .. n : a = v[i].draft
        BY Zenon
      <4>2. v[i] \in ToSet(v)
        BY <1>4, Zenon
      <4>. QED BY <4>1, <4>2, Zenon
    <3>3. A = B
      <4>. HIDE DEF A, B
      <4>. QED BY <3>1, <3>2
    <3>. QED BY <3>3
  <2>2. {v[i].draft : i \in 1 .. n} = {x[i] : i \in 1 .. n}
    BY <1>2
  <2>. QED BY <1>3, <2>1, <2>2
<1>6. ASSUME NEW i \in 1 .. n
      PROVE  v[i].id = Cardinality({d \in ToSet(list) : DraftLess(d, v[i].draft)})
  <2>1. Cardinality({d \in ToSet(list) : DraftLess(d, x[i])}) = i - 1
    BY DraftsBefore
  <2>2. v[i].id = i - 1 /\ v[i].draft = x[i]
    BY <1>2
  <2>. QED BY <2>1, <2>2
<1>. QED BY <1>1, <1>5, <1>6 DEF Numbers

HoldTo(checks, m) == \A i \in 1 .. m : checks[i][1]

\* A list of checks is answered by what they guard, or refused.
LEMMA CheckedList ==
    ASSUME NEW m \in Nat, NEW checks, DOMAIN checks = 1 .. m, NEW v, NEW r,
           r = Checked(checks, v)
    PROVE  /\ HoldTo(checks, m) => r.ok = TRUE /\ r.val = v
           /\ ~HoldTo(checks, m) => r.ok = FALSE
<1>. DEFINE E == {checks[i][2] : i \in 1 .. m}
<1>1. \A i \in 1 .. m : checks[i][2] \in E
  OBVIOUS
<1>. HIDE DEF E
<1>2. /\ (\A i \in 1 .. m : checks[i][1]) => Checked(checks, v) = Ok(v)
      /\ (\E i \in 1 .. m : ~checks[i][1]) => \E x \in E : Checked(checks, v) = Err(x)
  BY <1>1, CheckedIs
<1>. QED BY <1>2 DEF HoldTo, Ok, Err

\* assign_chunk_ids numbers drafts of different positions, within the limit.
LEMMA AssignIs ==
    ASSUME NEW all, Assignable(all), NEW p \in Orders(Len(all)), NEW limit \in Nat \ {0}
    PROVE  Numbered(AssignChunkIds(Permuted(all, p), limit), all, limit)
<1>. DEFINE n == Len(all)
            list == Permuted(all, p)
            x == CanonicalDrafts(list)
            r == AssignChunkIds(list, limit)
            v == [i \in 1 .. Len(x) |-> [id |-> i - 1, draft |-> x[i]]]
            c1 == limit # 0
            c2 == Len(list) <= limit
            c3 == \A i \in 1 .. Len(x) - 1 : DraftKey(x[i]) # DraftKey(x[i + 1])
            c4 == \A i \in 1 .. Len(x) : x[i].len # 0 \/ x[i].method = "MicroFile"
            c5 == \A i \in 1 .. Len(x) : x[i].offset + x[i].len <= OffsetMax
            checks == <<<<c1, "chunk count limit">>, <<c2, "chunk count">>,
                        <<c3, "duplicate chunk position">>, <<c4, "zero-length chunk">>,
                        <<c5, "overflow">>>>
<1>1. r = Checked(checks, v)
  BY DEF AssignChunkIds, CountCheck
<1>2. n \in Nat /\ all \in Seq(Drafts)
  BY DEF Assignable
<1>3. Len(list) = n
  BY <1>2 DEF Permuted
<1>4. InOrder(x, all, n)
  BY <1>2, SortedPermuted
<1>. HIDE DEF n, list, r, x
<1>5. x \in [1 .. n -> Drafts] /\ Len(x) = n
  <2>1. x \in [1 .. n -> Drafts]
    BY <1>4 DEF InOrder
  <2>. QED BY <1>2, <2>1
<1>6. /\ Neighbours(x, n) => Strictly(x, all, n)
      /\ Neighbours(x, n) <=> DistinctKeys(all)
  <2>1. Len(all) = n
    BY DEF n
  <2>. QED BY <1>2, <1>4, <2>1, NeighboursDiffer
<1>7. c3 <=> Neighbours(x, n)
  BY <1>5 DEF Neighbours
<1>8. c1 /\ (c2 <=> n <= limit)
  BY <1>3
<1>9. c4 /\ c5
  <2>1. PICK q \in [1 .. n -> 1 .. n] : \A i \in 1 .. n : x[i] = all[q[i]]
    BY <1>4 DEF InOrder
  <2>. SUFFICES ASSUME NEW i \in 1 .. n
                PROVE  /\ x[i].len # 0 \/ x[i].method = "MicroFile"
                       /\ x[i].offset + x[i].len <= OffsetMax
    BY <1>5
  <2>2. x[i] = all[q[i]] /\ q[i] \in 1 .. Len(all)
    BY <2>1 DEF n
  <2>3. /\ all[q[i]].len # 0 \/ all[q[i]].method = "MicroFile"
        /\ all[q[i]].offset + all[q[i]].len <= OffsetMax
    BY <2>2 DEF Assignable
  <2>. QED BY <2>2, <2>3
<1>10. v = [i \in 1 .. n |-> [id |-> i - 1, draft |-> x[i]]]
  BY <1>5
<1>. HIDE DEF c1, c2, c3, c4, c5, v
<1>11. DOMAIN checks = 1 .. 5
  OBVIOUS
<1>12. HoldTo(checks, 5) <=> c1 /\ c2 /\ c3 /\ c4 /\ c5
  <2>1. checks[1][1] = c1 /\ checks[2][1] = c2 /\ checks[3][1] = c3 /\ checks[4][1] = c4
        /\ checks[5][1] = c5
    BY Zenon
  <2>2. 1 .. 5 = {1, 2, 3, 4, 5}
    OBVIOUS
  <2>. HIDE DEF checks
  <2>. QED BY <2>1, <2>2, Zenon DEF HoldTo
<1>. HIDE DEF checks
<1>13. /\ HoldTo(checks, 5) => r.ok = TRUE /\ r.val = v
       /\ ~HoldTo(checks, 5) => r.ok = FALSE
  <2>. DEFINE m == 5
  <2>1. m \in Nat /\ DOMAIN checks = 1 .. m
    BY <1>11
  <2>. HIDE DEF m
  <2>2. /\ HoldTo(checks, m) => r.ok = TRUE /\ r.val = v
        /\ ~HoldTo(checks, m) => r.ok = FALSE
    BY <1>1, <2>1, CheckedList
  <2>. QED BY <2>2 DEF m
<1>15. /\ c2 /\ c3 => r.ok = TRUE /\ r.val = v
       /\ ~(c2 /\ c3) => r.ok = FALSE
  BY <1>8, <1>9, <1>12, <1>13
<1>16. c2 /\ c3 => Numbers(v, all, n)
  <2>1. c2 /\ c3 => Strictly(x, all, n)
    BY <1>6, <1>7
  <2>2. Len(all) = n
    BY DEF n
  <2>. QED BY <1>2, <1>10, <2>1, <2>2, NumberedIs
<1>17. c2 /\ c3 <=> DistinctKeys(all) /\ n <= limit
  BY <1>6, <1>7, <1>8
<1>18. Numbered(r, all, limit)
  <2>1. Len(all) = n
    BY DEF n
  <2>. QED BY <1>15, <1>16, <1>17, <2>1 DEF Numbered, Numbers
<1>. QED BY <1>18 DEF r, list

-----------------------------------------------------------------------------
(* Lists of chunks that cover an object.                                   *)

\* The chunks of a list follow each other from the base offset over n bytes.
Follows(list, o, i) ==
    /\ list[i].entry = o.entry /\ list[i].object = o.object /\ list[i].len > 0
    /\ i = 1 => list[i].offset = o.base
    /\ i > 1 => list[i].offset = list[i - 1].offset + list[i - 1].len

Tiles(list, o, n) ==
    /\ list \in Seq(Drafts) /\ n \in Nat
    /\ \A i \in 1 .. Len(list) : Follows(list, o, i)
    /\ list = <<>> => n = 0
    /\ list # <<>> => list[Len(list)].offset + list[Len(list)].len = o.base + n

\* The fields of a draft.
LEMMA DraftTypes ==
    ASSUME NEW d \in Drafts
    PROVE  /\ d.entry \in Nat /\ d.object \in Nat /\ d.offset \in Nat /\ d.len \in Nat
           /\ d.method \in Methods
BY DEF Drafts

\* Where a chunk ends, from its list and from the positions.
LEMMA TilesEnds ==
    ASSUME NEW list, NEW o \in Origins, NEW n, Tiles(list, o, n), NEW i \in 1 .. Len(list)
    PROVE  /\ o.base + i <= list[i].offset + list[i].len
           /\ o.base <= list[i].offset
<1>. DEFINE m == Len(list)
            S == {j \in 0 .. m : j > 0 => /\ o.base + j <= list[j].offset + list[j].len
                                          /\ o.base <= list[j].offset}
<1>1. list \in Seq(Drafts) /\ m \in Nat /\ o.base \in Nat
  BY DEF Tiles, Origins
<1>2. \A j \in 1 .. m : list[j].offset \in Nat /\ list[j].len \in Nat
  <2>. TAKE j \in 1 .. m
  <2>1. list[j] \in Drafts
    BY <1>1
  <2>. QED BY <2>1, DraftTypes
<1>3. \A j \in 1 .. m : Follows(list, o, j)
  BY DEF Tiles
<1>. HIDE DEF m
<1>4. 0 \in S
  BY <1>1
<1>5. ASSUME NEW j \in 1 .. m, j - 1 \in S PROVE j \in S
  <2>1. j \in 0 .. m /\ (j = 1 \/ (j > 1 /\ j - 1 \in 1 .. m))
    BY <1>1
  <2>2. list[j].offset \in Nat /\ list[j].len \in Nat /\ list[j].len > 0
    BY <1>2, <1>3 DEF Follows
  <2>3. CASE j = 1
    <3>1. list[j].offset = o.base
      BY <1>3, <2>3 DEF Follows
    <3>. QED BY <1>1, <2>1, <2>2, <2>3, <3>1
  <2>4. CASE j > 1 /\ j - 1 \in 1 .. m
    <3>. DEFINE x == list[j - 1].offset
                y == list[j - 1].len
    <3>1. list[j].offset = x + y
      BY <1>3, <2>4 DEF Follows
    <3>2. o.base + (j - 1) <= x + y /\ x \in Nat /\ y \in Nat /\ o.base <= x
      BY <1>2, <1>5, <2>4
    <3>. DEFINE u == list[j].offset
                v == list[j].len
                w == o.base
    <3>. HIDE DEF x, y
    <3>3. /\ u = x + y /\ w + (j - 1) <= x + y /\ w <= x
          /\ x \in Nat /\ y \in Nat /\ u \in Nat /\ v \in Nat /\ v > 0 /\ w \in Nat /\ j \in Int
      BY <1>1, <2>2, <3>1, <3>2
    <3>. HIDE DEF u, v, w
    <3>4. w + j <= u + v /\ w <= u
      BY <3>3
    <3>5. o.base + j <= list[j].offset + list[j].len /\ o.base <= list[j].offset
      BY <3>4 DEF u, v, w
    <3>. QED BY <2>1, <3>5
  <2>. QED BY <2>1, <2>3, <2>4
<1>6. 0 .. m \subseteq S
  <2>. HIDE DEF S
  <2>. QED BY <1>1, <1>4, <1>5, UpTo
<1>7. i \in S /\ i > 0
  <2>. HIDE DEF S
  <2>1. i \in 0 .. m /\ i > 0
    BY <1>1 DEF m
  <2>. QED BY <1>6, <2>1
<1>. QED BY <1>7

\* There are no more chunks than bytes, and none only of nothing.
LEMMA TilesCount ==
    ASSUME NEW list, NEW o \in Origins, NEW n, Tiles(list, o, n)
    PROVE  Len(list) <= n /\ (n = 0 <=> list = <<>>)
<1>. DEFINE m == Len(list)
<1>1. list \in Seq(Drafts) /\ m \in Nat /\ o.base \in Nat /\ n \in Nat
  BY DEF Tiles, Origins
<1>2. CASE list = <<>>
  BY <1>1, <1>2 DEF Tiles
<1>3. CASE list # <<>>
  <2>1. m \in 1 .. m /\ m > 0
    BY <1>1, <1>3
  <2>2. o.base + m <= list[m].offset + list[m].len
    BY <2>1, TilesEnds
  <2>3. list[m].offset + list[m].len = o.base + n
    BY <1>3 DEF Tiles
  <2>. DEFINE x == list[m].offset + list[m].len
  <2>. HIDE DEF x, m
  <2>4. o.base + m <= x /\ x = o.base + n
    BY <2>2, <2>3 DEF x
  <2>5. m <= n /\ n # 0
    BY <1>1, <2>1, <2>4
  <2>. QED BY <1>3, <2>5 DEF m
<1>. QED BY <1>2, <1>3

\* The equation of the cursor in validate_chunk_coverage.
CursorEq(list, o, f) ==
    f = [i \in 0 .. Len(list) |-> IF i = 0 THEN o.base ELSE f[i - 1] + list[i].len]

\* A list that covers its object passes validate_chunk_coverage.
LEMMA TilesCover ==
    ASSUME NEW list, NEW o \in Origins, NEW n, Tiles(list, o, n)
    PROVE  CoverageValid(list, o, n)
<1>. DEFINE m == Len(list)
            F == CHOOSE f : CursorEq(list, o, f)
            e == [i \in 0 .. m |-> IF i = 0 THEN o.base ELSE list[i].offset + list[i].len]
<1>1. list \in Seq(Drafts) /\ m \in Nat /\ o.base \in Nat /\ n \in Nat
  BY DEF Tiles, Origins
<1>2. \A j \in 1 .. m : list[j].offset \in Nat /\ list[j].len \in Nat
  <2>. TAKE j \in 1 .. m
  <2>1. list[j] \in Drafts
    BY <1>1
  <2>. QED BY <2>1, DraftTypes
<1>3. \A j \in 1 .. m : Follows(list, o, j)
  BY DEF Tiles
<1>4. CursorEq(list, o, e)
  <2>1. \A i \in 1 .. m : e[i] = e[i - 1] + list[i].len
    <3>. TAKE i \in 1 .. m
    <3>1. i - 1 \in 0 .. m /\ i \in 0 .. m /\ (i = 1 \/ i > 1)
      BY <1>1
    <3>2. e[i] = list[i].offset + list[i].len
      BY <3>1
    <3>3. e[i - 1] = IF i - 1 = 0 THEN o.base ELSE list[i - 1].offset + list[i - 1].len
      BY <3>1
    <3>4. list[i].offset = e[i - 1]
      <4>. HIDE DEF e
      <4>. QED BY <1>3, <3>1, <3>3 DEF Follows
    <3>. QED BY <3>2, <3>4
  <2>2. 0 \in 0 .. m /\ e[0] = o.base
    BY <1>1
  <2>3. DOMAIN e = 0 .. m /\ e = [i \in 0 .. m |-> e[i]]
    OBVIOUS
  <2>. HIDE DEF e
  <2>4. \A i \in 0 .. m : e[i] = IF i = 0 THEN o.base ELSE e[i - 1] + list[i].len
    <3>. TAKE i \in 0 .. m
    <3>1. i = 0 \/ i \in 1 .. m
      BY <1>1
    <3>. QED BY <2>1, <2>2, <3>1
  <2>5. e = [i \in 0 .. m |-> IF i = 0 THEN o.base ELSE e[i - 1] + list[i].len]
    BY <2>3, <2>4
  <2>. QED BY <2>5 DEF CursorEq
<1>5. CursorEq(list, o, F)
  <2>. HIDE DEF e
  <2>1. \E f : CursorEq(list, o, f)
    BY <1>4
  <2>. QED BY <2>1
<1>6. /\ F[0] = o.base
      /\ \A i \in 1 .. m : F[i] = F[i - 1] + list[i].len
  <2>. HIDE DEF F
  <2>1. F = [i \in 0 .. m |-> IF i = 0 THEN o.base ELSE F[i - 1] + list[i].len]
    BY <1>5 DEF CursorEq
  <2>2. \A i \in 0 .. m : F[i] = IF i = 0 THEN o.base ELSE F[i - 1] + list[i].len
    BY <2>1
  <2>3. 0 \in 0 .. m /\ \A i \in 1 .. m : i \in 0 .. m /\ i # 0
    BY <1>1
  <2>. QED BY <2>2, <2>3
<1>7. CoverageValid(list, o, n) <=>
        IF n = 0
        THEN list \in {<<>>, <<Draft(o, 0, 0, "MicroFile")>>}
        ELSE /\ \A i \in 1 .. m :
                    /\ list[i].entry = o.entry /\ list[i].object = o.object
                    /\ list[i].offset = F[i - 1] /\ list[i].len # 0
             /\ F[m] = o.base + n
  BY DEF CoverageValid, CursorEq
<1>. HIDE DEF F, e
<1>. DEFINE S == {i \in 0 .. m : F[i] = IF i = 0 THEN o.base ELSE list[i].offset + list[i].len}
<1>8. 0 .. m \subseteq S
  <2>1. 0 \in S
    BY <1>1, <1>6
  <2>2. ASSUME NEW i \in 1 .. m, i - 1 \in S PROVE i \in S
    <3>1. i \in 0 .. m /\ i # 0 /\ (i = 1 \/ i > 1)
      BY <1>1
    <3>2. F[i - 1] = IF i - 1 = 0 THEN o.base ELSE list[i - 1].offset + list[i - 1].len
      BY <2>2
    <3>3. list[i].offset = F[i - 1]
      BY <1>3, <3>1, <3>2 DEF Follows
    <3>. QED BY <1>6, <3>1, <3>3
  <2>. HIDE DEF S
  <2>. QED BY <1>1, <2>1, <2>2, UpTo
<1>9. ASSUME NEW i \in 1 .. m
      PROVE  /\ list[i].entry = o.entry /\ list[i].object = o.object
             /\ list[i].offset = F[i - 1] /\ list[i].len # 0
  <2>1. i - 1 \in 0 .. m /\ (i = 1 \/ i > 1)
    BY <1>1
  <2>2. F[i - 1] = IF i - 1 = 0 THEN o.base ELSE list[i - 1].offset + list[i - 1].len
    BY <1>8, <2>1
  <2>3. Follows(list, o, i) /\ list[i].len \in Nat
    BY <1>2, <1>3
  <2>4. list[i].offset = F[i - 1]
    BY <2>1, <2>2, <2>3 DEF Follows
  <2>. QED BY <2>3, <2>4 DEF Follows
<1>10. F[m] = o.base + n
  <2>1. m \in 0 .. m
    BY <1>1
  <2>2. F[m] = IF m = 0 THEN o.base ELSE list[m].offset + list[m].len
    BY <1>8, <2>1
  <2>3. list = <<>> <=> m = 0
    BY <1>1
  <2>. QED BY <1>1, <2>2, <2>3 DEF Tiles
<1>11. n = 0 => list = <<>>
  BY TilesCount
<1>. QED BY <1>7, <1>9, <1>10, <1>11

\* Two lists, one after the other.
LEMMA JoinIs ==
    ASSUME NEW x \in Seq(Drafts), NEW y \in Seq(Drafts)
    PROVE  /\ x \o y \in Seq(Drafts) /\ Len(x \o y) = Len(x) + Len(y)
           /\ \A i \in 1 .. Len(x) : (x \o y)[i] = x[i]
           /\ \A i \in 1 .. Len(y) : (x \o y)[Len(x) + i] = y[i]
OBVIOUS

\* Chunks of an object up to a, and chunks of the rest from there on.
LEMMA TilesJoin ==
    ASSUME NEW o \in Origins, NEW x, NEW a, Tiles(x, o, a),
           NEW y, NEW b, Tiles(y, SubOrigin(o, a), b)
    PROVE  Tiles(x \o y, o, a + b)
<1>. DEFINE l == x \o y
            m == Len(x)
            n == Len(y)
            q == SubOrigin(o, a)
<1>1. /\ x \in Seq(Drafts) /\ y \in Seq(Drafts) /\ m \in Nat /\ n \in Nat
      /\ a \in Nat /\ b \in Nat /\ o.base \in Nat
  BY DEF Tiles, Origins
<1>2. q.entry = o.entry /\ q.object = o.object /\ q.base = o.base + a
  BY <1>1 DEF SubOrigin, Origins
<1>3. /\ l \in Seq(Drafts) /\ Len(l) = m + n
      /\ \A i \in 1 .. m : l[i] = x[i]
      /\ \A i \in 1 .. n : l[m + i] = y[i]
  BY <1>1, JoinIs
<1>4. /\ \A i \in 1 .. m : Follows(x, o, i)
      /\ \A i \in 1 .. n : Follows(y, q, i)
      /\ x = <<>> => a = 0
      /\ x # <<>> => x[m].offset + x[m].len = o.base + a
      /\ y = <<>> => b = 0
      /\ y # <<>> => y[n].offset + y[n].len = q.base + b
  BY DEF Tiles
<1>5. (x = <<>> <=> m = 0) /\ (y = <<>> <=> n = 0) /\ (l = <<>> <=> m + n = 0)
  BY <1>1, <1>3
<1>. HIDE DEF l, m, n, q
<1>6. ASSUME NEW i \in 1 .. (m + n) PROVE Follows(l, o, i)
  <2>1. CASE i \in 1 .. m
    <3>1. Follows(x, o, i) /\ l[i] = x[i] /\ (i > 1 => i - 1 \in 1 .. m)
      BY <1>1, <1>3, <1>4, <2>1
    <3>2. i > 1 => l[i - 1] = x[i - 1]
      BY <1>3, <3>1
    <3>. QED BY <3>1, <3>2 DEF Follows
  <2>2. CASE i = m + 1
    <3>1. 1 \in 1 .. n /\ l[i] = y[1] /\ i \in Nat
      BY <1>1, <1>3, <2>2
    <3>2. /\ y[1].entry = q.entry /\ y[1].object = q.object /\ y[1].len > 0
          /\ y[1].offset = q.base
      BY <1>4, <3>1 DEF Follows
    <3>3. CASE m = 0
      <4>1. i = 1 /\ a = 0 /\ q.base = o.base
        BY <1>1, <1>2, <1>4, <1>5, <2>2, <3>3
      <4>. QED BY <1>2, <3>1, <3>2, <4>1 DEF Follows
    <3>4. CASE m # 0
      <4>1. m \in 1 .. m /\ i > 1 /\ i - 1 = m
        BY <1>1, <2>2, <3>4
      <4>2. l[i - 1] = x[m]
        BY <1>3, <4>1
      <4>3. x[m].offset + x[m].len = o.base + a
        BY <1>4, <1>5, <3>4
      <4>. QED BY <1>2, <3>1, <3>2, <4>1, <4>2, <4>3 DEF Follows
    <3>. QED BY <3>3, <3>4
  <2>3. CASE i > m + 1
    <3>. DEFINE j == i - m
    <3>1. j \in 1 .. n /\ j > 1 /\ j - 1 \in 1 .. n /\ m + j = i /\ m + (j - 1) = i - 1 /\ i > 1
          /\ i \in Nat
      BY <1>1, <2>3
    <3>. HIDE DEF j
    <3>2. l[i] = y[j] /\ l[i - 1] = y[j - 1]
      BY <1>3, <3>1
    <3>3. /\ y[j].entry = q.entry /\ y[j].object = q.object /\ y[j].len > 0
          /\ y[j].offset = y[j - 1].offset + y[j - 1].len
      BY <1>4, <3>1 DEF Follows
    <3>. QED BY <1>2, <3>1, <3>2, <3>3 DEF Follows
  <2>. QED BY <1>1, <2>1, <2>2, <2>3
<1>7. l = <<>> => a + b = 0
  BY <1>1, <1>4, <1>5
<1>8. ASSUME l # <<>> PROVE l[m + n].offset + l[m + n].len = o.base + (a + b)
  <2>1. CASE n = 0
    <3>1. m + n = m /\ m \in 1 .. m /\ b = 0 /\ a + b = a
      BY <1>1, <1>4, <1>5, <1>8, <2>1
    <3>2. l[m] = x[m] /\ x[m].offset + x[m].len = o.base + a
      BY <1>1, <1>3, <1>4, <1>5, <1>8, <2>1, <3>1
    <3>. QED BY <3>1, <3>2
  <2>2. CASE n # 0
    <3>1. n \in 1 .. n
      BY <1>1, <2>2
    <3>2. l[m + n] = y[n] /\ y[n].offset + y[n].len = q.base + b
      BY <1>3, <1>4, <1>5, <2>2, <3>1
    <3>3. (o.base + a) + b = o.base + (a + b)
      BY <1>1
    <3>. QED BY <1>2, <3>2, <3>3
  <2>. QED BY <2>1, <2>2
<1>9. a + b \in Nat /\ Len(l) = m + n
  BY <1>1, <1>3
<1>10. Tiles(l, o, a + b)
  BY <1>3, <1>6, <1>7, <1>8, <1>9 DEF Tiles
<1>. QED BY <1>10 DEF l

\* A draft's fields.
LEMMA DraftIs ==
    ASSUME NEW o \in Origins, NEW rel \in Nat, NEW len \in Nat, NEW method \in Methods
    PROVE  LET d == Draft(o, rel, len, method)
           IN  /\ d \in Drafts /\ d.entry = o.entry /\ d.object = o.object
               /\ d.offset = o.base + rel /\ d.len = len
BY DEF Draft, Drafts, Origins

\* One chunk.
LEMMA TilesOne ==
    ASSUME NEW o \in Origins, NEW a \in Nat, NEW len \in Nat, len > 0, NEW method \in Methods
    PROVE  Tiles(<<Draft(o, a, len, method)>>, SubOrigin(o, a), len)
<1>. DEFINE d == Draft(o, a, len, method)
            y == <<d>>
            q == SubOrigin(o, a)
<1>2. /\ d \in Drafts /\ d.entry = o.entry /\ d.object = o.object
      /\ d.offset = o.base + a /\ d.len = len
  BY DraftIs
<1>3. q.entry = o.entry /\ q.object = o.object /\ q.base = o.base + a
  BY DEF SubOrigin, Origins
<1>. HIDE DEF d, q
<1>4. y \in Seq(Drafts) /\ Len(y) = 1 /\ y[1] = d /\ y # <<>>
  <2>. HIDE DEF Drafts
  <2>. QED BY <1>2
<1>. HIDE DEF y
<1>5. Tiles(y, q, len)
  <2>1. \A i \in 1 .. Len(y) : i = 1
    BY <1>4
  <2>2. Follows(y, q, 1)
    BY <1>2, <1>3, <1>4 DEF Follows
  <2>3. y[Len(y)].offset + y[Len(y)].len = q.base + len
    BY <1>2, <1>3, <1>4
  <2>. QED BY <1>4, <2>1, <2>2, <2>3 DEF Tiles
<1>. QED BY <1>5 DEF q, y, d

\* Appending a chunk.
LEMMA AppendIs ==
    ASSUME NEW o \in Origins, NEW x \in Seq(Drafts), NEW a \in Nat, NEW len \in Nat,
           NEW method \in Methods
    PROVE  Append(x, Draft(o, a, len, method)) = x \o <<Draft(o, a, len, method)>>
<1>. DEFINE d == Draft(o, a, len, method)
<1>1. d \in Drafts
  BY DraftIs
<1>. HIDE DEF d, Drafts
<1>2. Append(x, d) = x \o <<d>>
  BY <1>1
<1>. QED BY <1>2 DEF d

\* One chunk more.
LEMMA TilesAppend ==
    ASSUME NEW o \in Origins, NEW x, NEW a, Tiles(x, o, a), NEW len \in Nat, len > 0,
           NEW method \in Methods
    PROVE  Tiles(Append(x, Draft(o, a, len, method)), o, a + len)
<1>. DEFINE y == <<Draft(o, a, len, method)>>
<1>1. a \in Nat /\ x \in Seq(Drafts)
  BY DEF Tiles
<1>2. Tiles(y, SubOrigin(o, a), len)
  BY <1>1, TilesOne
<1>3. Append(x, Draft(o, a, len, method)) = x \o y
  BY <1>1, AppendIs
<1>. HIDE DEF y
<1>4. Tiles(x \o y, o, a + len)
  BY <1>2, TilesJoin
<1>. QED BY <1>3, <1>4

\* The chunks of a region, relabelled.
LEMMA RelabelIs ==
    ASSUME NEW sub \in Seq(Drafts)
    PROVE  /\ Structural(sub) \in Seq(Drafts) /\ Len(Structural(sub)) = Len(sub)
           /\ \A i \in 1 .. Len(sub) :
                 /\ Structural(sub)[i].entry = sub[i].entry
                 /\ Structural(sub)[i].object = sub[i].object
                 /\ Structural(sub)[i].offset = sub[i].offset
                 /\ Structural(sub)[i].len = sub[i].len
<1>1. Structural(sub) = [i \in 1 .. Len(sub) |-> [sub[i] EXCEPT !.method = "Structural"]]
  BY DEF Structural
<1>2. \A i \in 1 .. Len(sub) : sub[i] \in Drafts
  OBVIOUS
<1>3. Structural(sub) \in Seq(Drafts)
  BY StructuralList
<1>4. Len(Structural(sub)) = Len(sub)
  BY <1>1
<1>5. ASSUME NEW i \in 1 .. Len(sub)
      PROVE  /\ Structural(sub)[i].entry = sub[i].entry
             /\ Structural(sub)[i].object = sub[i].object
             /\ Structural(sub)[i].offset = sub[i].offset
             /\ Structural(sub)[i].len = sub[i].len
  <2>1. Structural(sub)[i] = [sub[i] EXCEPT !.method = "Structural"]
    BY <1>1
  <2>2. sub[i] \in Drafts
    BY <1>2
  <2>. QED BY <2>1, <2>2 DEF Drafts
<1>. QED BY <1>3, <1>4, <1>5

\* Relabelling moves no chunk.
LEMMA TilesStructural ==
    ASSUME NEW o, NEW sub, NEW n, Tiles(sub, o, n)
    PROVE  Tiles(Structural(sub), o, n)
<1>. DEFINE t == Structural(sub)
            m == Len(sub)
<1>1. sub \in Seq(Drafts) /\ n \in Nat /\ m \in Nat
  BY DEF Tiles
<1>2. /\ t \in Seq(Drafts) /\ Len(t) = m
      /\ \A i \in 1 .. m : /\ t[i].entry = sub[i].entry /\ t[i].object = sub[i].object
                           /\ t[i].offset = sub[i].offset /\ t[i].len = sub[i].len
  BY <1>1, RelabelIs
<1>. HIDE DEF t, m
<1>3. \A i \in 1 .. m : Follows(sub, o, i)
  BY DEF Tiles, m
<1>4. ASSUME NEW i \in 1 .. m PROVE Follows(t, o, i)
  <2>1. i > 1 => i - 1 \in 1 .. m
    BY <1>1
  <2>. QED BY <1>2, <1>3, <2>1 DEF Follows
<1>5. (t = <<>> <=> m = 0) /\ (sub = <<>> <=> m = 0)
  BY <1>1, <1>2 DEF m
<1>6. m # 0 => m \in 1 .. m
  BY <1>1
<1>7. /\ sub = <<>> => n = 0
      /\ sub # <<>> => sub[m].offset + sub[m].len = o.base + n
  BY DEF Tiles, m
<1>. QED BY <1>1, <1>2, <1>4, <1>5, <1>6, <1>7 DEF Tiles, t

-----------------------------------------------------------------------------
(* FastCDC cuts where the content says.                                    *)

\* A chunk of FastCDC from x on over len bytes, in data up to `stop`.
Due(D, c, x, len, stop) ==
    /\ len <= c.max
    /\ x + len = stop \/ (len > c.min /\ D[x + len] = Marker) \/ len = c.max
    /\ \A k \in 1 .. len - 1 : ~(k > c.min /\ D[x + k] = Marker)

\* The cut of FastCDC is due.
LEMMA CutDue ==
    ASSUME NEW D \in Seq(Nat), NEW o \in 0 .. Len(D), o < Len(D), NEW c, CutOk(c)
    PROVE  Due(D, c, o, Cut(D, o, c), Len(D))
<1>. DEFINE n == Len(D)
            rest == n - o
            lo == c.min
            hi == c.max
            end == Min({rest, hi})
            marks == {k \in lo + 1 .. end : D[o + k] = Marker}
            len == Cut(D, o, c)
<1>1. /\ rest \in Nat /\ rest > 0 /\ lo \in Nat /\ hi \in Nat /\ lo < hi
      /\ o \in Nat /\ n \in Nat
  BY DEF CutOk
<1>2. len = IF rest <= lo THEN rest ELSE IF marks = {} THEN end ELSE Min(marks)
  BY DEF Cut
<1>3. end = IF rest <= hi THEN rest ELSE hi
  <2>. HIDE DEF rest, hi
  <2>. QED BY <1>1, MinTwo
<1>4. o + rest = n
  BY <1>1
<1>5. marks # {} => Min(marks) \in marks /\ \A y \in marks : Min(marks) <= y
  <2>1. marks \subseteq Nat
    <3>. HIDE DEF lo, end
    <3>. QED BY <1>1
  <2>. HIDE DEF marks
  <2>. QED BY <2>1, LeastMember
<1>6. \A k \in Nat : k > lo /\ k <= end /\ D[o + k] = Marker => k \in marks
  <2>1. end \in Nat
    <3>. HIDE DEF end, rest, lo, hi
    <3>. QED BY <1>1, <1>3
  <2>. HIDE DEF end, lo
  <2>. QED BY <1>1, <2>1
<1>7. \A k \in marks : k \in Nat /\ k > lo /\ k <= end /\ D[o + k] = Marker
  <2>1. end \in Nat
    <3>. HIDE DEF end, rest, lo, hi
    <3>. QED BY <1>1, <1>3
  <2>. HIDE DEF end, lo
  <2>. QED BY <1>1, <2>1
<1>. DEFINE w == Min(marks)
<1>. HIDE DEF n, rest, lo, hi, end, marks, len, w
<1>8. Due(D, c, o, len, n) <=>
        /\ len <= hi
        /\ o + len = n \/ (len > lo /\ D[o + len] = Marker) \/ len = hi
        /\ \A k \in 1 .. len - 1 : ~(k > lo /\ D[o + k] = Marker)
  BY DEF Due, lo, hi
<1>9. CASE rest <= lo
  <2>1. len = rest /\ o + len = n /\ len <= hi
    BY <1>1, <1>2, <1>4, <1>9
  <2>2. \A k \in 1 .. len - 1 : ~(k > lo)
    BY <1>1, <1>9, <2>1
  <2>. QED BY <1>8, <2>1, <2>2 DEF len, n
<1>10. CASE ~(rest <= lo) /\ marks = {}
  <2>1. len = end
    BY <1>2, <1>10
  <2>2. len <= hi /\ len \in Nat /\ (o + len = n \/ len = hi)
    BY <1>1, <1>3, <1>4, <2>1
  <2>3. \A k \in 1 .. len - 1 : ~(k > lo /\ D[o + k] = Marker)
    <3>. TAKE k \in 1 .. len - 1
    <3>1. k \in Nat /\ k <= end
      BY <2>1, <2>2
    <3>. QED BY <1>6, <1>10, <3>1
  <2>. QED BY <1>8, <2>2, <2>3 DEF len, n
<1>11. CASE ~(rest <= lo) /\ marks # {}
  <2>1. len = w /\ w \in marks /\ \A y \in marks : w <= y
    BY <1>2, <1>5, <1>11 DEF w
  <2>2. len \in Nat /\ len > lo /\ len <= end /\ D[o + len] = Marker
    BY <1>7, <2>1
  <2>3. len <= hi
    BY <1>1, <1>3, <2>2
  <2>4. \A k \in 1 .. len - 1 : ~(k > lo /\ D[o + k] = Marker)
    <3>. TAKE k \in 1 .. len - 1
    <3>1. k \in Nat /\ k < len /\ end \in Nat
      BY <1>1, <1>3, <2>2
    <3>2. k <= end
      BY <2>2, <3>1
    <3>3. k \in marks => len <= k
      BY <2>1
    <3>4. ~(k \in marks)
      BY <2>2, <3>1, <3>3
    <3>. QED BY <1>6, <3>1, <3>2, <3>4
  <2>. QED BY <1>8, <2>2, <2>3, <2>4 DEF len, n
<1>. QED BY <1>9, <1>10, <1>11

\* Every chunk of a list is cut so.
AllDue(D, c, o, list) ==
    \A i \in 1 .. Len(list) : Due(D, c, list[i].offset - o.base, list[i].len, Len(D))

\* What FastCDC has pushed when it is at x.
CutUpTo(D, o, c, list, x) ==
    /\ Tiles(list, o, x) /\ AllDue(D, c, o, list) /\ Len(list) <= c.chunks

\* What a push of the cut at x answers.
CutMore(D, o, c, list, x, r) ==
    /\ r.ok = TRUE => /\ CutUpTo(D, o, c, r.val, x + Cut(D, x, c))
                      /\ Len(r.val) = Len(list) + 1
    /\ (o.base + Len(D) <= OffsetMax /\ (Len(D) <= c.chunks \/ Len(list) + 1 <= c.chunks))
            => r.ok = TRUE

\* One chunk more.
LEMMA CutOnce ==
    ASSUME NEW D \in Seq(Nat), NEW o \in Origins, NEW c \in Configs, CutOk(c),
           NEW x \in 0 .. Len(D), x < Len(D), NEW list, CutUpTo(D, o, c, list, x),
           NEW r, r = PushRelativeChunk(list, o, x, Cut(D, x, c), "FastCdc", c.chunks)
    PROVE  CutMore(D, o, c, list, x, r)
<1>. DEFINE n == Len(D)
            len == Cut(D, x, c)
            w == c.chunks
            b == o.base
<1>1. n \in Nat /\ x \in Nat /\ len \in 1 .. (n - x) /\ w \in Nat /\ b \in Nat
  BY CutRange, SMTT(30) DEF Configs, Origins
<1>2. Due(D, c, x, len, n)
  BY CutDue
<1>3. Tiles(list, o, x) /\ AllDue(D, c, o, list) /\ Len(list) <= w /\ list \in Seq(Drafts)
  BY DEF CutUpTo, Tiles
<1>4. Len(list) <= x /\ Len(list) \in Nat
  BY <1>3, TilesCount
<1>5. PICK method \in Methods : method = "FastCdc"
  BY DEF Methods
<1>. HIDE DEF n, len
<1>6. len \in Nat /\ len > 0 /\ x + len <= n
  BY <1>1
<1>. DEFINE y == Append(list, Draft(o, x, len, method))
            fits == Len(list) + 1 <= w /\ len # 0 /\ b + x + len <= OffsetMax
<1>7. r = PushRelativeChunk(list, o, x, len, method, c.chunks)
  BY <1>5 DEF len
<1>8. (fits => r.ok = TRUE /\ r.val = y) /\ (~fits => r.ok = FALSE)
  <2>1. PushIs(PushRelativeChunk(list, o, x, len, method, w), list, o, x, len, method, w)
    <3>. HIDE DEF w, y, fits, b
    <3>. QED BY <1>1, <1>3, <1>6, PushAnswers
  <2>2. PushIs(r, list, o, x, len, method, w)
    BY <1>7, <2>1
  <2>3. (fits => r = Ok(y)) /\ (~fits => r.ok = FALSE)
    BY <2>2, Zenon DEF PushIs
  <2>. HIDE DEF y, fits
  <2>. QED BY <2>3, OkIs
<1>9. Tiles(y, o, x + len)
  BY <1>3, <1>6, TilesAppend
<1>10. ASSUME fits PROVE CutUpTo(D, o, c, y, x + len) /\ Len(y) = Len(list) + 1
  <2>. DEFINE d == Draft(o, x, len, method)
  <2>1. d \in Drafts /\ d.offset = o.base + x /\ d.len = len
    BY <1>1, <1>6, DraftIs
  <2>. HIDE DEF d
  <2>2. /\ Len(y) = Len(list) + 1 /\ y[Len(list) + 1] = d
        /\ \A i \in 1 .. Len(list) : y[i] = list[i]
    <3>. HIDE DEF Drafts
    <3>. QED BY <1>3, <2>1 DEF d
  <2>. HIDE DEF y
  <2>3. ASSUME NEW i \in 1 .. Len(y)
        PROVE  Due(D, c, y[i].offset - o.base, y[i].len, Len(D))
    <3>1. CASE i \in 1 .. Len(list)
      BY <1>3, <2>2, <3>1 DEF AllDue
    <3>2. CASE i = Len(list) + 1
      <4>1. y[i].len = len /\ y[i].offset - o.base = x
        BY <1>1, <2>1, <2>2, <3>2
      <4>. QED BY <1>2, <4>1 DEF n
    <3>. QED BY <1>4, <2>2, <3>1, <3>2
  <2>. QED BY <1>9, <1>10, <2>2, <2>3 DEF CutUpTo, AllDue
<1>11. (b + n <= OffsetMax /\ (n <= w \/ Len(list) + 1 <= w)) => fits
  <2>1. OffsetMax \in Nat
    BY OffsetIsNat
  <2>. DEFINE k == Len(list)
  <2>2. k <= x /\ k \in Nat
    BY <1>4
  <2>. HIDE DEF k, w, b
  <2>3. (b + n <= OffsetMax /\ (n <= w \/ k + 1 <= w)) =>
            k + 1 <= w /\ len # 0 /\ b + x + len <= OffsetMax
    BY <1>1, <1>6, <2>1, <2>2 DEF n
  <2>. QED BY <2>3 DEF k
<1>. HIDE DEF y, fits
<1>12. r.ok = TRUE => CutUpTo(D, o, c, r.val, x + len) /\ Len(r.val) = Len(list) + 1
  BY <1>8, <1>10
<1>. QED BY <1>8, <1>11, <1>12 DEF CutMore, len, n

\* A list that covers its object is returned.
LEMMA TilesValid ==
    ASSUME NEW list, NEW o \in Origins, NEW n, Tiles(list, o, n), o.base + n <= OffsetMax
    PROVE  ValidateChunkCoverage(list, o, n).ok = TRUE
<1>. DEFINE v == CoverageValid(list, o, n)
            w == o.base + n <= OffsetMax
            checks == <<<<w, "overflow">>, <<v, "chunk coverage">>>>
            r == ValidateChunkCoverage(list, o, n)
            m == 2
<1>1. r = Checked(checks, list)
  BY Zenon DEF ValidateChunkCoverage, OffsetCheck
<1>2. v /\ w
  BY TilesCover
<1>. HIDE DEF v, w, r
<1>3. DOMAIN checks = 1 .. m /\ m \in Nat
  OBVIOUS
<1>4. HoldTo(checks, m)
  <2>1. checks[1][1] = w /\ checks[2][1] = v
    BY Zenon
  <2>2. 1 .. m = {1, 2}
    OBVIOUS
  <2>. HIDE DEF checks, m
  <2>. QED BY <1>2, <2>1, <2>2, Zenon DEF HoldTo
<1>. HIDE DEF checks, m
<1>5. r.ok = TRUE
  BY <1>1, <1>3, <1>4, CheckedList
<1>. QED BY <1>5 DEF r

\* No chunks yet.
LEMMA NoChunks ==
    ASSUME NEW D, NEW o \in Origins, NEW c \in Configs
    PROVE  CutUpTo(D, o, c, <<>>, 0) /\ Tiles(<<>>, o, 0)
<1>. DEFINE l == <<>>
<1>1. l \in Seq(Drafts) /\ Len(l) = 0 /\ l = <<>>
  OBVIOUS
<1>. HIDE DEF l
<1>2. Tiles(l, o, 0)
  BY <1>1 DEF Tiles
<1>3. CutUpTo(D, o, c, l, 0)
  BY <1>1, <1>2 DEF CutUpTo, AllDue, Configs
<1>. QED BY <1>2, <1>3 DEF l

\* The whole call: what it returns, and when it does.
CdcTiled(D, o, c, r) ==
    /\ r.ok = TRUE \/ r.ok = FALSE
    /\ r.ok = TRUE => Fits(Len(D), o, c) /\ CutUpTo(D, o, c, r.val, Len(D))
    /\ (Fits(Len(D), o, c) /\ Len(D) <= c.chunks) => r.ok = TRUE

\* What the trace has after m chunks, its last.
TraceDone(D, o, c, m, r) ==
    /\ r.ok = TRUE => CutUpTo(D, o, c, r.val, Len(D)) /\ Len(r.val) = m
    /\ (o.base + Len(D) <= OffsetMax /\ (Len(D) <= c.chunks \/ m <= c.chunks)) => r.ok = TRUE

\* Every list of the trace of chunk_fastcdc covers its part.
LEMMA CdcTraceTiles ==
    ASSUME NEW D \in Seq(Nat), NEW o \in Origins, NEW c \in Configs, CutOk(c),
           NEW m, NEW s, NEW g, CdcTrace(D, o, c, m, s, g)
    PROVE  TraceDone(D, o, c, m, g[m])
<1>. DEFINE n == Len(D)
            room == o.base + n <= OffsetMax /\ (n <= c.chunks \/ m <= c.chunks)
            Good(i) == /\ g[i].ok = TRUE => CutUpTo(D, o, c, g[i].val, s[i]) /\ Len(g[i].val) = i
                       /\ room => g[i].ok = TRUE
            S == {i \in 0 .. m : Good(i)}
<1>1. /\ m \in Nat /\ s \in [0 .. m -> 0 .. n] /\ g \in [0 .. m -> Results]
      /\ s[0] = 0 /\ s[m] = n /\ g[0] = Ok(<<>>)
  BY DEF CdcTrace
<1>2. 0 \in S
  <2>1. g[0].ok = TRUE /\ g[0].val = <<>>
    BY <1>1, OkIs
  <2>2. CutUpTo(D, o, c, <<>>, 0) /\ Len(<<>>) = 0
    BY NoChunks
  <2>3. Good(0)
    BY <1>1, <2>1, <2>2
  <2>. HIDE DEF Good
  <2>. QED BY <1>1, <2>3
<1>3. ASSUME NEW i \in 1 .. m, i - 1 \in S PROVE i \in S
  <2>0. i \in 0 .. m /\ i - 1 \in 0 .. m
    BY <1>1
  <2>1. /\ s[i - 1] < n /\ s[i] = s[i - 1] + Cut(D, s[i - 1], c)
        /\ g[i - 1].ok = FALSE => g[i] = g[i - 1]
        /\ g[i - 1].ok = TRUE => g[i] = PushRelativeChunk(g[i - 1].val, o, s[i - 1],
                                           Cut(D, s[i - 1], c), "FastCdc", c.chunks)
    BY DEF CdcTrace
  <2>2. Good(i - 1)
    BY <1>3
  <2>3. g[i - 1].ok = TRUE \/ g[i - 1].ok = FALSE
    BY <1>1, <2>0, ResultCases
  <2>4. CASE g[i - 1].ok = FALSE
    <3>1. g[i] = g[i - 1] /\ ~room
      BY <2>1, <2>2, <2>4
    <3>. QED BY <2>0, <2>4, <3>1
  <2>5. CASE g[i - 1].ok = TRUE
    <3>. DEFINE x == s[i - 1]
                list == g[i - 1].val
                r == g[i]
    <3>1. /\ x \in 0 .. n /\ x < n /\ CutUpTo(D, o, c, list, x)
          /\ r = PushRelativeChunk(list, o, x, Cut(D, x, c), "FastCdc", c.chunks)
      BY <1>1, <2>0, <2>1, <2>2, <2>5
    <3>2. Len(list) = i - 1 /\ (i - 1) + 1 = i /\ i <= m
      BY <1>1, <2>2, <2>5
    <3>. HIDE DEF x, list, r
    <3>3. /\ r.ok = TRUE => CutUpTo(D, o, c, r.val, x + Cut(D, x, c)) /\ Len(r.val) = i
          /\ (o.base + n <= OffsetMax /\ (n <= c.chunks \/ i <= c.chunks)) => r.ok = TRUE
      <4>1. CutMore(D, o, c, list, x, r)
        BY <3>1, CutOnce
      <4>2. Len(list) + 1 = i
        BY <3>2
      <4>. QED BY <4>1, <4>2 DEF CutMore
    <3>4. m <= c.chunks => i <= c.chunks
      <4>1. c.chunks \in Nat
        BY DEF Configs
      <4>. QED BY <1>1, <3>2, <4>1
    <3>. QED BY <2>0, <2>1, <3>3, <3>4 DEF x, r
  <2>. QED BY <2>3, <2>4, <2>5
<1>4. 0 .. m \subseteq S
  <2>. HIDE DEF S
  <2>. QED BY <1>1, <1>2, <1>3, UpTo
<1>5. m \in S
  <2>. HIDE DEF S
  <2>. QED BY <1>1, <1>4
<1>. QED BY <1>1, <1>5 DEF TraceDone

\* chunk_fastcdc covers its object with chunks that are due.
LEMMA FastCdcTiles ==
    ASSUME NEW D \in Seq(Nat), NEW o \in Origins, NEW c \in Configs
    PROVE  CdcTiled(D, o, c, ChunkFastCdc(D, o, c))
<1>. DEFINE r == ChunkFastCdc(D, o, c)
            n == Len(D)
            all == PushAll(CdcLengths(D, c), o, "FastCdc", c.chunks)
<1>0. n \in Nat
  OBVIOUS
<1>1. /\ Fits(n, o, c) => r = CdcResult(D, o, c)
      /\ ~Fits(n, o, c) => r.ok = FALSE
  BY FastCdcIs
<1>2. CASE ~Fits(n, o, c)
  <2>. HIDE DEF r
  <2>. QED BY <1>1, <1>2 DEF CdcTiled, r
<1>3. CASE Fits(n, o, c)
  <2>1. CutOk(c) /\ o.base + n <= OffsetMax
    BY <1>3, ValidCuts DEF Fits
  <2>2. PICK m, s, g : CdcTrace(D, o, c, m, s, g)
    BY <2>1, CdcTraceExists
  <2>3. g[m] = all /\ all \in Results
    <3>1. g[m] \in Results /\ g[m] = all
      BY <2>2 DEF CdcTrace
    <3>. QED BY <3>1
  <2>4. /\ g[m].ok = TRUE => CutUpTo(D, o, c, g[m].val, n)
        /\ (o.base + n <= OffsetMax /\ n <= c.chunks) => g[m].ok = TRUE
    <3>1. TraceDone(D, o, c, m, g[m])
      BY <2>1, <2>2, CdcTraceTiles
    <3>. QED BY <3>1 DEF TraceDone
  <2>5. r = IF all.ok THEN ValidateChunkCoverage(all.val, o, n) ELSE all
    BY <1>1, <1>3 DEF CdcResult
  <2>. DEFINE list == all.val
              v == ValidateChunkCoverage(list, o, n)
  <2>. HIDE DEF all, r
  <2>6. all.ok = TRUE \/ all.ok = FALSE
    BY <2>3, ResultCases
  <2>7. ASSUME all.ok = TRUE PROVE r.ok = TRUE /\ r.val = list /\ CutUpTo(D, o, c, list, n)
    <3>1. CutUpTo(D, o, c, list, n)
      BY <2>3, <2>4, <2>7
    <3>2. Tiles(list, o, n) /\ list \in Seq(Drafts)
      BY <3>1 DEF CutUpTo, Tiles
    <3>3. r = v
      BY <2>5, <2>7
    <3>. HIDE DEF list
    <3>4. v.ok = TRUE
      BY <2>1, <3>2, TilesValid
    <3>5. v = Ok(list)
      BY <1>0, <3>2, <3>4, ValidateIs
    <3>. HIDE DEF v
    <3>. QED BY <3>1, <3>3, <3>4, <3>5, OkIs
  <2>8. all.ok = FALSE => r.ok = FALSE
    BY <2>5
  <2>9. n <= c.chunks => all.ok = TRUE
    BY <2>1, <2>3, <2>4
  <2>10. CdcTiled(D, o, c, r)
    BY <1>3, <2>6, <2>7, <2>8, <2>9 DEF CdcTiled
  <2>. QED BY <2>10 DEF r
<1>. QED BY <1>2, <1>3

\* m chunks, unless the limit forbids it.
OfLength(r, m, limit) ==
    /\ r.ok = TRUE => Len(r.val) = m
    /\ m <= limit => r.ok = TRUE

\* As many chunks as the trace has steps.
LEMMA CdcLength ==
    ASSUME NEW D \in Seq(Nat), NEW o \in Origins, NEW c \in Configs, Fits(Len(D), o, c),
           NEW m, NEW s, NEW g, CdcTrace(D, o, c, m, s, g), NEW r, r = ChunkFastCdc(D, o, c)
    PROVE  OfLength(r, m, c.chunks)
<1>. DEFINE n == Len(D)
            all == PushAll(CdcLengths(D, c), o, "FastCdc", c.chunks)
<1>0. n \in Nat
  OBVIOUS
<1>1. CutOk(c) /\ o.base + n <= OffsetMax
  BY ValidCuts DEF Fits
<1>2. g[m] = all /\ all \in Results
  <2>1. g[m] \in Results /\ g[m] = all
    BY DEF CdcTrace
  <2>. QED BY <2>1
<1>3. /\ g[m].ok = TRUE => CutUpTo(D, o, c, g[m].val, n) /\ Len(g[m].val) = m
      /\ m <= c.chunks => g[m].ok = TRUE
  <2>1. TraceDone(D, o, c, m, g[m])
    BY <1>1, CdcTraceTiles
  <2>. QED BY <1>1, <2>1 DEF TraceDone
<1>4. r = IF all.ok THEN ValidateChunkCoverage(all.val, o, n) ELSE all
  BY FastCdcIs DEF CdcResult
<1>. DEFINE list == all.val
            v == ValidateChunkCoverage(list, o, n)
<1>. HIDE DEF all
<1>5. all.ok = TRUE \/ all.ok = FALSE
  BY <1>2, ResultCases
<1>6. ASSUME all.ok = TRUE PROVE r.ok = TRUE /\ r.val = list
  <2>1. CutUpTo(D, o, c, list, n)
    BY <1>2, <1>3, <1>6
  <2>2. Tiles(list, o, n) /\ list \in Seq(Drafts)
    BY <2>1 DEF CutUpTo, Tiles
  <2>3. r = v
    BY <1>4, <1>6
  <2>. HIDE DEF list
  <2>4. v.ok = TRUE
    BY <1>1, <2>2, TilesValid
  <2>5. v = Ok(list)
    BY <1>0, <2>2, <2>4, ValidateIs
  <2>. HIDE DEF v
  <2>. QED BY <2>3, <2>4, <2>5, OkIs
<1>7. all.ok = FALSE => r.ok = FALSE
  BY <1>4
<1>. QED BY <1>2, <1>3, <1>5, <1>6, <1>7 DEF OfLength

-----------------------------------------------------------------------------
(* How many chunks there are does not depend on the limit on them.         *)

\* Two configurations that cut alike.
Alike(c, e) == c.min = e.min /\ c.max = e.max

\* The cuts are the same.
LEMMA CutAlike ==
    ASSUME NEW D, NEW x, NEW c, NEW e, Alike(c, e)
    PROVE  Cut(D, x, c) = Cut(D, x, e)
BY DEF Cut, Alike

\* The trace of one is no longer than the trace of the other.
LEMMA TraceNoLonger ==
    ASSUME NEW D, NEW o, NEW c, NEW e, Alike(c, e), NEW m, NEW s, NEW g,
           CdcTrace(D, o, c, m, s, g), NEW j, NEW t, NEW h, CdcTrace(D, o, e, j, t, h),
           Len(D) \in Nat
    PROVE  m <= j
<1>. DEFINE n == Len(D)
            S == {i \in 0 .. m : i <= j /\ s[i] = t[i]}
<1>1. /\ m \in Nat /\ s \in [0 .. m -> 0 .. n] /\ s[0] = 0
      /\ \A i \in 1 .. m : s[i - 1] < n /\ s[i] = s[i - 1] + Cut(D, s[i - 1], c)
  BY DEF CdcTrace
<1>2. /\ j \in Nat /\ t \in [0 .. j -> 0 .. n] /\ t[0] = 0 /\ t[j] = n
      /\ \A i \in 1 .. j : t[i] = t[i - 1] + Cut(D, t[i - 1], e)
  BY DEF CdcTrace
<1>. HIDE DEF n
<1>3. 0 \in S
  BY <1>1, <1>2
<1>4. ASSUME NEW i \in 1 .. m, i - 1 \in S PROVE i \in S
  <2>1. i \in 0 .. m /\ i - 1 \in 0 .. m /\ i - 1 <= j /\ s[i - 1] = t[i - 1] /\ s[i - 1] < n
    <3>1. i - 1 \in 0 .. m /\ i - 1 <= j /\ s[i - 1] = t[i - 1]
      BY <1>4
    <3>2. s[i - 1] < n
      BY <1>1, Zenon
    <3>3. i \in 0 .. m
      BY <1>1
    <3>. QED BY <3>1, <3>2, <3>3
  <2>2. i - 1 # j
    <3>1. s[i - 1] \in 0 .. n
      BY <1>1, <2>1
    <3>. QED BY <1>2, <2>1, <3>1
  <2>3. i <= j /\ i \in 1 .. j
    BY <1>1, <1>2, <2>1, <2>2
  <2>4. s[i] = t[i]
    <3>1. Cut(D, s[i - 1], c) = Cut(D, s[i - 1], e)
      BY CutAlike
    <3>2. s[i] = s[i - 1] + Cut(D, s[i - 1], c)
      BY <1>1
    <3>3. t[i] = t[i - 1] + Cut(D, t[i - 1], e)
      BY <1>2, <2>3
    <3>. QED BY <2>1, <3>1, <3>2, <3>3
  <2>. QED BY <2>1, <2>3, <2>4
<1>5. 0 .. m \subseteq S
  <2>. HIDE DEF S
  <2>. QED BY <1>1, <1>3, <1>4, UpTo
<1>6. m \in S
  <2>. HIDE DEF S
  <2>. QED BY <1>1, <1>5
<1>. QED BY <1>6

\* What a call p that succeeded says of the call r under another limit.
SameCount(p, r, limit) ==
    /\ Len(p.val) <= limit => r.ok = TRUE
    /\ r.ok = TRUE => Len(r.val) = Len(p.val)

\* chunk_fastcdc: where it succeeds, it succeeds under every limit its chunks keep.
LEMMA FastCdcCount ==
    ASSUME NEW D \in Seq(Nat), NEW o \in Origins, NEW c \in Configs, NEW e \in Configs,
           Alike(c, e), Fits(Len(D), o, c), Fits(Len(D), o, e),
           NEW p, p = ChunkFastCdc(D, o, c), p.ok = TRUE,
           NEW r, r = ChunkFastCdc(D, o, e)
    PROVE  SameCount(p, r, e.chunks)
<1>. DEFINE n == Len(D)
<1>0. n \in Nat
  OBVIOUS
<1>1. CutOk(c) /\ CutOk(e) /\ o.base + n <= OffsetMax
  BY ValidCuts DEF Fits
<1>2. PICK m, s, g : CdcTrace(D, o, c, m, s, g)
  BY <1>1, CdcTraceExists
<1>3. PICK j, t, h : CdcTrace(D, o, e, j, t, h)
  BY <1>1, CdcTraceExists
<1>4. m \in Nat /\ j \in Nat
  BY <1>2, <1>3 DEF CdcTrace
<1>5. Alike(e, c)
  BY DEF Alike
<1>6. m <= j /\ j <= m
  BY <1>0, <1>2, <1>3, <1>5, TraceNoLonger
<1>7. m = j
  BY <1>4, <1>6
<1>8. OfLength(p, m, c.chunks)
  BY <1>2, CdcLength
<1>9. OfLength(r, j, e.chunks)
  BY <1>3, CdcLength
<1>. QED BY <1>7, <1>8, <1>9 DEF SameCount, OfLength

-----------------------------------------------------------------------------
(* Structural regions.                                                     *)

\* No chunk ends beyond the object.
LEMMA TilesInside ==
    ASSUME NEW list, NEW o \in Origins, NEW n, Tiles(list, o, n), NEW i \in 1 .. Len(list)
    PROVE  list[i].offset + list[i].len <= o.base + n
<1>. DEFINE m == Len(list)
            S == {j \in 0 .. m : j < m => list[m - j].offset + list[m - j].len <= o.base + n}
<1>1. list \in Seq(Drafts) /\ m \in Nat /\ o.base \in Nat /\ n \in Nat /\ i \in 1 .. m
  BY DEF Tiles, Origins
<1>2. \A j \in 1 .. m : list[j].offset \in Nat /\ list[j].len \in Nat
  <2>. TAKE j \in 1 .. m
  <2>1. list[j] \in Drafts
    BY <1>1
  <2>. QED BY <2>1, DraftTypes
<1>3. \A j \in 1 .. m : Follows(list, o, j)
  BY DEF Tiles
<1>4. m > 0 => list[m].offset + list[m].len = o.base + n
  <2>1. m > 0 => list # <<>>
    BY <1>1
  <2>. QED BY <2>1 DEF Tiles
<1>. HIDE DEF m
<1>5. 0 \in S
  <2>1. m - 0 = m /\ o.base + n \in Nat
    BY <1>1
  <2>. QED BY <1>1, <1>4, <2>1
<1>6. ASSUME NEW j \in 1 .. m, j - 1 \in S PROVE j \in S
  <2>0. j \in 0 .. m
    BY <1>1
  <2>. SUFFICES ASSUME j < m PROVE list[m - j].offset + list[m - j].len <= o.base + n
    BY <2>0
  <2>. DEFINE k == m - j
              u == list[k].offset
              v == list[k].len
              x == list[k + 1].offset
              y == list[k + 1].len
              e == o.base + n
  <2>1. k \in 1 .. m /\ k + 1 \in 1 .. m /\ k + 1 > 1 /\ k + 1 = m - (j - 1) /\ (k + 1) - 1 = k
        /\ j - 1 < m
    BY <1>1
  <2>2. x + y <= e
    BY <1>6, <2>1
  <2>. HIDE DEF k
  <2>3. x = u + v
    BY <1>3, <2>1 DEF Follows
  <2>4. u \in Nat /\ v \in Nat /\ x \in Nat /\ y \in Nat /\ e \in Nat
    <3>1. u \in Nat /\ v \in Nat
      BY <1>2, <2>1, Zenon
    <3>2. x \in Nat /\ y \in Nat
      BY <1>2, <2>1, Zenon
    <3>3. e \in Nat
      BY <1>1
    <3>. QED BY <3>1, <3>2, <3>3
  <2>. HIDE DEF u, v, x, y, e
  <2>5. u + v <= e
    BY <2>2, <2>3, <2>4
  <2>. QED BY <2>5 DEF u, v, e, k
<1>7. 0 .. m \subseteq S
  <2>. HIDE DEF S
  <2>. QED BY <1>1, <1>5, <1>6, UpTo
<1>8. m - i \in S /\ m - i < m /\ m - (m - i) = i
  <2>. HIDE DEF S
  <2>1. m - i \in 0 .. m
    BY <1>1
  <2>. QED BY <1>1, <1>7, <2>1
<1>. QED BY <1>8

\* What is due in a region is due in the data.
LEMMA DueShifts ==
    ASSUME NEW D, NEW B, NEW a \in Nat, NEW n \in Nat, \A i \in 1 .. n : B[i] = D[a + i],
           NEW c \in Configs, NEW sc, sc.min = c.min, sc.max = c.max,
           NEW x \in Nat, NEW len \in Nat, len > 0, x + len <= n, Due(B, sc, x, len, n)
    PROVE  Due(D, c, a + x, len, a + n)
<1>1. len <= c.max
  BY DEF Due
<1>2. B[x + len] = D[(a + x) + len]
  <2>1. x + len \in 1 .. n /\ a + (x + len) = (a + x) + len
    OBVIOUS
  <2>. QED BY <2>1
<1>3. (a + x) + len = a + n \/ (len > c.min /\ D[(a + x) + len] = Marker) \/ len = c.max
  <2>1. x + len = n \/ (len > c.min /\ B[x + len] = Marker) \/ len = c.max
    BY DEF Due
  <2>2. x + len = n => (a + x) + len = a + n
    OBVIOUS
  <2>. QED BY <1>2, <2>1, <2>2
<1>4. ASSUME NEW k \in 1 .. len - 1 PROVE ~(k > c.min /\ D[(a + x) + k] = Marker)
  <2>1. x + k \in 1 .. n /\ a + (x + k) = (a + x) + k
    OBVIOUS
  <2>2. ~(k > c.min /\ B[x + k] = Marker)
    BY DEF Due
  <2>. QED BY <2>1, <2>2
<1>. QED BY <1>1, <1>3, <1>4 DEF Due

\* A chunk from x on over len bytes is a region, or is due in one that is too long.
RegionChunk(D, ends, c, x, len, i) ==
    /\ RegionStart(ends, i) <= x /\ x + len <= ends[i]
    /\ ends[i] - RegionStart(ends, i) <= c.max =>
            x = RegionStart(ends, i) /\ x + len = ends[i]
    /\ ~(ends[i] - RegionStart(ends, i) <= c.max) => Due(D, c, x, len, ends[i])

AllInRegions(D, ends, c, o, list) ==
    \A j \in 1 .. Len(list) : \E i \in 1 .. Len(ends) :
        RegionChunk(D, ends, c, list[j].offset - o.base, list[j].len, i)

SplitUpTo(D, ends, o, c, list, x) ==
    /\ Tiles(list, o, x) /\ AllInRegions(D, ends, c, o, list) /\ Len(list) <= c.chunks

\* The chunks of one region more.
LEMMA SplitJoins ==
    ASSUME NEW D, NEW ends, NEW o \in Origins, NEW c \in Configs, NEW list, NEW a \in Nat,
           SplitUpTo(D, ends, o, c, list, a), NEW y, NEW len \in Nat,
           Tiles(y, SubOrigin(o, a), len), Len(list) + Len(y) <= c.chunks,
           NEW i \in 1 .. Len(ends),
           \A j \in 1 .. Len(y) : RegionChunk(D, ends, c, y[j].offset - o.base, y[j].len, i)
    PROVE  SplitUpTo(D, ends, o, c, list \o y, a + len)
<1>. DEFINE l == list \o y
            m == Len(list)
            n == Len(y)
<1>1. Tiles(list, o, a) /\ AllInRegions(D, ends, c, o, list)
  BY DEF SplitUpTo
<1>2. list \in Seq(Drafts) /\ y \in Seq(Drafts) /\ m \in Nat /\ n \in Nat
  BY <1>1 DEF Tiles
<1>3. Tiles(l, o, a + len)
  BY <1>1, TilesJoin
<1>4. /\ Len(l) = m + n
      /\ \A j \in 1 .. m : l[j] = list[j]
      /\ \A j \in 1 .. n : l[m + j] = y[j]
  BY <1>2, JoinIs
<1>. HIDE DEF l, m, n
<1>5. ASSUME NEW j \in 1 .. (m + n)
      PROVE  \E k \in 1 .. Len(ends) :
                RegionChunk(D, ends, c, l[j].offset - o.base, l[j].len, k)
  <2>1. CASE j \in 1 .. m
    <3>1. \E k \in 1 .. Len(ends) :
                RegionChunk(D, ends, c, list[j].offset - o.base, list[j].len, k)
      BY <1>1, <2>1 DEF AllInRegions, m
    <3>. QED BY <1>4, <2>1, <3>1
  <2>2. CASE ~(j \in 1 .. m)
    <3>1. j - m \in 1 .. n /\ m + (j - m) = j
      BY <1>2, <2>2
    <3>2. l[j] = y[j - m]
      BY <1>4, <3>1
    <3>3. RegionChunk(D, ends, c, y[j - m].offset - o.base, y[j - m].len, i)
      BY <3>1 DEF n
    <3>. QED BY <3>2, <3>3
  <2>. QED BY <2>1, <2>2
<1>6. AllInRegions(D, ends, c, o, l)
  BY <1>4, <1>5 DEF AllInRegions
<1>7. Len(l) <= c.chunks
  BY <1>4 DEF m, n
<1>8. SplitUpTo(D, ends, o, c, l, a + len)
  BY <1>3, <1>6, <1>7 DEF SplitUpTo
<1>. QED BY <1>8 DEF l

\* One region more, [a, b): what it needs and what it does.
RegionReady(D, ends, o, c, list, i, a, b) ==
    /\ D \in Seq(Nat) /\ EndsOk(ends, Len(D)) /\ o \in Origins /\ c \in Configs
    /\ Fits(Len(D), o, c) /\ i \in 1 .. Len(ends)
    /\ a = RegionStart(ends, i) /\ b = ends[i]
    /\ SplitUpTo(D, ends, o, c, list, a)

RegionDone(D, ends, o, c, r, b) ==
    /\ r.ok = TRUE => SplitUpTo(D, ends, o, c, r.val, b)
    /\ Len(D) <= c.chunks => r.ok = TRUE

\* The numbers of a region.
LEMMA ReadyIs ==
    ASSUME NEW D, NEW ends, NEW o, NEW c, NEW list, NEW i, NEW a, NEW b,
           RegionReady(D, ends, o, c, list, i, a, b)
    PROVE  /\ a \in Nat /\ b \in Nat /\ a < b /\ b <= Len(D) /\ Len(D) \in Nat
           /\ list \in Seq(Drafts) /\ Len(list) \in Nat /\ Len(list) <= a
           /\ o.base \in Nat /\ o.base + Len(D) <= OffsetMax /\ OffsetMax \in Nat
           /\ c.chunks \in Nat /\ c.max \in Nat /\ ConfigValid(c)
<1>1. /\ D \in Seq(Nat) /\ EndsOk(ends, Len(D)) /\ o \in Origins /\ c \in Configs
      /\ Fits(Len(D), o, c) /\ i \in 1 .. Len(ends)
      /\ a = RegionStart(ends, i) /\ b = ends[i]
      /\ Tiles(list, o, a)
  BY DEF RegionReady, SplitUpTo
<1>2. a \in Nat /\ b \in Nat /\ a < b /\ b <= Len(D)
  BY <1>1 DEF EndsOk
<1>3. list \in Seq(Drafts) /\ Len(list) \in Nat /\ Len(D) \in Nat
  BY <1>1 DEF Tiles
<1>4. Len(list) <= a
  BY <1>1, TilesCount
<1>5. o.base \in Nat /\ c.chunks \in Nat /\ c.max \in Nat
  BY <1>1 DEF Origins, Configs
<1>6. ConfigValid(c) /\ o.base + Len(D) <= OffsetMax
  BY <1>1 DEF Fits
<1>. QED BY <1>2, <1>3, <1>4, <1>5, <1>6, OffsetIsNat

\* A region that is one chunk.
LEMMA WholeRegionDone ==
    ASSUME NEW D, NEW ends, NEW o, NEW c, NEW list, NEW i, NEW a, NEW b,
           RegionReady(D, ends, o, c, list, i, a, b), WholeRegion(b - a, c),
           NEW r, r = PushRelativeChunk(list, o, a, b - a, "Structural", c.chunks)
    PROVE  RegionDone(D, ends, o, c, r, b)
<1>. DEFINE n == Len(D)
            len == b - a
            w == c.chunks
            u == o.base
            k == Len(list)
<1>1. /\ a \in Nat /\ b \in Nat /\ a < b /\ b <= n /\ n \in Nat
      /\ list \in Seq(Drafts) /\ k \in Nat /\ k <= a
      /\ u \in Nat /\ u + n <= OffsetMax /\ OffsetMax \in Nat
      /\ w \in Nat
  BY ReadyIs
<1>2. /\ o \in Origins /\ c \in Configs /\ i \in 1 .. Len(ends)
      /\ a = RegionStart(ends, i) /\ b = ends[i] /\ SplitUpTo(D, ends, o, c, list, a)
  BY DEF RegionReady
<1>3. PICK method \in Methods : method = "Structural"
  BY DEF Methods
<1>4. len \in Nat /\ len > 0 /\ a + len = b
  BY <1>1
<1>5. len <= c.max
  BY DEF WholeRegion
<1>. HIDE DEF len, n, w, u, k
<1>. DEFINE y == <<Draft(o, a, len, method)>>
            l == list \o y
            fits == k + 1 <= w /\ len # 0 /\ u + a + len <= OffsetMax
<1>6. Tiles(y, SubOrigin(o, a), len)
  BY <1>1, <1>2, <1>4, TilesOne
<1>7. Append(list, Draft(o, a, len, method)) = l
  BY <1>1, <1>2, <1>4, AppendIs
<1>8. Len(y) = 1 /\ y[1].offset - o.base = a /\ y[1].len = len
  <2>. DEFINE d == Draft(o, a, len, method)
  <2>0. d.offset = o.base + a /\ d.len = len
    BY <1>1, <1>2, <1>4, DraftIs, SMTT(30)
  <2>1. d.offset = o.base + a /\ d.len = len /\ o.base \in Nat
    BY <1>1, <2>0 DEF u
  <2>. HIDE DEF d
  <2>2. Len(<<d>>) = 1 /\ <<d>>[1] = d
    OBVIOUS
  <2>3. d.offset - o.base = a
    BY <1>1, <2>1
  <2>. QED BY <2>1, <2>2, <2>3 DEF d
<1>. HIDE DEF y
<1>9. ASSUME fits PROVE SplitUpTo(D, ends, o, c, l, b)
  <2>1. RegionChunk(D, ends, c, a, len, i)
    BY <1>2, <1>4, <1>5, <1>1 DEF RegionChunk, len
  <2>2. \A j \in 1 .. Len(y) : RegionChunk(D, ends, c, y[j].offset - o.base, y[j].len, i)
    <3>1. \A j \in 1 .. Len(y) : j = 1
      BY <1>8
    <3>. QED BY <1>8, <2>1, <3>1
  <2>3. Len(list) + Len(y) <= c.chunks
    BY <1>8, <1>9 DEF k, w
  <2>4. SplitUpTo(D, ends, o, c, l, a + len)
    BY <1>1, <1>2, <1>4, <1>6, <2>2, <2>3, SplitJoins
  <2>. QED BY <1>4, <2>4
<1>10. (fits => r.ok = TRUE /\ r.val = l) /\ (~fits => r.ok = FALSE)
  <2>1. PushIs(PushRelativeChunk(list, o, a, len, method, w), list, o, a, len, method, w)
    <3>. HIDE DEF l, fits
    <3>. QED BY <1>1, <1>2, <1>4, PushAnswers
  <2>2. PushIs(r, list, o, a, len, method, w)
    BY <1>3, <2>1 DEF len, w
  <2>. DEFINE z == Append(list, Draft(o, a, len, method))
  <2>3. (fits => r = Ok(z)) /\ (~fits => r.ok = FALSE)
    BY <2>2, Zenon DEF PushIs, k, u
  <2>4. z = l
    BY <1>7
  <2>. HIDE DEF z, l, fits
  <2>. QED BY <2>3, <2>4, OkIs
<1>11. n <= w => fits
  BY <1>1, <1>4
<1>. HIDE DEF l, fits
<1>12. r.ok = TRUE => SplitUpTo(D, ends, o, c, r.val, b)
  BY <1>9, <1>10
<1>. QED BY <1>10, <1>11, <1>12 DEF RegionDone, n, w

\* A region that FastCDC cuts.
LEMMA CutRegionDone ==
    ASSUME NEW D, NEW ends, NEW o, NEW c, NEW list, NEW i, NEW a, NEW b,
           RegionReady(D, ends, o, c, list, i, a, b), ~WholeRegion(b - a, c),
           Len(list) < c.chunks, NEW sub,
           sub = ChunkFastCdc(SubSeq(D, a + 1, b), SubOrigin(o, a), SubConfig(c, Len(list), b - a))
    PROVE  /\ sub.ok = TRUE => SplitUpTo(D, ends, o, c, list \o Structural(sub.val), b)
           /\ Len(D) <= c.chunks => sub.ok = TRUE
<1>. DEFINE n == Len(D)
            len == b - a
            w == c.chunks
            u == o.base
            k == Len(list)
            B == SubSeq(D, a + 1, b)
            q == SubOrigin(o, a)
            sc == SubConfig(c, k, len)
<1>1. /\ a \in Nat /\ b \in Nat /\ a < b /\ b <= n /\ n \in Nat
      /\ list \in Seq(Drafts) /\ k \in Nat /\ k <= a
      /\ u \in Nat /\ u + n <= OffsetMax /\ OffsetMax \in Nat
      /\ w \in Nat /\ ConfigValid(c)
  BY ReadyIs
<1>2. /\ o \in Origins /\ c \in Configs /\ i \in 1 .. Len(ends) /\ D \in Seq(Nat)
      /\ a = RegionStart(ends, i) /\ b = ends[i] /\ SplitUpTo(D, ends, o, c, list, a)
  BY DEF RegionReady
<1>3. len \in Nat /\ len > 0 /\ a + len = b /\ ~(len <= c.max)
  BY <1>1 DEF WholeRegion
<1>4. B \in Seq(Nat) /\ Len(B) = len /\ \A j \in 1 .. len : B[j] = D[a + j]
  <2>1. a + len <= Len(D) /\ a + len = b
    BY <1>1, <1>3
  <2>2. B = Object(D, a, len)
    BY <2>1 DEF Object
  <2>. HIDE DEF B, len
  <2>3. /\ Object(D, a, len) \in Seq(Nat) /\ Len(Object(D, a, len)) = len
        /\ \A j \in 1 .. len : Object(D, a, len)[j] = D[a + j]
    BY <1>1, <1>2, <1>3, <2>1, ObjectIs, ZenonT(40)
  <2>. QED BY <2>2, <2>3
<1>5. q \in Origins /\ q.base = u + a
  BY <1>1, <1>2, SubOriginIs
<1>6. /\ sc \in Configs /\ sc.chunks = w - k /\ sc.bytes = len
      /\ sc.min = c.min /\ sc.max = c.max /\ ConfigValid(sc)
  <2>. HIDE DEF len, k
  <2>. QED BY <1>1, <1>2, <1>3, SubConfigIs, SMTT(30) DEF k
<1>7. sub = ChunkFastCdc(B, q, sc)
  OBVIOUS
<1>. HIDE DEF B, q, sc, len
<1>8. CdcTiled(B, q, sc, sub)
  BY <1>4, <1>5, <1>6, <1>7, FastCdcTiles
<1>. DEFINE y == Structural(sub.val)
            z == sub.val
<1>9. ASSUME sub.ok = TRUE PROVE SplitUpTo(D, ends, o, c, list \o y, b)
  <2>1. CutUpTo(B, q, sc, z, len)
    BY <1>4, <1>8, <1>9 DEF CdcTiled
  <2>2. Tiles(z, q, len) /\ AllDue(B, sc, q, z) /\ Len(z) <= w - k /\ z \in Seq(Drafts)
    BY <1>6, <2>1 DEF CutUpTo, Tiles
  <2>. HIDE DEF z
  <2>3. Tiles(y, q, len)
    BY <2>2, TilesStructural DEF z
  <2>4. /\ Len(y) = Len(z)
        /\ \A j \in 1 .. Len(z) : y[j].offset = z[j].offset /\ y[j].len = z[j].len
    BY <2>2, RelabelIs DEF z
  <2>. HIDE DEF y
  <2>5. ASSUME NEW j \in 1 .. Len(z)
        PROVE  RegionChunk(D, ends, c, y[j].offset - o.base, y[j].len, i)
    <3>. DEFINE v == z[j].offset
                t == z[j].len
                x == v - q.base
    <3>1. z[j] \in Drafts /\ Follows(z, q, j)
      BY <2>2 DEF Tiles
    <3>2. v \in Nat /\ t \in Nat /\ t > 0
      BY <3>1, DraftTypes DEF Follows
    <3>3. q.base <= v /\ v + t <= q.base + len
      BY <1>5, <2>2, TilesEnds, TilesInside
    <3>4. Due(B, sc, x, t, len)
      BY <1>4, <2>2 DEF AllDue
    <3>. HIDE DEF v, t
    <3>5. x \in Nat /\ x + t <= len /\ v - u = a + x
      <4>. DEFINE f == q.base
      <4>1. x = v - f /\ f <= v /\ v + t <= f + len /\ f = u + a
        BY <1>5, <3>3
      <4>. HIDE DEF f, x, u
      <4>. QED BY <1>1, <1>3, <3>2, <4>1
    <3>. HIDE DEF x
    <3>6. Due(D, c, a + x, t, a + len)
      BY <1>1, <1>2, <1>3, <1>4, <1>6, <3>2, <3>4, <3>5, DueShifts
    <3>7. y[j].offset - o.base = a + x /\ y[j].len = t
      BY <2>4, <3>5 DEF v, t, u
    <3>8. a <= a + x /\ (a + x) + t <= b
      BY <1>1, <1>3, <3>2, <3>5
    <3>9. RegionChunk(D, ends, c, a + x, t, i)
      BY <1>2, <1>3, <3>6, <3>8 DEF RegionChunk, len
    <3>. QED BY <3>7, <3>9
  <2>6. Len(list) + Len(y) <= c.chunks /\ Len(y) \in Nat
    <3>1. Len(z) \in Nat /\ k \in Nat /\ w \in Nat
      BY <1>1, <2>2
    <3>2. k + Len(z) <= w
      <4>. DEFINE e == Len(z)
      <4>1. e \in Nat /\ e <= w - k
        BY <2>2, <3>1
      <4>. HIDE DEF e, k, w
      <4>2. k + e <= w
        BY <3>1, <4>1
      <4>. QED BY <4>2 DEF e
    <3>. QED BY <2>4, <3>1, <3>2
  <2>7. SplitUpTo(D, ends, o, c, list \o y, a + len)
    BY <1>1, <1>2, <1>3, <2>3, <2>4, <2>5, <2>6, SplitJoins DEF q
  <2>. QED BY <1>3, <2>7 DEF y
<1>10. n <= w => sub.ok = TRUE
  <2>. SUFFICES ASSUME n <= w PROVE sub.ok = TRUE
    OBVIOUS
  <2>1. q.base + len <= OffsetMax
    <3>. HIDE DEF u, n
    <3>. QED BY <1>1, <1>3, <1>5
  <2>2. len <= sc.bytes /\ len <= sc.chunks
    <3>. HIDE DEF w, n, k
    <3>. QED BY <1>1, <1>3, <1>6
  <2>3. Fits(Len(B), q, sc)
    BY <1>4, <1>6, <2>1, <2>2 DEF Fits
  <2>. QED BY <1>4, <1>8, <2>2, <2>3 DEF CdcTiled
<1>. QED BY <1>9, <1>10

\* Any region.
LEMMA RegionIsDone ==
    ASSUME NEW D, NEW ends, NEW o, NEW c, NEW list, NEW i, NEW a, NEW b,
           RegionReady(D, ends, o, c, list, i, a, b),
           NEW r, RegionIs(r, list, D, a, b, o, c)
    PROVE  RegionDone(D, ends, o, c, r, b)
<1>0. /\ a \in Nat /\ b \in Nat /\ a < b /\ b <= Len(D) /\ Len(D) \in Nat
      /\ Len(list) \in Nat /\ Len(list) <= a /\ c.chunks \in Nat
  BY ReadyIs
<1>1. CASE WholeRegion(b - a, c)
  <2>1. r = PushRelativeChunk(list, o, a, b - a, "Structural", c.chunks)
    BY <1>1 DEF RegionIs
  <2>. QED BY <1>1, <2>1, WholeRegionDone
<1>2. CASE ~WholeRegion(b - a, c) /\ ~(Len(list) < c.chunks)
  <2>1. r.ok = FALSE
    BY <1>2 DEF RegionIs
  <2>2. ~(Len(D) <= c.chunks)
    <3>. DEFINE x == Len(D)
                y == Len(list)
                z == c.chunks
    <3>1. b <= x /\ x \in Nat /\ y \in Nat /\ y <= a /\ z \in Nat /\ ~(y < z)
      BY <1>0, <1>2
    <3>. HIDE DEF x, y, z
    <3>2. ~(x <= z)
      BY <1>0, <3>1
    <3>. QED BY <3>2 DEF x, z
  <2>. QED BY <2>1, <2>2 DEF RegionDone
<1>3. CASE ~WholeRegion(b - a, c) /\ Len(list) < c.chunks
  <2>. DEFINE sub == ChunkFastCdc(SubSeq(D, a + 1, b), SubOrigin(o, a),
                                  SubConfig(c, Len(list), b - a))
  <2>1. /\ sub.ok = FALSE => r.ok = FALSE
        /\ sub.ok = TRUE => r = Ok(list \o Structural(sub.val))
    BY <1>3 DEF RegionIs
  <2>2. /\ sub.ok = TRUE => SplitUpTo(D, ends, o, c, list \o Structural(sub.val), b)
        /\ Len(D) <= c.chunks => sub.ok = TRUE
    BY <1>3, CutRegionDone
  <2>3. sub.ok = TRUE \/ sub.ok = FALSE
    <3>. DEFINE k == Len(list)
                B == SubSeq(D, a + 1, b)
                q == SubOrigin(o, a)
                sc == SubConfig(c, k, b - a)
    <3>1. D \in Seq(Nat) /\ o \in Origins /\ c \in Configs /\ b - a \in Nat
      BY <1>0 DEF RegionReady
    <3>2. B \in Seq(Nat)
      BY <1>0, <3>1
    <3>3. q \in Origins
      BY <1>0, <3>1, SubOriginIs
    <3>4. sc \in Configs
      BY <1>0, <1>3, <3>1, SubConfigIs
    <3>5. sub = ChunkFastCdc(B, q, sc)
      OBVIOUS
    <3>. HIDE DEF B, q, sc, sub
    <3>6. sub \in Results
      BY <3>2, <3>3, <3>4, <3>5, FastCdcIs
    <3>. QED BY <3>6, ResultCases
  <2>. HIDE DEF sub
  <2>4. sub.ok = TRUE => r.ok = TRUE /\ r.val = list \o Structural(sub.val)
    BY <2>1, OkIs
  <2>. QED BY <2>1, <2>2, <2>3, <2>4 DEF RegionDone
<1>. QED BY <1>1, <1>2, <1>3

\* The ends of the regions are in order, and at least as great as their number.
LEMMA EndsInOrder ==
    ASSUME NEW ends, NEW n, EndsOk(ends, n), NEW i \in 1 .. Len(ends), NEW j \in 1 .. Len(ends),
           i < j
    PROVE  ends[i] <= RegionStart(ends, j)
<1>. DEFINE m == Len(ends)
            S == {k \in 0 .. m : i < k => ends[i] <= RegionStart(ends, k)}
<1>1. m \in Nat /\ i \in 1 .. m
  BY DEF EndsOk
<1>2. \A k \in 1 .. m : /\ RegionStart(ends, k) \in Nat /\ ends[k] \in Nat
                        /\ RegionStart(ends, k) < ends[k]
                        /\ k > 1 => RegionStart(ends, k) = ends[k - 1]
  BY DEF EndsOk
<1>. HIDE DEF m
<1>3. 0 \in S
  BY <1>1
<1>4. ASSUME NEW k \in 1 .. m, k - 1 \in S PROVE k \in S
  <2>1. k \in 0 .. m
    BY <1>1
  <2>. SUFFICES ASSUME i < k PROVE ends[i] <= RegionStart(ends, k)
    BY <2>1
  <2>2. k > 1 /\ k - 1 \in 1 .. m /\ (i = k - 1 \/ i < k - 1)
    BY <1>1
  <2>3. RegionStart(ends, k) = ends[k - 1]
    BY <1>2, <2>2
  <2>4. CASE i = k - 1
    BY <1>1, <1>2, <2>3, <2>4
  <2>5. CASE i < k - 1
    <3>1. ends[i] <= RegionStart(ends, k - 1)
      BY <1>4, <2>5
    <3>. DEFINE x == ends[i]
                y == RegionStart(ends, k - 1)
                z == ends[k - 1]
    <3>2. x \in Nat /\ y \in Nat /\ z \in Nat /\ y < z /\ x <= y
      BY <1>1, <1>2, <2>2, <3>1
    <3>. HIDE DEF x, y, z
    <3>3. x <= z
      BY <3>2
    <3>. QED BY <2>3, <3>3 DEF x, z
  <2>. QED BY <2>2, <2>4, <2>5
<1>5. 0 .. m \subseteq S
  <2>. HIDE DEF S
  <2>. QED BY <1>1, <1>3, <1>4, UpTo
<1>6. j \in S
  <2>. HIDE DEF S
  <2>1. j \in 0 .. m
    BY <1>1 DEF m
  <2>. QED BY <1>5, <2>1
<1>. QED BY <1>6

\* There are no more regions than bytes.
LEMMA EndsCount ==
    ASSUME NEW ends, NEW n, EndsOk(ends, n)
    PROVE  Len(ends) <= n
<1>. DEFINE m == Len(ends)
            S == {k \in 0 .. m : k > 0 => k <= ends[k]}
<1>1. m \in Nat /\ m > 0 /\ ends[m] = n /\ n \in Nat
  BY DEF EndsOk
<1>2. \A k \in 1 .. m : /\ RegionStart(ends, k) \in Nat /\ ends[k] \in Nat
                        /\ RegionStart(ends, k) < ends[k]
                        /\ k > 1 => RegionStart(ends, k) = ends[k - 1]
  BY DEF EndsOk
<1>. HIDE DEF m
<1>3. 0 \in S
  BY <1>1
<1>4. ASSUME NEW k \in 1 .. m, k - 1 \in S PROVE k \in S
  <2>1. k \in 0 .. m /\ (k = 1 \/ k > 1)
    BY <1>1
  <2>2. CASE k = 1
    <3>1. k <= ends[k]
      BY <1>2, <2>2
    <3>. QED BY <2>1, <3>1
  <2>3. CASE k > 1
    <3>. DEFINE x == ends[k]
                y == ends[k - 1]
    <3>1. k - 1 \in 1 .. m /\ k \in Int
      BY <1>1, <2>3
    <3>2. x \in Nat /\ y \in Nat /\ y < x /\ k - 1 <= y
      BY <1>2, <1>4, <2>3, <3>1
    <3>. HIDE DEF x, y
    <3>3. k <= x
      BY <3>1, <3>2
    <3>. QED BY <2>1, <3>3 DEF x
  <2>. QED BY <2>1, <2>2, <2>3
<1>5. 0 .. m \subseteq S
  <2>. HIDE DEF S
  <2>. QED BY <1>1, <1>3, <1>4, UpTo
<1>6. m \in S
  <2>. HIDE DEF S
  <2>. QED BY <1>1, <1>5
<1>. QED BY <1>1, <1>6 DEF m

\* No regions yet.
LEMMA NoRegions ==
    ASSUME NEW D, NEW ends, NEW o \in Origins, NEW c \in Configs
    PROVE  SplitUpTo(D, ends, o, c, <<>>, 0)
<1>. DEFINE l == <<>>
<1>1. Len(l) = 0 /\ Tiles(l, o, 0)
  BY NoChunks
<1>. HIDE DEF l
<1>2. SplitUpTo(D, ends, o, c, l, 0)
  BY <1>1 DEF SplitUpTo, AllInRegions, Configs
<1>. QED BY <1>2 DEF l

\* Every list of the trace of chunk_structural covers its regions.
LEMMA RegionsTraceTiles ==
    ASSUME NEW D \in Seq(Nat), NEW ends, EndsOk(ends, Len(D)), NEW o \in Origins,
           NEW c \in Configs, Fits(Len(D), o, c), NEW G, RegionsTrace(D, ends, o, c, G)
    PROVE  RegionDone(D, ends, o, c, G[Len(ends)], Len(D))
<1>. DEFINE m == Len(ends)
            At(i) == IF i = 0 THEN 0 ELSE ends[i]
            S == {i \in 0 .. m : RegionDone(D, ends, o, c, G[i], At(i))}
<1>1. m \in Nat /\ m > 0 /\ ends[m] = Len(D)
  BY DEF EndsOk
<1>2. /\ G \in [0 .. m -> Results] /\ G[0] = Ok(<<>>)
      /\ \A i \in 1 .. m : NextRegion(G[i], G[i - 1], i, D, ends, o, c)
  BY DEF RegionsTrace
<1>. HIDE DEF m
<1>3. 0 \in S
  <2>1. G[0].ok = TRUE /\ G[0].val = <<>> /\ SplitUpTo(D, ends, o, c, <<>>, 0)
    BY <1>2, OkIs, NoRegions
  <2>. QED BY <1>1, <2>1 DEF RegionDone
<1>4. ASSUME NEW i \in 1 .. m, i - 1 \in S PROVE i \in S
  <2>0. i \in 0 .. m /\ i # 0 /\ i - 1 \in 0 .. m
    BY <1>1
  <2>. DEFINE prior == G[i - 1]
              r == G[i]
              a == RegionStart(ends, i)
              b == ends[i]
              list == prior.val
  <2>1. NextRegion(r, prior, i, D, ends, o, c)
    BY <1>2
  <2>2. RegionDone(D, ends, o, c, prior, a)
    <3>1. At(i - 1) = a
      <4>1. (i - 1 = 0 <=> i = 1) /\ (i = 1 \/ i > 1)
        BY <1>1
      <4>2. (i = 1 => a = 0) /\ (i > 1 => a = ends[i - 1])
        BY DEF EndsOk, m
      <4>. QED BY <4>1, <4>2
    <3>2. RegionDone(D, ends, o, c, G[i - 1], At(i - 1))
      BY <1>4
    <3>. HIDE DEF At, a
    <3>. QED BY <3>1, <3>2
  <2>3. prior.ok = TRUE \/ prior.ok = FALSE
    BY <1>2, <2>0, ResultCases
  <2>4. CASE prior.ok = FALSE
    <3>1. r = prior /\ ~(Len(D) <= c.chunks)
      BY <2>1, <2>2, <2>4 DEF NextRegion, RegionDone
    <3>2. RegionDone(D, ends, o, c, r, At(i))
      <4>. HIDE DEF r, prior
      <4>. QED BY <2>4, <3>1 DEF RegionDone
    <3>. QED BY <2>0, <3>2
  <2>5. CASE prior.ok = TRUE
    <3>1. SplitUpTo(D, ends, o, c, list, a)
      BY <2>2, <2>5 DEF RegionDone
    <3>2. RegionIs(r, list, D, a, b, o, c)
      BY <2>1, <2>5 DEF NextRegion
    <3>3. RegionReady(D, ends, o, c, list, i, a, b)
      BY <3>1 DEF RegionReady, m
    <3>. HIDE DEF list, a, b, r
    <3>4. RegionDone(D, ends, o, c, r, b)
      BY <3>2, <3>3, RegionIsDone
    <3>5. At(i) = b
      BY <2>0 DEF b
    <3>. QED BY <2>0, <3>4, <3>5 DEF r
  <2>. QED BY <2>3, <2>4, <2>5
<1>5. 0 .. m \subseteq S
  <2>. HIDE DEF S
  <2>. QED BY <1>1, <1>3, <1>4, UpTo
<1>6. m \in S /\ At(m) = Len(D)
  <2>1. m \in S
    <3>. HIDE DEF S
    <3>. QED BY <1>1, <1>5
  <2>. QED BY <1>1, <2>1
<1>. QED BY <1>6 DEF m

\* chunk_structural covers its object with regions, or chunks that are due in one.
StructuralTiled(D, ends, o, c, r) ==
    /\ r.ok = TRUE \/ r.ok = FALSE
    /\ r.ok = TRUE => Admits(D, ends, o, c) /\ SplitUpTo(D, ends, o, c, r.val, Len(D))
    /\ (Admits(D, ends, o, c) /\ Len(D) <= c.chunks) => r.ok = TRUE

\* The whole call.
LEMMA StructuralTiles ==
    ASSUME NEW D \in Seq(Nat), NEW ends \in Seq(Nat), NEW o \in Origins, NEW c \in Configs
    PROVE  StructuralTiled(D, ends, o, c, ChunkStructural(D, ends, o, c))
<1>. DEFINE r == ChunkStructural(D, ends, o, c)
            n == Len(D)
            all == AllRegions(D, ends, o, c)
<1>0. n \in Nat
  OBVIOUS
<1>1. /\ ~Admits(D, ends, o, c) => r.ok = FALSE
      /\ (Admits(D, ends, o, c) /\ D = <<>>) => r = Ok(<<>>)
      /\ (Admits(D, ends, o, c) /\ D # <<>>) => r = StructuralResult(D, ends, o, c)
  BY StructuralIs
<1>2. CASE ~Admits(D, ends, o, c)
  <2>. HIDE DEF r
  <2>. QED BY <1>1, <1>2 DEF StructuralTiled, r
<1>3. CASE Admits(D, ends, o, c) /\ D = <<>>
  <2>1. r.ok = TRUE /\ r.val = <<>>
    BY <1>1, <1>3, OkIs
  <2>2. SplitUpTo(D, ends, o, c, <<>>, 0) /\ n = 0
    BY <1>3, NoRegions
  <2>. HIDE DEF r
  <2>3. StructuralTiled(D, ends, o, c, r)
    BY <1>3, <2>1, <2>2 DEF StructuralTiled
  <2>. QED BY <2>3 DEF r
<1>4. CASE Admits(D, ends, o, c) /\ D # <<>>
  <2>1. Fits(n, o, c) /\ BoundaryEndsValid(ends, n) /\ o.base + n <= OffsetMax
    BY <1>4 DEF Admits, Fits
  <2>2. EndsOk(ends, n)
    BY <1>0, <2>1, EndsAreOk
  <2>3. PICK G : RegionsTrace(D, ends, o, c, G)
    BY <2>2, RegionsTraceExists
  <2>4. RegionDone(D, ends, o, c, G[Len(ends)], n)
    BY <2>1, <2>2, <2>3, RegionsTraceTiles
  <2>5. G[Len(ends)] = all /\ all \in Results
    <3>1. Len(ends) \in 0 .. Len(ends)
      OBVIOUS
    <3>2. G[Len(ends)] = all /\ G[Len(ends)] \in Results
      BY <2>3, <3>1 DEF RegionsTrace
    <3>. QED BY <3>2
  <2>6. RegionDone(D, ends, o, c, all, n)
    BY <2>4, <2>5
  <2>7. r = IF all.ok THEN ValidateChunkCoverage(all.val, o, n) ELSE all
    BY <1>1, <1>4 DEF StructuralResult
  <2>. DEFINE list == all.val
              v == ValidateChunkCoverage(list, o, n)
  <2>. HIDE DEF all, r
  <2>8. all.ok = TRUE \/ all.ok = FALSE
    BY <2>5, ResultCases
  <2>9. ASSUME all.ok = TRUE
        PROVE  r.ok = TRUE /\ r.val = list /\ SplitUpTo(D, ends, o, c, list, n)
    <3>1. SplitUpTo(D, ends, o, c, list, n)
      BY <2>6, <2>9 DEF RegionDone
    <3>2. Tiles(list, o, n) /\ list \in Seq(Drafts)
      BY <3>1 DEF SplitUpTo, Tiles
    <3>3. r = v
      BY <2>7, <2>9
    <3>. HIDE DEF list
    <3>4. v.ok = TRUE
      BY <2>1, <3>2, TilesValid
    <3>5. v = Ok(list)
      BY <1>0, <3>2, <3>4, ValidateIs
    <3>. HIDE DEF v
    <3>. QED BY <3>1, <3>3, <3>4, <3>5, OkIs
  <2>10. all.ok = FALSE => r.ok = FALSE
    BY <2>7
  <2>11. n <= c.chunks => all.ok = TRUE
    BY <2>6 DEF RegionDone
  <2>12. StructuralTiled(D, ends, o, c, r)
    BY <1>4, <2>8, <2>9, <2>10, <2>11 DEF StructuralTiled
  <2>. QED BY <2>12 DEF r
<1>. QED BY <1>2, <1>3, <1>4

\* What the call of the region [a, b) is given when k chunks are there.
SubFits(B, q, s, a, b, c, k) ==
    /\ B \in Seq(Nat) /\ Len(B) = b - a /\ q \in Origins /\ s \in Configs
    /\ s.chunks = c.chunks - k /\ s.min = c.min /\ s.max = c.max
    /\ Fits(Len(B), q, s)

\* The region fits into its object.
LEMMA SubCallFits ==
    ASSUME NEW D \in Seq(Nat), NEW a \in Nat, NEW b \in Nat, a < b, b <= Len(D),
           NEW o \in Origins, NEW c \in Configs, Fits(Len(D), o, c), NEW k \in Nat, k < c.chunks,
           NEW B, B = SubSeq(D, a + 1, b), NEW q, q = SubOrigin(o, a),
           NEW s, s = SubConfig(c, k, b - a)
    PROVE  SubFits(B, q, s, a, b, c, k)
<1>. DEFINE n == Len(D)
            u == o.base
            len == b - a
<1>1. /\ n \in Nat /\ u \in Nat /\ len \in Nat /\ len > 0 /\ a + len = b
      /\ ConfigValid(c) /\ u + n <= OffsetMax /\ OffsetMax \in Nat
  BY OffsetIsNat DEF Origins, Fits
<1>2. B \in Seq(Nat) /\ Len(B) = len
  BY <1>1, SMTT(40)
<1>3. q \in Origins /\ q.base = u + a
  BY SubOriginIs
<1>4. /\ s \in Configs /\ s.chunks = c.chunks - k /\ s.bytes = len
      /\ s.min = c.min /\ s.max = c.max /\ ConfigValid(s)
  <2>. HIDE DEF len
  <2>1. s = SubConfig(c, k, len)
    BY DEF len
  <2>. QED BY <1>1, <2>1, SubConfigIs, SMTT(30)
<1>. HIDE DEF u, n, len
<1>5. q.base + len <= OffsetMax /\ len <= s.bytes
  <2>1. b <= n
    BY DEF n
  <2>. QED BY <1>1, <1>3, <1>4, <2>1
<1>6. Fits(len, q, s)
  BY <1>4, <1>5 DEF Fits
<1>. QED BY <1>2, <1>3, <1>4, <1>6 DEF SubFits, len

\* The same region after as many chunks, under two limits.
SameRegion(D, a, b, o, c, e, x, y) ==
    /\ D \in Seq(Nat) /\ a \in Nat /\ b \in Nat /\ a < b /\ b <= Len(D)
    /\ o \in Origins /\ c \in Configs /\ e \in Configs /\ Alike(c, e)
    /\ Fits(Len(D), o, c) /\ Fits(Len(D), o, e)
    /\ x \in Seq(Drafts) /\ y \in Seq(Drafts) /\ Len(x) = Len(y)

\* A region that is one chunk.
LEMMA WholeRegionCount ==
    ASSUME NEW D, NEW a, NEW b, NEW o, NEW c, NEW e, NEW x, NEW y,
           SameRegion(D, a, b, o, c, e, x, y),
           NEW p, p = PushRelativeChunk(x, o, a, b - a, "Structural", c.chunks), p.ok = TRUE,
           NEW r, r = PushRelativeChunk(y, o, a, b - a, "Structural", e.chunks)
    PROVE  SameCount(p, r, e.chunks) /\ Len(x) < Len(p.val)
<1>. DEFINE len == b - a
<1>1. /\ a \in Nat /\ len \in Nat /\ o \in Origins /\ x \in Seq(Drafts) /\ y \in Seq(Drafts)
      /\ Len(x) = Len(y) /\ Len(x) \in Nat
  BY DEF SameRegion
<1>2. PICK method \in Methods : method = "Structural"
  BY DEF Methods
<1>. HIDE DEF len
<1>3. PushIs(p, x, o, a, len, method, c.chunks) /\ PushIs(r, y, o, a, len, method, e.chunks)
  <2>. DEFINE v == c.chunks
              w == e.chunks
  <2>. HIDE DEF v, w
  <2>1. p = PushRelativeChunk(x, o, a, len, method, v)
    BY <1>2 DEF v, len
  <2>2. r = PushRelativeChunk(y, o, a, len, method, w)
    BY <1>2 DEF w, len
  <2>. QED BY <1>1, <2>1, <2>2, PushAnswers DEF v, w
<1>. DEFINE d == Draft(o, a, len, method)
            t == len # 0 /\ o.base + a + len <= OffsetMax
<1>4. d \in Drafts
  BY <1>1, DraftIs
<1>. HIDE DEF d
<1>5. Len(Append(x, d)) = Len(x) + 1 /\ Len(Append(y, d)) = Len(x) + 1
  <2>. HIDE DEF Drafts
  <2>. QED BY <1>1, <1>4
<1>6. /\ (Len(x) + 1 <= c.chunks /\ t) => p = Ok(Append(x, d))
      /\ ~(Len(x) + 1 <= c.chunks /\ t) => p.ok = FALSE
      /\ (Len(x) + 1 <= e.chunks /\ t) => r = Ok(Append(y, d))
      /\ ~(Len(x) + 1 <= e.chunks /\ t) => r.ok = FALSE
  BY <1>1, <1>3 DEF PushIs, d
<1>. HIDE DEF t
<1>7. t /\ Len(p.val) = Len(x) + 1
  <2>1. t /\ p = Ok(Append(x, d))
    BY <1>6
  <2>. QED BY <1>5, <2>1, OkIs
<1>8. (Len(x) + 1 <= e.chunks => r.ok = TRUE) /\ (r.ok = TRUE => Len(r.val) = Len(x) + 1)
  BY <1>5, <1>6, <1>7, OkIs
<1>. QED BY <1>1, <1>7, <1>8 DEF SameCount

\* A region that FastCDC cuts.
LEMMA CutRegionCount ==
    ASSUME NEW D, NEW a, NEW b, NEW o, NEW c, NEW e, NEW x, NEW y,
           SameRegion(D, a, b, o, c, e, x, y), ~WholeRegion(b - a, c), ~WholeRegion(b - a, e),
           NEW p, RegionIs(p, x, D, a, b, o, c), p.ok = TRUE,
           NEW r, RegionIs(r, y, D, a, b, o, e)
    PROVE  SameCount(p, r, e.chunks) /\ Len(x) < Len(p.val)
<1>. DEFINE k == Len(x)
            B == SubSeq(D, a + 1, b)
            q == SubOrigin(o, a)
            sc == SubConfig(c, k, b - a)
            se == SubConfig(e, k, b - a)
            f == ChunkFastCdc(B, q, sc)
            h == ChunkFastCdc(B, q, se)
<1>1. /\ D \in Seq(Nat) /\ a \in Nat /\ b \in Nat /\ a < b /\ b <= Len(D)
      /\ o \in Origins /\ c \in Configs /\ e \in Configs /\ Alike(c, e)
      /\ Fits(Len(D), o, c) /\ Fits(Len(D), o, e)
      /\ x \in Seq(Drafts) /\ y \in Seq(Drafts) /\ Len(y) = k /\ k \in Nat
  BY DEF SameRegion
<1>2. c.chunks \in Nat /\ e.chunks \in Nat
  BY <1>1 DEF Configs
<1>3. k < c.chunks
  BY DEF RegionIs
<1>4. /\ f.ok = FALSE => p.ok = FALSE
      /\ f.ok = TRUE => p = Ok(x \o Structural(f.val))
  BY <1>3 DEF RegionIs
<1>5. /\ ~(k < e.chunks) => r.ok = FALSE
      /\ (k < e.chunks /\ h.ok = FALSE) => r.ok = FALSE
      /\ (k < e.chunks /\ h.ok = TRUE) => r = Ok(y \o Structural(h.val))
  BY <1>1 DEF RegionIs
<1>6. /\ B \in Seq(Nat) /\ Len(B) = b - a /\ q \in Origins /\ sc \in Configs
      /\ sc.chunks = c.chunks - k /\ sc.min = c.min /\ sc.max = c.max
      /\ Fits(Len(B), q, sc)
  <2>. HIDE DEF k
  <2>1. SubFits(B, q, sc, a, b, c, k)
    BY <1>1, <1>3, SubCallFits
  <2>. HIDE DEF B, q, sc
  <2>. QED BY <2>1 DEF SubFits
<1>7. k < e.chunks => /\ se \in Configs
                      /\ se.chunks = e.chunks - k /\ se.min = e.min /\ se.max = e.max
                      /\ Fits(Len(B), q, se)
  <2>. HIDE DEF k
  <2>1. k < e.chunks => SubFits(B, q, se, a, b, e, k)
    BY <1>1, SubCallFits
  <2>. HIDE DEF B, q, se
  <2>. QED BY <2>1 DEF SubFits
<1>. HIDE DEF B, q, sc, se
<1>8. f \in Results /\ (k < e.chunks => h \in Results)
  BY <1>6, <1>7, FastCdcIs
<1>9. CdcTiled(B, q, sc, f)
  BY <1>6, FastCdcTiles
<1>10. k < e.chunks /\ f.ok = TRUE => SameCount(f, h, se.chunks)
  <2>. SUFFICES ASSUME k < e.chunks, f.ok = TRUE PROVE SameCount(f, h, se.chunks)
    OBVIOUS
  <2>1. Alike(sc, se)
    BY <1>1, <1>6, <1>7 DEF Alike
  <2>. HIDE DEF k
  <2>. QED BY <1>6, <1>7, <2>1, FastCdcCount
<1>. HIDE DEF f, h
<1>11. f.ok = TRUE
  BY <1>4, <1>8, ResultCases
<1>. DEFINE i == Len(f.val)
            j == Len(h.val)
<1>12. i \in Nat /\ i > 0 /\ Len(p.val) = k + i
  <2>1. CutUpTo(B, q, sc, f.val, Len(B))
    BY <1>9, <1>11 DEF CdcTiled
  <2>2. Tiles(f.val, q, Len(B)) /\ f.val \in Seq(Drafts) /\ Len(B) # 0
    BY <1>1, <1>6, <2>1 DEF CutUpTo, Tiles
  <2>. DEFINE z == f.val
  <2>. HIDE DEF z
  <2>3. z # <<>> /\ z \in Seq(Drafts)
    BY <1>6, <2>2, TilesCount DEF z
  <2>4. Len(z) \in Nat /\ Len(z) > 0
    <3>. HIDE DEF Drafts
    <3>. QED BY <2>3
  <2>5. Structural(z) \in Seq(Drafts) /\ Len(Structural(z)) = Len(z)
    BY <2>3, RelabelIs
  <2>6. Len(x \o Structural(z)) = k + Len(z)
    <3>. DEFINE v == Structural(z)
    <3>. HIDE DEF v
    <3>1. Len(x \o v) = Len(x) + Len(v)
      BY <1>1, <2>5, JoinIs DEF v
    <3>. QED BY <2>5, <3>1 DEF v
  <2>7. p.val = x \o Structural(z)
    BY <1>4, <1>11, OkIs DEF z
  <2>. QED BY <2>4, <2>6, <2>7 DEF z
<1>13. k < e.chunks /\ h.ok = TRUE => j \in Nat /\ r.ok = TRUE /\ Len(r.val) = k + j
  <2>. SUFFICES ASSUME k < e.chunks, h.ok = TRUE
                PROVE  j \in Nat /\ r.ok = TRUE /\ Len(r.val) = k + j
    OBVIOUS
  <2>. DEFINE z == h.val
  <2>1. z \in Seq(Drafts)
    BY <1>8, ResultCases
  <2>. HIDE DEF z
  <2>2. Structural(z) \in Seq(Drafts) /\ Len(Structural(z)) = Len(z)
    BY <2>1, RelabelIs
  <2>3. Len(y \o Structural(z)) = k + Len(z)
    <3>. DEFINE v == Structural(z)
    <3>. HIDE DEF v
    <3>1. Len(y \o v) = Len(y) + Len(v)
      BY <1>1, <2>2, JoinIs DEF v
    <3>. QED BY <1>1, <2>2, <3>1 DEF v
  <2>4. r.ok = TRUE /\ r.val = y \o Structural(z)
    BY <1>5, OkIs DEF z
  <2>. QED BY <2>1, <2>3, <2>4 DEF z
<1>14. k < e.chunks => h.ok = TRUE \/ h.ok = FALSE
  BY <1>8, ResultCases
<1>15. k < e.chunks => (k + i <= e.chunks => h.ok = TRUE) /\ (h.ok = TRUE => j = i)
  <2>. SUFFICES ASSUME k < e.chunks
                PROVE  (k + i <= e.chunks => h.ok = TRUE) /\ (h.ok = TRUE => j = i)
    OBVIOUS
  <2>1. (i <= se.chunks => h.ok = TRUE) /\ (h.ok = TRUE => j = i)
    BY <1>10, <1>11 DEF SameCount
  <2>2. k + i <= e.chunks => i <= se.chunks
    <3>. DEFINE w == e.chunks
    <3>1. w \in Nat /\ se.chunks = w - k /\ i \in Nat /\ k \in Nat
      BY <1>1, <1>2, <1>7, <1>12
    <3>. HIDE DEF w, k, i
    <3>2. k + i <= w => i <= se.chunks
      BY <3>1
    <3>. QED BY <3>2 DEF w
  <2>. QED BY <2>1, <2>2
<1>16. k + i <= e.chunks => k < e.chunks
  <2>. DEFINE w == e.chunks
  <2>1. w \in Nat /\ i \in Nat /\ i > 0 /\ k \in Nat
    BY <1>1, <1>2, <1>12
  <2>. HIDE DEF w, k, i
  <2>2. k + i <= w => k < w
    BY <2>1
  <2>. QED BY <2>2 DEF w
<1>17. r.ok = TRUE => k < e.chunks /\ h.ok = TRUE
  BY <1>5, <1>14
<1>18. k < k + i
  BY <1>1, <1>12
<1>. HIDE DEF i, j, k
<1>19. k + i <= e.chunks => r.ok = TRUE
  BY <1>13, <1>15, <1>16
<1>20. r.ok = TRUE => Len(r.val) = k + i
  BY <1>13, <1>15, <1>17
<1>21. SameCount(p, r, e.chunks)
  BY <1>12, <1>19, <1>20 DEF SameCount
<1>. QED BY <1>12, <1>18, <1>21 DEF k

\* Any region.
LEMMA RegionCount ==
    ASSUME NEW D, NEW a, NEW b, NEW o, NEW c, NEW e, NEW x, NEW y,
           SameRegion(D, a, b, o, c, e, x, y),
           NEW p, RegionIs(p, x, D, a, b, o, c), p.ok = TRUE,
           NEW r, RegionIs(r, y, D, a, b, o, e)
    PROVE  SameCount(p, r, e.chunks) /\ Len(x) < Len(p.val)
<1>1. WholeRegion(b - a, c) <=> WholeRegion(b - a, e)
  BY DEF SameRegion, Alike, WholeRegion
<1>2. CASE WholeRegion(b - a, c)
  <2>1. /\ p = PushRelativeChunk(x, o, a, b - a, "Structural", c.chunks)
        /\ r = PushRelativeChunk(y, o, a, b - a, "Structural", e.chunks)
    BY <1>1, <1>2, Zenon DEF RegionIs
  <2>. QED BY <2>1, WholeRegionCount
<1>3. CASE ~WholeRegion(b - a, c)
  BY <1>1, <1>3, CutRegionCount
<1>. QED BY <1>2, <1>3

\* A list of numbers that grow.
LEMMA Grows ==
    ASSUME NEW m \in Nat, NEW f \in [0 .. m -> Nat], \A i \in 1 .. m : f[i - 1] < f[i],
           NEW i \in 0 .. m
    PROVE  i <= f[i] /\ f[i] <= f[m]
<1>. DEFINE S == {j \in 0 .. m : j <= f[j]}
            T == {j \in 0 .. m : f[m - j] <= f[m]}
<1>1. 0 .. m \subseteq S
  <2>1. 0 \in S
    OBVIOUS
  <2>2. ASSUME NEW j \in 1 .. m, j - 1 \in S PROVE j \in S
    <3>1. j \in 0 .. m /\ j - 1 \in 0 .. m /\ f[j - 1] < f[j] /\ j - 1 <= f[j - 1]
      BY <2>2
    <3>2. f[j] \in Nat /\ f[j - 1] \in Nat
      BY <3>1
    <3>. QED BY <3>1, <3>2
  <2>. HIDE DEF S
  <2>. QED BY <2>1, <2>2, UpTo
<1>2. 0 .. m \subseteq T
  <2>1. 0 \in T
    <3>1. m - 0 = m /\ m \in 0 .. m
      OBVIOUS
    <3>2. f[m] \in Nat
      BY <3>1
    <3>. QED BY <3>1, <3>2
  <2>2. ASSUME NEW j \in 1 .. m, j - 1 \in T PROVE j \in T
    <3>. DEFINE x == m - j
    <3>1. /\ j \in 0 .. m /\ x \in 0 .. m /\ x + 1 \in 1 .. m /\ x + 1 \in 0 .. m /\ m \in 0 .. m
          /\ m - (j - 1) = x + 1 /\ (x + 1) - 1 = x
      BY <2>2
    <3>2. f[x + 1] <= f[m]
      BY <2>2, <3>1
    <3>. HIDE DEF x
    <3>3. f[x] < f[x + 1]
      BY <3>1
    <3>4. f[x] \in Nat /\ f[x + 1] \in Nat /\ f[m] \in Nat
      BY <3>1
    <3>5. f[x] <= f[m]
      BY <3>2, <3>3, <3>4
    <3>. QED BY <3>1, <3>5 DEF x
  <2>. HIDE DEF T
  <2>. QED BY <2>1, <2>2, UpTo
<1>3. i \in S
  <2>. HIDE DEF S
  <2>. QED BY <1>1
<1>4. m - i \in T /\ m - (m - i) = i
  <2>. HIDE DEF T
  <2>1. m - i \in 0 .. m /\ m - (m - i) = i
    OBVIOUS
  <2>. QED BY <1>2, <2>1
<1>. QED BY <1>3, <1>4

\* chunk_structural answers what its last region leaves.
LEMMA StructuralFollows ==
    ASSUME NEW D \in Seq(Nat), NEW ends \in Seq(Nat), NEW o \in Origins, NEW c \in Configs,
           Admits(D, ends, o, c), D # <<>>, EndsOk(ends, Len(D)),
           NEW G, RegionsTrace(D, ends, o, c, G), NEW r, r = ChunkStructural(D, ends, o, c)
    PROVE  LET g == G[Len(ends)]
           IN  /\ g.ok = TRUE \/ g.ok = FALSE
               /\ g.ok = TRUE => r.ok = TRUE /\ r.val = g.val
               /\ g.ok = FALSE => r.ok = FALSE
<1>. DEFINE g == G[Len(ends)]
            n == Len(D)
            list == g.val
            v == ValidateChunkCoverage(list, o, n)
<1>0. n \in Nat
  OBVIOUS
<1>1. Fits(n, o, c) /\ o.base + n <= OffsetMax
  BY DEF Admits, Fits
<1>2. RegionDone(D, ends, o, c, g, n)
  BY <1>1, RegionsTraceTiles
<1>3. g = AllRegions(D, ends, o, c) /\ g \in Results
  <2>1. Len(ends) \in 0 .. Len(ends)
    OBVIOUS
  <2>. QED BY <2>1 DEF RegionsTrace
<1>4. r = IF g.ok THEN v ELSE g
  <2>1. r = StructuralResult(D, ends, o, c)
    BY StructuralIs
  <2>. QED BY <1>3, <2>1 DEF StructuralResult
<1>. HIDE DEF g
<1>5. g.ok = TRUE \/ g.ok = FALSE
  BY <1>3, ResultCases
<1>6. ASSUME g.ok = TRUE PROVE r.ok = TRUE /\ r.val = list
  <2>1. SplitUpTo(D, ends, o, c, list, n)
    BY <1>2, <1>6 DEF RegionDone
  <2>2. Tiles(list, o, n) /\ list \in Seq(Drafts)
    BY <2>1 DEF SplitUpTo, Tiles
  <2>3. r = v
    BY <1>4, <1>6
  <2>. HIDE DEF list
  <2>4. v.ok = TRUE
    BY <1>1, <2>2, TilesValid
  <2>5. v = Ok(list)
    BY <1>0, <2>2, <2>4, ValidateIs
  <2>. HIDE DEF v
  <2>. QED BY <2>3, <2>4, <2>5, OkIs
<1>7. g.ok = FALSE => r.ok = FALSE
  BY <1>4
<1>. QED BY <1>5, <1>6, <1>7 DEF g

\* The lists of a trace that was not refused grow with every region.
LEMMA TraceGrows ==
    ASSUME NEW D \in Seq(Nat), NEW ends, EndsOk(ends, Len(D)), NEW o \in Origins,
           NEW c \in Configs, Fits(Len(D), o, c), NEW G, RegionsTrace(D, ends, o, c, G),
           G[Len(ends)].ok = TRUE
    PROVE  /\ \A i \in 0 .. Len(ends) : /\ G[i].ok = TRUE /\ G[i].val \in Seq(Drafts)
                                        /\ i <= Len(G[i].val)
                                        /\ Len(G[i].val) <= Len(G[Len(ends)].val)
<1>. DEFINE m == Len(ends)
            f == [i \in 0 .. m |-> Len(G[i].val)]
<1>1. m \in Nat
  BY DEF EndsOk
<1>2. /\ G \in [0 .. m -> Results]
      /\ \A i \in 1 .. m : NextRegion(G[i], G[i - 1], i, D, ends, o, c)
  BY DEF RegionsTrace
<1>3. \A i \in 0 .. m : G[i].ok = TRUE /\ G[i].val \in Seq(Drafts)
  <2>. SUFFICES ASSUME NEW i \in 0 .. m PROVE G[i].ok = TRUE /\ G[i].val \in Seq(Drafts)
    OBVIOUS
  <2>1. G[i].ok # FALSE
    BY <1>1, RegionErrorsStay
  <2>2. G[i] \in Results
    BY <1>2
  <2>. QED BY <2>1, <2>2, ResultCases
<1>4. ASSUME NEW i \in 1 .. m PROVE Len(G[i - 1].val) < Len(G[i].val)
  <2>. DEFINE a == RegionStart(ends, i)
              b == ends[i]
              x == G[i - 1].val
              p == G[i]
  <2>1. i \in 0 .. m /\ i - 1 \in 0 .. m
    BY <1>1
  <2>2. x \in Seq(Drafts) /\ p.ok = TRUE /\ G[i - 1].ok = TRUE
    BY <1>3, <2>1
  <2>3. RegionIs(p, x, D, a, b, o, c)
    BY <1>2, <2>2 DEF NextRegion
  <2>4. a \in Nat /\ b \in Nat /\ a < b /\ b <= Len(D)
    BY DEF EndsOk
  <2>. HIDE DEF a, b, x, p
  <2>5. SameRegion(D, a, b, o, c, c, x, x)
    BY <2>2, <2>4 DEF SameRegion, Alike
  <2>6. Len(x) < Len(p.val)
    BY <2>2, <2>3, <2>5, RegionCount
  <2>. QED BY <2>6 DEF x, p
<1>. HIDE DEF m
<1>5. f \in [0 .. m -> Nat]
  <2>1. \A i \in 0 .. m : Len(G[i].val) \in Nat
    BY <1>3
  <2>. QED BY <2>1
<1>6. \A i \in 1 .. m : f[i - 1] < f[i]
  <2>1. \A i \in 1 .. m : i \in 0 .. m /\ i - 1 \in 0 .. m
    BY <1>1
  <2>2. \A i \in 1 .. m : f[i] = Len(G[i].val) /\ f[i - 1] = Len(G[i - 1].val)
    BY <2>1
  <2>. QED BY <1>4, <2>2
<1>7. \A i \in 0 .. m : f[i] = Len(G[i].val)
  OBVIOUS
<1>8. m \in 0 .. m
  BY <1>1
<1>. HIDE DEF f
<1>9. \A i \in 0 .. m : i <= f[i] /\ f[i] <= f[m]
  BY <1>1, <1>5, <1>6, Grows
<1>10. \A i \in 0 .. m : i <= Len(G[i].val) /\ Len(G[i].val) <= Len(G[m].val)
  BY <1>7, <1>8, <1>9
<1>. QED BY <1>3, <1>10 DEF m

\* The list of a result keeps a limit.
Keeps(p, limit) == Len(p.val) <= limit

\* chunk_structural: where it succeeds, it succeeds under every limit its chunks keep.
LEMMA StructuralCount ==
    ASSUME NEW D \in Seq(Nat), NEW ends \in Seq(Nat), NEW o \in Origins, NEW c \in Configs,
           NEW e \in Configs, Alike(c, e), Admits(D, ends, o, c), Fits(Len(D), o, e),
           NEW p, p = ChunkStructural(D, ends, o, c), p.ok = TRUE,
           NEW r, r = ChunkStructural(D, ends, o, e), Keeps(p, e.chunks)
    PROVE  r.ok = TRUE
<1>. DEFINE m == Len(ends)
            n == Len(D)
<1>0. n \in Nat /\ m \in Nat /\ e.chunks \in Nat
  <2>1. e.chunks \in Nat
    BY Zenon DEF Configs
  <2>. QED BY <2>1
<1>1. CASE D = <<>>
  <2>1. Admits(D, ends, o, e)
    BY <1>1 DEF Admits
  <2>2. r = Ok(<<>>)
    BY <1>1, <2>1, StructuralIs
  <2>. QED BY <2>2, OkIs
<1>2. CASE D # <<>>
  <2>1. BoundaryEndsValid(ends, n) /\ Fits(n, o, c)
    BY <1>2 DEF Admits
  <2>2. EndsOk(ends, n)
    BY <1>0, <2>1, EndsAreOk
  <2>3. PICK G : RegionsTrace(D, ends, o, c, G)
    BY <2>2, RegionsTraceExists
  <2>4. PICK H : RegionsTrace(D, ends, o, e, H)
    BY <2>2, RegionsTraceExists
  <2>5. G[m].ok = TRUE /\ p.val = G[m].val
    BY <1>2, <2>2, <2>3, StructuralFollows, ZenonT(60)
  <2>6. \A i \in 0 .. m : /\ G[i].ok = TRUE /\ G[i].val \in Seq(Drafts)
                          /\ i <= Len(G[i].val) /\ Len(G[i].val) <= Len(G[m].val)
    BY <2>1, <2>2, <2>3, <2>5, TraceGrows
  <2>7. Len(G[m].val) <= e.chunks /\ \A i \in 0 .. m : Len(G[i].val) \in Nat
    BY <2>5, <2>6 DEF Keeps
  <2>8. \A i \in 0 .. m : Len(G[i].val) <= e.chunks
    <3>. SUFFICES ASSUME NEW i \in 0 .. m PROVE Len(G[i].val) <= e.chunks
      OBVIOUS
    <3>. DEFINE u == Len(G[i].val)
                v == Len(G[m].val)
                w == e.chunks
    <3>1. u \in Nat /\ v \in Nat /\ w \in Nat /\ u <= v /\ v <= w
      BY <1>0, <2>6, <2>7
    <3>. HIDE DEF u, v, w
    <3>2. u <= w
      BY <3>1
    <3>. QED BY <3>2 DEF u, w
  <2>9. Admits(D, ends, o, e)
    <3>1. m <= e.chunks
      <4>1. m <= Len(G[m].val) /\ Len(G[m].val) \in Nat
        BY <1>0, <2>6, <2>7
      <4>. QED BY <1>0, <2>7, <4>1
    <3>. QED BY <1>2, <2>1, <3>1 DEF Admits
  <2>10. /\ H \in [0 .. m -> Results] /\ H[0] = Ok(<<>>)
         /\ \A i \in 1 .. m : NextRegion(H[i], H[i - 1], i, D, ends, o, e)
    BY <2>4 DEF RegionsTrace
  <2>11. /\ G[0] = Ok(<<>>)
         /\ \A i \in 1 .. m : NextRegion(G[i], G[i - 1], i, D, ends, o, c)
    BY <2>3 DEF RegionsTrace
  <2>. DEFINE S == {i \in 0 .. m : H[i].ok = TRUE /\ Len(H[i].val) = Len(G[i].val)}
  <2>12. 0 \in S
    <3>1. H[0].ok = TRUE /\ H[0].val = <<>> /\ G[0].val = <<>>
      BY <2>10, <2>11, OkIs
    <3>. QED BY <1>0, <3>1
  <2>13. ASSUME NEW i \in 1 .. m, i - 1 \in S PROVE i \in S
    <3>. DEFINE a == RegionStart(ends, i)
                b == ends[i]
                x == G[i - 1].val
                y == H[i - 1].val
                s == G[i]
                t == H[i]
    <3>1. i \in 0 .. m /\ i - 1 \in 0 .. m
      BY <1>0
    <3>2. /\ H[i - 1].ok = TRUE /\ Len(y) = Len(x)
          /\ G[i - 1].ok = TRUE /\ x \in Seq(Drafts) /\ s.ok = TRUE /\ Len(s.val) <= e.chunks
      BY <2>6, <2>8, <2>13, <3>1
    <3>3. y \in Seq(Drafts)
      <4>1. H[i - 1] \in Results
        BY <2>10, <3>1
      <4>. QED BY <3>2, <4>1, ResultCases
    <3>4. RegionIs(s, x, D, a, b, o, c)
      BY <2>11, <3>2 DEF NextRegion
    <3>5. RegionIs(t, y, D, a, b, o, e)
      BY <2>10, <3>2 DEF NextRegion
    <3>6. a \in Nat /\ b \in Nat /\ a < b /\ b <= Len(D)
      BY <2>2 DEF EndsOk
    <3>. HIDE DEF a, b, x, y, s, t
    <3>7. SameRegion(D, a, b, o, c, e, x, y)
      BY <2>1, <3>2, <3>3, <3>6 DEF SameRegion
    <3>8. SameCount(s, t, e.chunks)
      BY <3>2, <3>4, <3>5, <3>7, RegionCount
    <3>9. t.ok = TRUE /\ Len(t.val) = Len(s.val)
      BY <3>2, <3>8 DEF SameCount
    <3>. QED BY <3>1, <3>9 DEF s, t
  <2>14. 0 .. m \subseteq S
    <3>. HIDE DEF S
    <3>. QED BY <1>0, <2>12, <2>13, UpTo
  <2>15. m \in S
    <3>. HIDE DEF S
    <3>. QED BY <1>0, <2>14
  <2>16. H[m].ok = TRUE
    BY <2>15
  <2>. QED BY <1>2, <2>2, <2>4, <2>9, <2>16, StructuralFollows
<1>. QED BY <1>1, <1>2

-----------------------------------------------------------------------------
(* Fixed blocks.                                                           *)

\* Multiples grow.
LEMMA TimesMonotone ==
    ASSUME NEW f \in Nat, NEW i \in Nat, NEW q \in Nat, i <= q
    PROVE  i * f <= q * f /\ i * f \in Nat /\ q * f \in Nat /\ (i + 1) * f = i * f + f
<1>1. q - i \in Nat /\ (q - i) * f \in Nat
  OBVIOUS
<1>2. q * f = i * f + (q - i) * f
  OBVIOUS
<1>3. i * f \in Nat /\ q * f \in Nat /\ (i + 1) * f = i * f + f
  OBVIOUS
<1>. QED BY <1>1, <1>2, <1>3

\* How often a block fits.
LEMMA BlocksFit ==
    ASSUME NEW n \in Nat, n > 0, NEW f \in Nat, f > 0
    PROVE  LET q == (n - 1) \div f
           IN  q \in Nat /\ q * f < n /\ n <= q * f + f
<1>1. n - 1 \in Nat
  OBVIOUS
<1>2. (n - 1) \div f \in Nat
  BY <1>1
<1>3. n - 1 = f * ((n - 1) \div f) + ((n - 1) % f) /\ (n - 1) % f \in 0 .. f - 1
  BY <1>1
<1>. QED BY <1>1, <1>2, <1>3

\* The lengths of the blocks: all the same, and what is left for the last.
BlockLengths(L, n, f, q) ==
    /\ L \in Seq(Nat) /\ Len(L) = q + 1
    /\ \A i \in 1 .. q : L[i] = f
    /\ L[q + 1] = n - q * f

\* FixedLengths is that list.
LEMMA FixedLengthsAre ==
    ASSUME NEW n \in Nat, n > 0, NEW c \in Configs, c.fixed > 0,
           NEW q, q = (n - 1) \div c.fixed
    PROVE  BlockLengths(FixedLengths(n, c), n, c.fixed, q)
<1>. DEFINE f == c.fixed
            L == FixedLengths(n, c)
            x(i) == n - (i - 1) * f
<1>1. f \in Nat /\ f > 0
  BY DEF Configs
<1>2. q \in Nat /\ q * f < n /\ n <= q * f + f
  <2>. HIDE DEF f
  <2>1. q = (n - 1) \div f
    BY DEF f
  <2>. QED BY <1>1, <2>1, BlocksFit
<1>3. L = [i \in 1 .. (q + 1) |-> Min({x(i), f})]
  BY DEF FixedLengths, FixedCount
<1>. HIDE DEF f, L
<1>4. ASSUME NEW i \in 1 .. (q + 1)
      PROVE  x(i) \in Nat /\ Min({x(i), f}) = IF x(i) <= f THEN x(i) ELSE f
  <2>1. i - 1 \in Nat /\ i - 1 <= q
    BY <1>2
  <2>2. (i - 1) * f <= q * f /\ (i - 1) * f \in Nat /\ q * f \in Nat
    BY <1>1, <1>2, <2>1, TimesMonotone
  <2>. DEFINE u == (i - 1) * f
              v == q * f
              w == n - u
  <2>3. w \in Nat
    <3>. HIDE DEF u, v
    <3>1. u <= v /\ u \in Nat /\ v \in Nat /\ v < n
      BY <1>2, <2>2 DEF u, v
    <3>. QED BY <3>1
  <2>. HIDE DEF w
  <2>4. Min({w, f}) = IF w <= f THEN w ELSE f
    BY <1>1, <2>3, MinTwo
  <2>. QED BY <2>3, <2>4 DEF w
<1>5. ASSUME NEW i \in 1 .. q PROVE Min({x(i), f}) = f
  <2>1. i - 1 \in Nat /\ i - 1 <= q /\ i \in Nat /\ i <= q /\ i \in 1 .. (q + 1) /\ (i - 1) + 1 = i
    BY <1>2
  <2>2. i * f <= q * f /\ i * f \in Nat /\ q * f \in Nat
    BY <1>1, <1>2, <2>1, TimesMonotone
  <2>3. ((i - 1) + 1) * f = (i - 1) * f + f /\ (i - 1) * f \in Nat
    BY <1>1, <1>2, <2>1, TimesMonotone
  <2>. DEFINE u == (i - 1) * f
              t == i * f
              v == q * f
  <2>4. t = u + f /\ t <= v /\ v < n /\ u \in Nat /\ t \in Nat /\ v \in Nat
    BY <1>2, <2>1, <2>2, <2>3
  <2>. HIDE DEF u, t, v
  <2>5. n - u >= f
    BY <1>1, <2>4
  <2>6. x(i) >= f
    BY <2>5 DEF u
  <2>7. x(i) \in Nat /\ Min({x(i), f}) = IF x(i) <= f THEN x(i) ELSE f
    BY <1>4, <2>1
  <2>. DEFINE y == x(i)
  <2>. HIDE DEF x
  <2>8. y \in Nat /\ y >= f /\ Min({y, f}) = IF y <= f THEN y ELSE f
    BY <2>6, <2>7
  <2>. HIDE DEF y
  <2>9. Min({y, f}) = f
    BY <1>1, <2>8
  <2>. QED BY <2>9 DEF y
<1>6. Min({x(q + 1), f}) = n - q * f
  <2>1. q + 1 \in 1 .. (q + 1) /\ (q + 1) - 1 = q
    BY <1>2
  <2>2. x(q + 1) = n - q * f
    BY <2>1
  <2>3. x(q + 1) \in Nat /\ Min({x(q + 1), f}) = IF x(q + 1) <= f THEN x(q + 1) ELSE f
    BY <1>4, <2>1
  <2>. DEFINE v == q * f
              y == x(q + 1)
  <2>4. y = n - v /\ n <= v + f /\ v \in Int /\ Min({y, f}) = IF y <= f THEN y ELSE f
    BY <1>1, <1>2, <2>2, <2>3
  <2>. HIDE DEF v, y
  <2>5. Min({y, f}) = n - v
    BY <1>1, <2>4
  <2>. QED BY <2>5 DEF v, y
<1>. DEFINE M(i) == Min({x(i), f})
<1>7. \A i \in 1 .. (q + 1) : M(i) \in Nat
  <2>. TAKE i \in 1 .. (q + 1)
  <2>. DEFINE y == x(i)
  <2>1. y \in Nat /\ Min({y, f}) = IF y <= f THEN y ELSE f
    BY <1>4
  <2>. HIDE DEF y
  <2>2. Min({y, f}) \in Nat
    BY <1>1, <2>1
  <2>. QED BY <2>2 DEF y
<1>8. (\A i \in 1 .. q : M(i) = f) /\ M(q + 1) = n - q * f /\ L = [i \in 1 .. (q + 1) |-> M(i)]
  BY <1>3, <1>5, <1>6
<1>. HIDE DEF M
<1>9. L \in [1 .. (q + 1) -> Nat] /\ q + 1 \in Nat
  BY <1>2, <1>7, <1>8
<1>10. L \in Seq(Nat) /\ Len(L) = q + 1
  BY <1>9
<1>11. \A i \in 1 .. q : i \in 1 .. (q + 1)
  BY <1>2
<1>12. q + 1 \in 1 .. (q + 1)
  BY <1>2
<1>. QED BY <1>8, <1>10, <1>11, <1>12 DEF BlockLengths, L, f

\* Fixed blocks up to x, of an object of n bytes.
FixedUpTo(o, c, list, x, n) ==
    /\ Tiles(list, o, x) /\ Len(list) <= c.chunks
    /\ \A i \in 1 .. Len(list) :
          list[i].len = c.fixed \/ (list[i].offset - o.base) + list[i].len = n

\* What a push of the block at x answers.
FixedMore(o, c, list, x, len, n, r) ==
    /\ r.ok = TRUE => FixedUpTo(o, c, r.val, x + len, n) /\ Len(r.val) = Len(list) + 1
    /\ (o.base + n <= OffsetMax /\ Len(list) + 1 <= c.chunks) => r.ok = TRUE

\* One block more.
LEMMA FixedOnce ==
    ASSUME NEW n \in Nat, NEW o \in Origins, NEW c \in Configs, NEW x \in Nat, NEW len \in Nat,
           len > 0, x + len <= n, len = c.fixed \/ x + len = n,
           NEW list, FixedUpTo(o, c, list, x, n),
           NEW r, r = PushRelativeChunk(list, o, x, len, "Fixed", c.chunks)
    PROVE  FixedMore(o, c, list, x, len, n, r)
<1>. DEFINE w == c.chunks
            b == o.base
<1>1. w \in Nat /\ b \in Nat
  BY DEF Configs, Origins
<1>3. Tiles(list, o, x) /\ Len(list) <= w /\ list \in Seq(Drafts)
  BY DEF FixedUpTo, Tiles
<1>4. Len(list) <= x /\ Len(list) \in Nat
  BY <1>3, TilesCount
<1>5. PICK method \in Methods : method = "Fixed"
  BY DEF Methods
<1>. DEFINE y == Append(list, Draft(o, x, len, method))
            fits == Len(list) + 1 <= w /\ len # 0 /\ b + x + len <= OffsetMax
<1>7. r = PushRelativeChunk(list, o, x, len, method, c.chunks)
  BY <1>5
<1>8. (fits => r.ok = TRUE /\ r.val = y) /\ (~fits => r.ok = FALSE)
  <2>1. PushIs(PushRelativeChunk(list, o, x, len, method, w), list, o, x, len, method, w)
    <3>. HIDE DEF w, y, fits, b
    <3>. QED BY <1>1, <1>3, PushAnswers
  <2>2. PushIs(r, list, o, x, len, method, w)
    BY <1>7, <2>1
  <2>3. (fits => r = Ok(y)) /\ (~fits => r.ok = FALSE)
    BY <2>2, Zenon DEF PushIs
  <2>. HIDE DEF y, fits
  <2>. QED BY <2>3, OkIs
<1>9. Tiles(y, o, x + len)
  BY <1>3, TilesAppend
<1>10. ASSUME fits PROVE FixedUpTo(o, c, y, x + len, n) /\ Len(y) = Len(list) + 1
  <2>. DEFINE d == Draft(o, x, len, method)
  <2>1. d \in Drafts /\ d.offset = o.base + x /\ d.len = len
    BY DraftIs
  <2>. HIDE DEF d
  <2>2. /\ Len(y) = Len(list) + 1 /\ y[Len(list) + 1] = d
        /\ \A i \in 1 .. Len(list) : y[i] = list[i]
    <3>. HIDE DEF Drafts
    <3>. QED BY <1>3, <2>1 DEF d
  <2>. HIDE DEF y
  <2>3. ASSUME NEW i \in 1 .. Len(y)
        PROVE  y[i].len = c.fixed \/ (y[i].offset - o.base) + y[i].len = n
    <3>1. CASE i \in 1 .. Len(list)
      BY <2>2, <3>1 DEF FixedUpTo
    <3>2. CASE i = Len(list) + 1
      <4>1. y[i].len = len /\ y[i].offset - o.base = x
        BY <1>1, <2>1, <2>2, <3>2
      <4>. QED BY <4>1
    <3>. QED BY <1>4, <2>2, <3>1, <3>2
  <2>. QED BY <1>9, <1>10, <2>2, <2>3 DEF FixedUpTo
<1>11. (b + n <= OffsetMax /\ Len(list) + 1 <= w) => fits
  <2>1. OffsetMax \in Nat
    BY OffsetIsNat
  <2>. HIDE DEF b
  <2>2. b + n <= OffsetMax => len # 0 /\ b + x + len <= OffsetMax
    BY <1>1, <2>1
  <2>. QED BY <2>2
<1>. HIDE DEF y, fits
<1>12. r.ok = TRUE => FixedUpTo(o, c, r.val, x + len, n) /\ Len(r.val) = Len(list) + 1
  BY <1>8, <1>10
<1>. QED BY <1>8, <1>11, <1>12 DEF FixedMore

\* All blocks.
FixedAll(n, o, c) == PushAll(FixedLengths(n, c), o, "Fixed", c.chunks)

\* They are pushed one after the other.
LEMMA FixedBlocks ==
    ASSUME NEW n \in Nat, n > 0, NEW o \in Origins, NEW c \in Configs, c.fixed > 0
    PROVE  LET all == FixedAll(n, o, c)
           IN  /\ all \in Results
               /\ all.ok = TRUE => FixedUpTo(o, c, all.val, n, n) /\ Len(all.val) = FixedCount(n, c)
               /\ (o.base + n <= OffsetMax /\ FixedCount(n, c) <= c.chunks) => all.ok = TRUE
<1>. DEFINE all == FixedAll(n, o, c)
            L == FixedLengths(n, c)
            f == c.fixed
            q == (n - 1) \div f
            m == q + 1
            room == o.base + n <= OffsetMax /\ m <= c.chunks
<1>1. f \in Nat /\ f > 0 /\ c.chunks \in Nat
  BY DEF Configs
<1>2. q \in Nat /\ q * f < n /\ n <= q * f + f
  <2>. HIDE DEF f
  <2>. QED BY <1>1, BlocksFit
<1>3. BlockLengths(L, n, f, q)
  BY FixedLengthsAre
<1>0. FixedCount(n, c) = m
  BY DEF FixedCount
<1>. HIDE DEF L, f, q
<1>4. /\ L \in Seq(Nat) /\ Len(L) = m /\ (\A i \in 1 .. q : L[i] = f) /\ L[m] = n - q * f
      /\ m \in Nat
  BY <1>2, <1>3 DEF BlockLengths
<1>5. PICK method \in Methods : method = "Fixed"
  BY DEF Methods
<1>6. PICK g : PushChain(L, o, method, c.chunks, g)
  BY <1>4, PushSteps
<1>7. /\ g \in [0 .. m -> PushStates]
      /\ g[0] = [rel |-> 0, out |-> Ok(<<>>)]
      /\ g[m].out = all
      /\ \A i \in 1 .. m : g[i] = PushStep(g[i - 1], L[i], o, method, c.chunks)
  BY <1>4, <1>5, <1>6 DEF PushChain, FixedAll, L
<1>. DEFINE at(i) == IF i <= q THEN i * f ELSE n
            Good(i) == /\ g[i].rel = at(i)
                       /\ g[i].out.ok = TRUE => /\ FixedUpTo(o, c, g[i].out.val, at(i), n)
                                                /\ Len(g[i].out.val) = i
                       /\ room => g[i].out.ok = TRUE
            S == {i \in 0 .. m : Good(i)}
<1>. HIDE DEF all
<1>8. 0 \in S
  <2>1. g[0].rel = 0 /\ g[0].out = Ok(<<>>) /\ at(0) = 0
    BY <1>1, <1>2, <1>7
  <2>. DEFINE l == <<>>
  <2>2. Len(l) = 0 /\ Tiles(l, o, 0)
    BY NoChunks
  <2>3. g[0].out.ok = TRUE /\ g[0].out.val = l
    BY <2>1, OkIs
  <2>. HIDE DEF l
  <2>4. FixedUpTo(o, c, l, 0, n)
    BY <1>1, <2>2 DEF FixedUpTo
  <2>5. Good(0)
    BY <2>1, <2>2, <2>3, <2>4
  <2>. HIDE DEF Good
  <2>. QED BY <1>4, <2>5
<1>9. ASSUME NEW i \in 1 .. m, i - 1 \in S PROVE i \in S
  <2>0. i \in 0 .. m /\ i - 1 \in 0 .. m /\ i - 1 \in Nat /\ i - 1 <= q /\ i \in Nat
    BY <1>2, <1>4
  <2>. DEFINE x == at(i - 1)
              len == L[i]
              prior == g[i - 1]
              r == g[i].out
              u == (i - 1) * f
              v == q * f
  <2>1. x = u /\ u \in Nat /\ u <= v /\ v \in Nat /\ u + f = i * f
    <3>1. u <= v /\ u \in Nat /\ v \in Nat /\ ((i - 1) + 1) * f = u + f
      BY <1>1, <1>2, <2>0, TimesMonotone
    <3>2. (i - 1) + 1 = i
      BY <2>0
    <3>. QED BY <2>0, <3>1, <3>2
  <2>2. /\ len \in Nat /\ len > 0 /\ x + len = at(i) /\ x + len <= n
        /\ len = f \/ x + len = n
    <3>1. CASE i <= q
      <4>1. i \in 1 .. q /\ len = f /\ at(i) = i * f
        BY <1>4, <2>0, <3>1
      <4>2. i * f <= v /\ i * f \in Nat
        BY <1>1, <1>2, <2>0, <3>1, TimesMonotone
      <4>. DEFINE t == i * f
      <4>3. t <= v /\ t \in Nat /\ v < n /\ u + f = t /\ v \in Nat
        BY <1>2, <2>1, <4>2
      <4>. HIDE DEF t, u, v
      <4>4. t <= n
        BY <4>3
      <4>. HIDE DEF len, at
      <4>5. x + len = t
        BY <2>1, <4>1, <4>3
      <4>. QED BY <1>1, <4>1, <4>4, <4>5 DEF t
    <3>2. CASE ~(i <= q)
      <4>1. i = m /\ i - 1 = q /\ at(i) = n
        BY <1>2, <2>0, <3>2
      <4>2. len = n - v /\ u = v
        BY <1>4, <4>1
      <4>3. v < n
        BY <1>2
      <4>. HIDE DEF u, v, len, at
      <4>4. len \in Nat /\ len > 0 /\ u + len = n
        BY <2>1, <4>2, <4>3
      <4>. QED BY <2>1, <4>1, <4>4
    <3>. QED BY <3>1, <3>2
  <2>3. Good(i - 1)
    BY <1>9
  <2>4. prior \in PushStates /\ g[i] = PushStep(prior, len, o, method, c.chunks)
    BY <1>7, <2>0
  <2>5. prior.rel = x /\ prior.out \in Results
    BY <2>3, <2>4 DEF PushStates
  <2>6. Pushed(g[i], prior, len, o, method, c.chunks)
    <3>. DEFINE w == c.chunks
    <3>. HIDE DEF prior, len, w
    <3>1. Pushed(PushStep(prior, len, o, method, w), prior, len, o, method, w)
      BY <2>2, <2>4, PushStepType
    <3>. QED BY <2>4, <3>1 DEF w
  <2>7. g[i].rel = at(i)
    <3>. HIDE DEF at, len
    <3>. QED BY <2>2, <2>5, <2>6 DEF Pushed
  <2>8. CASE prior.out.ok = FALSE
    <3>1. r = prior.out /\ ~room
      BY <2>3, <2>6, <2>8 DEF Pushed
    <3>2. r.ok = FALSE
      BY <2>8, <3>1
    <3>. HIDE DEF at, room, r
    <3>3. Good(i)
      BY <2>7, <3>1, <3>2 DEF r
    <3>. HIDE DEF Good
    <3>. QED BY <2>0, <3>3
  <2>9. CASE prior.out.ok = TRUE
    <3>. DEFINE list == prior.out.val
    <3>1. r = PushRelativeChunk(list, o, x, len, "Fixed", c.chunks)
      BY <1>5, <2>5, <2>6, <2>9 DEF Pushed
    <3>2. FixedUpTo(o, c, list, x, n) /\ Len(list) = i - 1
      BY <2>3, <2>9
    <3>3. x \in Nat /\ (len = c.fixed \/ x + len = n)
      BY <2>1, <2>2 DEF f
    <3>. HIDE DEF list, r, x, len
    <3>4. /\ r.ok = TRUE => FixedUpTo(o, c, r.val, x + len, n) /\ Len(r.val) = i
          /\ room => r.ok = TRUE
      <4>1. FixedMore(o, c, list, x, len, n, r)
        BY <2>2, <3>1, <3>2, <3>3, FixedOnce
      <4>2. Len(list) + 1 = i
        BY <2>0, <3>2
      <4>3. m <= c.chunks => i <= c.chunks
        <5>. DEFINE w == c.chunks
        <5>1. i <= m /\ w \in Nat
          BY <1>1, <1>4
        <5>. HIDE DEF m, w
        <5>2. m <= w => i <= w
          BY <1>4, <2>0, <5>1
        <5>. QED BY <5>2 DEF w
      <4>. QED BY <4>1, <4>2, <4>3 DEF FixedMore
    <3>5. x + len = at(i)
      BY <2>2
    <3>. HIDE DEF at, room
    <3>6. Good(i)
      BY <2>7, <3>4, <3>5 DEF r
    <3>. HIDE DEF Good
    <3>. QED BY <2>0, <3>6
  <2>10. prior.out.ok = TRUE \/ prior.out.ok = FALSE
    BY <2>5, ResultCases
  <2>. QED BY <2>8, <2>9, <2>10
<1>10. 0 .. m \subseteq S
  <2>. HIDE DEF S
  <2>. QED BY <1>4, <1>8, <1>9, UpTo
<1>11. Good(m) /\ at(m) = n /\ g[m].out \in Results
  <2>1. m \in S
    <3>. HIDE DEF S
    <3>. QED BY <1>4, <1>10
  <2>2. ~(m <= q)
    BY <1>2
  <2>3. g[m] \in PushStates
    BY <1>4, <1>7
  <2>. QED BY <2>1, <2>2, <2>3 DEF PushStates
<1>. QED BY <1>0, <1>7, <1>11 DEF all

\* There are no more blocks than bytes.
LEMMA FixedCountIs ==
    ASSUME NEW n \in Nat, n > 0, NEW c \in Configs, c.fixed > 0
    PROVE  FixedCount(n, c) \in Nat /\ FixedCount(n, c) <= n
<1>. DEFINE f == c.fixed
            q == (n - 1) \div f
<1>1. f \in Nat /\ f > 0
  BY DEF Configs
<1>2. q \in Nat /\ q * f < n
  <2>. HIDE DEF f
  <2>. QED BY <1>1, BlocksFit
<1>3. FixedCount(n, c) = q + 1
  BY DEF FixedCount
<1>. HIDE DEF q, f
<1>4. f - 1 \in Nat /\ q * (f - 1) \in Nat /\ q * f = q * (f - 1) + q
  BY <1>1, <1>2
<1>. DEFINE u == q * (f - 1)
            v == q * f
<1>5. u \in Nat /\ v = u + q /\ v < n
  BY <1>2, <1>4
<1>. HIDE DEF u, v
<1>. QED BY <1>2, <1>3, <1>5

\* A list of one check decides by it.
LEMMA OneChecked ==
    ASSUME NEW w, NEW e, NEW y, NEW p, p = Checked(<<<<w, e>>>>, y)
    PROVE  (w => p.ok = TRUE /\ p.val = y) /\ (~w => p.ok = FALSE)
<1>. DEFINE checks == <<<<w, e>>>>
            m == 1
<1>1. DOMAIN checks = 1 .. m /\ m \in Nat
  OBVIOUS
<1>2. HoldTo(checks, m) <=> w
  <2>1. checks[1][1] = w
    BY Zenon
  <2>2. 1 .. m = {1}
    OBVIOUS
  <2>. HIDE DEF checks, m
  <2>. QED BY <2>1, <2>2, Zenon DEF HoldTo
<1>3. p = Checked(checks, y)
  OBVIOUS
<1>. HIDE DEF checks, m
<1>4. /\ HoldTo(checks, m) => p.ok = TRUE /\ p.val = y
      /\ ~HoldTo(checks, m) => p.ok = FALSE
  BY <1>1, <1>3, CheckedList
<1>. QED BY <1>2, <1>4

\* chunk_fixed_high_entropy: refused, or the blocks one after the other, validated.
FixedResult(n, o, c) ==
    LET all == FixedAll(n, o, c)
    IN  IF all.ok THEN ValidateChunkCoverage(all.val, o, n) ELSE all

\* chunk_fixed_high_entropy as a case distinction.
LEMMA FixedIs ==
    ASSUME NEW n \in Nat, NEW o \in Origins, NEW c \in Configs, NEW r,
           r = ChunkFixedHighEntropy(n, o, c)
    PROVE  /\ ~Fits(n, o, c) => r.ok = FALSE
           /\ (Fits(n, o, c) /\ n = 0) => r = Ok(<<>>)
           /\ (Fits(n, o, c) /\ n # 0 /\ FixedCount(n, c) <= c.chunks) => r = FixedResult(n, o, c)
           /\ (Fits(n, o, c) /\ n # 0 /\ ~(FixedCount(n, c) <= c.chunks)) => r.ok = FALSE
<1>. DEFINE k == Checked(EntryChecks(n, o, c), n)
            h(x) == Checked(<<CountCheck(FixedCount(x, c), c.chunks)>>, FixedLengths(x, c))
            inner(x) == IF x = 0 THEN Ok(<<>>)
                        ELSE IF h(x).ok
                        THEN LET all == PushAll(h(x).val, o, "Fixed", c.chunks)
                             IN  IF all.ok THEN ValidateChunkCoverage(all.val, o, x) ELSE all
                        ELSE h(x)
<1>1. r = IF k.ok THEN inner(k.val) ELSE k
  BY DEF ChunkFixedHighEntropy, AndThen
<1>2. /\ Fits(n, o, c) => k = Ok(n)
      /\ ~Fits(n, o, c) => \E x \in Errors : k = Err(x)
  BY EntryChecked
<1>. HIDE DEF k, inner
<1>3. Fits(n, o, c) => r = inner(n)
  BY <1>1, <1>2, OkIs
<1>4. ~Fits(n, o, c) => r.ok = FALSE
  BY <1>1, <1>2, OkIs, ZenonT(40)
<1>5. n = 0 => inner(n) = Ok(<<>>)
  BY DEF inner
<1>. DEFINE w == FixedCount(n, c) <= c.chunks
            y == FixedLengths(n, c)
            e == "chunk count"
            p == h(n)
<1>6. p = Checked(<<<<w, e>>>>, y)
  BY Zenon DEF CountCheck
<1>7. (w => p.ok = TRUE /\ p.val = y) /\ (~w => p.ok = FALSE)
  <2>1. PICK a \in BOOLEAN : a = w
    <3>1. w \in BOOLEAN
      OBVIOUS
    <3>. QED BY <3>1, Zenon
  <2>2. p = Checked(<<<<a, e>>>>, y)
    BY <1>6, <2>1, Zenon
  <2>. HIDE DEF w, y, p, e
  <2>3. (a => p.ok = TRUE /\ p.val = y) /\ (~a => p.ok = FALSE)
    BY <2>2, OneChecked, ZenonT(40)
  <2>. QED BY <2>1, <2>3, Zenon
<1>8. n # 0 => inner(n) = IF p.ok
                          THEN LET all == PushAll(p.val, o, "Fixed", c.chunks)
                               IN  IF all.ok THEN ValidateChunkCoverage(all.val, o, n) ELSE all
                          ELSE p
  BY DEF inner
<1>. HIDE DEF p, w, y, h
<1>9. n # 0 /\ ~w => inner(n).ok = FALSE
  BY <1>7, <1>8
<1>10. n # 0 /\ w => inner(n) = FixedResult(n, o, c)
  <2>. SUFFICES ASSUME n # 0, w PROVE inner(n) = FixedResult(n, o, c)
    OBVIOUS
  <2>1. p.ok = TRUE /\ p.val = y
    BY <1>7
  <2>2. inner(n) = LET all == PushAll(y, o, "Fixed", c.chunks)
                   IN  IF all.ok THEN ValidateChunkCoverage(all.val, o, n) ELSE all
    BY <1>8, <2>1
  <2>. QED BY <2>2 DEF FixedResult, FixedAll, y
<1>. QED BY <1>3, <1>4, <1>5, <1>9, <1>10 DEF w

FixedTiled(n, o, c, r) ==
    /\ r.ok = TRUE \/ r.ok = FALSE
    /\ r.ok = TRUE => /\ Fits(n, o, c) /\ FixedUpTo(o, c, r.val, n, n)
                      /\ n # 0 => Len(r.val) = FixedCount(n, c)
    /\ (Fits(n, o, c) /\ (n = 0 \/ FixedCount(n, c) <= c.chunks)) => r.ok = TRUE

\* chunk_fixed_high_entropy covers its object with blocks.
LEMMA FixedTiles ==
    ASSUME NEW n \in Nat, NEW o \in Origins, NEW c \in Configs, NEW r,
           r = ChunkFixedHighEntropy(n, o, c)
    PROVE  FixedTiled(n, o, c, r)
<1>. DEFINE all == FixedAll(n, o, c)
            w == FixedCount(n, c) <= c.chunks
<1>1. /\ ~Fits(n, o, c) => r.ok = FALSE
      /\ (Fits(n, o, c) /\ n = 0) => r = Ok(<<>>)
      /\ (Fits(n, o, c) /\ n # 0 /\ w) => r = FixedResult(n, o, c)
      /\ (Fits(n, o, c) /\ n # 0 /\ ~w) => r.ok = FALSE
  BY FixedIs
<1>2. CASE ~Fits(n, o, c)
  BY <1>1, <1>2 DEF FixedTiled
<1>3. CASE Fits(n, o, c) /\ n = 0
  <2>. DEFINE l == <<>>
  <2>1. r.ok = TRUE /\ r.val = l
    BY <1>1, <1>3, OkIs
  <2>2. Len(l) = 0 /\ Tiles(l, o, 0) /\ c.chunks \in Nat
    BY NoChunks DEF Configs
  <2>. HIDE DEF l
  <2>3. FixedUpTo(o, c, l, n, n)
    BY <1>3, <2>2 DEF FixedUpTo
  <2>. QED BY <1>3, <2>1, <2>3 DEF FixedTiled
<1>4. CASE Fits(n, o, c) /\ n # 0
  <2>0. n > 0 /\ c.fixed > 0 /\ o.base + n <= OffsetMax /\ c.chunks \in Nat
    BY <1>4, LogicalChunkingAssumption DEF Fits, ConfigValid, Configs
  <2>1. /\ all \in Results
        /\ all.ok = TRUE => FixedUpTo(o, c, all.val, n, n) /\ Len(all.val) = FixedCount(n, c)
        /\ (o.base + n <= OffsetMax /\ w) => all.ok = TRUE
    BY <2>0, FixedBlocks
  <2>3. CASE ~w
    BY <1>1, <1>4, <2>3 DEF FixedTiled
  <2>4. CASE w
    <3>1. r = IF all.ok THEN ValidateChunkCoverage(all.val, o, n) ELSE all
      BY <1>1, <1>4, <2>4 DEF FixedResult
    <3>. DEFINE list == all.val
                v == ValidateChunkCoverage(list, o, n)
    <3>. HIDE DEF all
    <3>3. ASSUME all.ok = TRUE
          PROVE  /\ r.ok = TRUE /\ r.val = list /\ FixedUpTo(o, c, list, n, n)
                 /\ Len(list) = FixedCount(n, c)
      <4>1. FixedUpTo(o, c, list, n, n) /\ Len(list) = FixedCount(n, c)
        BY <2>1, <3>3
      <4>2. Tiles(list, o, n) /\ list \in Seq(Drafts)
        BY <4>1 DEF FixedUpTo, Tiles
      <4>3. r = v
        BY <3>1, <3>3
      <4>. HIDE DEF list
      <4>4. v.ok = TRUE
        BY <2>0, <4>2, TilesValid
      <4>5. v = Ok(list)
        BY <4>2, <4>4, ValidateIs
      <4>. HIDE DEF v
      <4>. QED BY <4>1, <4>3, <4>4, <4>5, OkIs
    <3>5. all.ok = TRUE
      BY <2>0, <2>1, <2>4
    <3>. QED BY <1>4, <3>3, <3>5 DEF FixedTiled
  <2>. QED BY <2>3, <2>4
<1>. QED BY <1>2, <1>3, <1>4

-----------------------------------------------------------------------------
(* The chunks of a call.                                                   *)

\* ChunksTile for a call k and its result q.
Wholes(k) == k.kind \in {"structural", "structural_reader"}
EndsOf(k) == IF Wholes(k) THEN ToSet(k.ends) ELSE {Len(k.data)}
StopOf(k, x) == Min({e \in EndsOf(k) : e > x})
FirstOf(k, x) == Max({e \in EndsOf(k) \cup {0} : e <= x})
DueOf(k, x, y, stop) ==
    IF k.kind = "fixed" THEN y - x = k.cfg.fixed \/ y = stop
    ELSE /\ y - x <= k.cfg.max
         /\ y = stop \/ (y - x > k.cfg.min /\ k.data[x + (y - x)] = Marker) \/ y - x = k.cfg.max
         /\ \A i \in 1 .. (y - x) - 1 : ~(i > k.cfg.min /\ k.data[x + i] = Marker)
PlacedAt(k, x, y) ==
    /\ y <= StopOf(k, x)
    /\ IF Wholes(k) /\ StopOf(k, x) - FirstOf(k, x) <= k.cfg.max
       THEN x = FirstOf(k, x) /\ y = StopOf(k, x)
       ELSE DueOf(k, x, y, StopOf(k, x))
ExactAt(k, list, i) ==
    /\ list[i].entry = k.origin.entry /\ list[i].object = k.origin.object
    /\ list[i].offset - k.origin.base =
            IF i = 1 THEN 0 ELSE (list[i - 1].offset - k.origin.base) + list[i - 1].len
    /\ list[i].len > 0
    /\ i = Len(list) => (list[i].offset - k.origin.base) + list[i].len = Len(k.data)
    /\ PlacedAt(k, list[i].offset - k.origin.base, (list[i].offset - k.origin.base) + list[i].len)
FitsAll(k) ==
    /\ ConfigValid(k.cfg) /\ Len(k.data) <= k.cfg.bytes /\ k.origin.base + Len(k.data) <= OffsetMax
    /\ Wholes(k) => (IF Len(k.data) = 0 THEN k.ends = <<>>
                     ELSE BoundaryEndsValid(k.ends, Len(k.data)))
ListExact(k, list) ==
    /\ Len(k.data) = 0 <=> list = <<>>
    /\ \A i \in 1 .. Len(list) : ExactAt(k, list, i)
    /\ Len(list) <= k.cfg.chunks
TooMany(k) == Roomy(k).ok /\ Len(Roomy(k).val) > k.cfg.chunks
TileOk(k, q) ==
    IF q.ok THEN ListExact(k, q.val) ELSE q.val \in Faults \/ ~FitsAll(k) \/ TooMany(k)

\* ChunksTile says that of the call and its outcome.
LEMMA ChunksTileIs ==
    ASSUME Ended => TileOk(call, outcome)
    PROVE  ChunksTile
BY ZenonT(40) DEF ChunksTile, TileOk, ListExact, FitsAll, TooMany, ExactAt, PlacedAt, DueOf, FirstOf, StopOf,
    EndsOf, Wholes, CutIsDue

\* A chunk of a list that covers its object.
LEMMA TilesPlace ==
    ASSUME NEW list, NEW o \in Origins, NEW n, Tiles(list, o, n), NEW i \in 1 .. Len(list),
           NEW x, x = list[i].offset - o.base, NEW len, len = list[i].len
    PROVE  /\ x \in Nat /\ len \in Nat /\ len > 0 /\ x + len <= n
           /\ list[i].entry = o.entry /\ list[i].object = o.object
           /\ x = IF i = 1 THEN 0 ELSE (list[i - 1].offset - o.base) + list[i - 1].len
           /\ i = Len(list) => x + len = n
<1>1. list \in Seq(Drafts) /\ n \in Nat /\ Follows(list, o, i)
  BY DEF Tiles
<1>2. list[i] \in Drafts
  BY <1>1
<1>3. list[i].offset \in Nat /\ len \in Nat /\ o.base \in Nat
  BY <1>2, DraftTypes DEF Origins
<1>4. o.base <= list[i].offset
  BY TilesEnds
<1>5. list[i].offset + list[i].len <= o.base + n
  BY TilesInside
<1>6. x \in Nat /\ x + len <= n
  BY <1>1, <1>3, <1>4, <1>5, SMTT(30)
<1>7. /\ list[i].entry = o.entry /\ list[i].object = o.object /\ len > 0
      /\ i = 1 => list[i].offset = o.base
      /\ i > 1 => list[i].offset = list[i - 1].offset + list[i - 1].len
  BY <1>1 DEF Follows
<1>8. x = IF i = 1 THEN 0 ELSE (list[i - 1].offset - o.base) + list[i - 1].len
  <2>1. CASE i = 1
    BY <1>3, <1>7, <2>1
  <2>2. CASE i # 1
    <3>1. i > 1 /\ i - 1 \in 1 .. Len(list)
      BY <1>1, <2>2
    <3>2. list[i - 1] \in Drafts
      BY <1>1, <3>1
    <3>3. list[i - 1].offset \in Nat /\ list[i - 1].len \in Nat
      BY <3>2, DraftTypes
    <3>. QED BY <1>3, <1>7, <2>2, <3>1, <3>3, SMTT(30)
  <2>. QED BY <2>1, <2>2
<1>9. i = Len(list) => x + len = n
  <2>. SUFFICES ASSUME i = Len(list) PROVE x + len = n
    OBVIOUS
  <2>1. list # <<>>
    BY <1>1
  <2>2. list[i].offset + list[i].len = o.base + n
    BY <2>1 DEF Tiles
  <2>. QED BY <1>1, <1>3, <2>2, SMTT(30)
<1>. QED BY <1>3, <1>6, <1>7, <1>8, <1>9

\* Where the object of a call without regions stops.
LEMMA StopWhole ==
    ASSUME NEW k, CallOk(k), ~Wholes(k), NEW x \in Nat, x < Len(k.data)
    PROVE  StopOf(k, x) = Len(k.data)
<1>. DEFINE n == Len(k.data)
            T == {e \in EndsOf(k) : e > x}
<1>1. n \in Nat /\ x < n
  BY DEF CallOk
<1>2. EndsOf(k) = {n}
  BY DEF EndsOf
<1>. HIDE DEF n
<1>3. T = {n}
  BY <1>1, <1>2
<1>. HIDE DEF T
<1>4. Min(T) \in T
  BY <1>1, <1>3, LeastMember
<1>. QED BY <1>3, <1>4 DEF StopOf, T, n

\* A greatest member is Max.
LEMMA GreatestIs ==
    ASSUME NEW T, T \subseteq Nat, NEW m \in T, \A y \in T : y <= m
    PROVE  Max(T) = m
<1>1. m \in T /\ \A y \in T : m >= y
  OBVIOUS
<1>2. Max(T) \in T /\ \A y \in T : Max(T) >= y
  BY <1>1 DEF Max
<1>3. Max(T) \in Nat /\ Max(T) >= m /\ Max(T) <= m /\ m \in Nat
  BY <1>2
<1>. QED BY <1>3

\* Where a region stops and starts.
LEMMA StopRegion ==
    ASSUME NEW k, CallOk(k), Wholes(k), EndsOk(k.ends, Len(k.data)), NEW i \in 1 .. Len(k.ends),
           NEW x \in Nat, RegionStart(k.ends, i) <= x, x < k.ends[i]
    PROVE  StopOf(k, x) = k.ends[i] /\ FirstOf(k, x) = RegionStart(k.ends, i)
<1>. DEFINE E == k.ends
            n == Len(k.data)
            N == Len(k.ends)
            T == {e \in EndsOf(k) : e > x}
            U == {e \in EndsOf(k) \cup {0} : e <= x}
            s == RegionStart(k.ends, i)
            b == k.ends[i]
<1>1. E \in Seq(Nat) /\ EndsOk(E, n) /\ N \in Nat /\ i \in 1 .. N /\ n \in Nat
  BY DEF CallOk, EndsOk
<1>2. EndsOf(k) = {E[j] : j \in 1 .. N}
  BY DEF EndsOf, ToSet
<1>3. \A j \in 1 .. N : E[j] \in Nat
  BY <1>1, SMTT(30)
<1>4. s \in Nat /\ b \in Nat /\ s <= x /\ x < b
  BY <1>1 DEF EndsOk
<1>5. \A j \in 1 .. N : i < j => b <= E[j]
  <2>. SUFFICES ASSUME NEW j \in 1 .. N, i < j PROVE b <= E[j]
    OBVIOUS
  <2>1. E[i] <= RegionStart(E, j)
    BY <1>1, EndsInOrder
  <2>2. RegionStart(E, j) \in Nat /\ E[j] \in Nat /\ RegionStart(E, j) < E[j]
    BY <1>1 DEF EndsOk
  <2>. QED BY <1>4, <2>1, <2>2, SMTT(30)
<1>6. \A j \in 1 .. N : j < i => E[j] <= s
  BY <1>1, EndsInOrder
<1>. HIDE DEF E, n, N, s, b
<1>7. b = E[i] /\ b \in EndsOf(k)
  BY <1>1, <1>2 DEF b, E
<1>8. \A j \in 1 .. N : E[j] > x => b <= E[j]
  BY <1>1, <1>3, <1>4, <1>5, <1>6, <1>7, SMTT(30)
<1>9. \A j \in 1 .. N : E[j] <= x => E[j] <= s
  BY <1>1, <1>3, <1>4, <1>5, <1>6, <1>7, SMTT(30)
<1>10. s = 0 \/ s \in EndsOf(k)
  <2>1. CASE i = 1
    BY <2>1 DEF RegionStart, s
  <2>2. CASE i # 1
    <3>1. i - 1 \in 1 .. N /\ s = E[i - 1]
      BY <1>1, <2>2 DEF RegionStart, s, E
    <3>. QED BY <1>2, <3>1
  <2>. QED BY <2>1, <2>2
<1>11. b \in T /\ T \subseteq Nat /\ \A y \in T : b <= y
  BY <1>2, <1>3, <1>4, <1>7, <1>8
<1>12. s \in U /\ U \subseteq Nat /\ \A y \in U : y <= s
  BY <1>2, <1>3, <1>4, <1>9, <1>10
<1>. HIDE DEF T, U
<1>13. Min(T) = b
  <2>1. Min(T) \in T /\ \A y \in T : Min(T) <= y
    BY <1>11, LeastMember
  <2>2. Min(T) \in Nat /\ Min(T) <= b /\ b <= Min(T)
    BY <1>11, <2>1
  <2>. QED BY <1>4, <2>2
<1>14. Max(U) = s
  BY <1>12, GreatestIs
<1>. QED BY <1>13, <1>14 DEF StopOf, FirstOf, T, U, b, s

\* A chunk that FastCDC cut, or a fixed block, is placed as it should be.
LEMMA PlacedWhole ==
    ASSUME NEW k, CallOk(k), ~Wholes(k), NEW x \in Nat, NEW len \in Nat, len > 0,
           x + len <= Len(k.data),
           k.kind = "fixed" => (len = k.cfg.fixed \/ x + len = Len(k.data)),
           k.kind # "fixed" => Due(k.data, k.cfg, x, len, Len(k.data))
    PROVE  PlacedAt(k, x, x + len)
<1>. DEFINE n == Len(k.data)
            y == x + len
<1>1. n \in Nat
  BY DEF CallOk
<1>2. x < n /\ y <= n /\ y - x = len /\ x + len = y
  BY <1>1
<1>3. StopOf(k, x) = n
  BY <1>2, StopWhole
<1>. HIDE DEF n, y
<1>4. DueOf(k, x, y, n)
  <2>1. CASE k.kind = "fixed"
    BY <1>2, <2>1 DEF DueOf, n
  <2>2. CASE k.kind # "fixed"
    <3>1. Due(k.data, k.cfg, x, len, n)
      BY <2>2 DEF n
    <3>. QED BY <1>2, <2>2, <3>1 DEF DueOf, Due
  <2>. QED BY <2>1, <2>2
<1>5. PlacedAt(k, x, y)
  BY <1>2, <1>3, <1>4 DEF PlacedAt
<1>. QED BY <1>5 DEF y

\* A chunk of a region is placed as it should be.
LEMMA PlacedRegion ==
    ASSUME NEW k, CallOk(k), Wholes(k), EndsOk(k.ends, Len(k.data)), NEW i \in 1 .. Len(k.ends),
           NEW x \in Nat, NEW len \in Nat, len > 0,
           RegionChunk(k.data, k.ends, k.cfg, x, len, i)
    PROVE  PlacedAt(k, x, x + len)
<1>. DEFINE y == x + len
            s == RegionStart(k.ends, i)
            b == k.ends[i]
<1>1. s \in Nat /\ b \in Nat
  BY DEF EndsOk
<1>2. s <= x /\ y <= b
  BY DEF RegionChunk
<1>3. x < b /\ y - x = len /\ x + len = y
  BY <1>1, <1>2
<1>4. StopOf(k, x) = b /\ FirstOf(k, x) = s
  BY <1>2, <1>3, StopRegion
<1>5. /\ b - s <= k.cfg.max => x = s /\ y = b
      /\ ~(b - s <= k.cfg.max) => Due(k.data, k.cfg, x, len, b)
  BY DEF RegionChunk
<1>6. k.kind # "fixed"
  BY DEF Wholes
<1>. HIDE DEF y, s, b
<1>7. CASE b - s <= k.cfg.max
  <2>1. PlacedAt(k, x, y)
    BY <1>2, <1>4, <1>5, <1>7 DEF PlacedAt
  <2>. QED BY <2>1 DEF y
<1>8. CASE ~(b - s <= k.cfg.max)
  <2>1. DueOf(k, x, y, b)
    BY <1>3, <1>5, <1>6, <1>8 DEF DueOf, Due
  <2>2. PlacedAt(k, x, y)
    BY <1>2, <1>4, <1>8, <2>1 DEF PlacedAt
  <2>. QED BY <2>2 DEF y
<1>. QED BY <1>7, <1>8

\* A list that covers the object with chunks that are placed so is exact.
AllPlaced(k, list) ==
    \A i \in 1 .. Len(list) :
        PlacedAt(k, list[i].offset - k.origin.base, (list[i].offset - k.origin.base) + list[i].len)

\* Such a list is exact.
LEMMA ListIsExact ==
    ASSUME NEW k, CallOk(k), NEW list, Tiles(list, k.origin, Len(k.data)),
           Len(list) <= k.cfg.chunks, AllPlaced(k, list)
    PROVE  ListExact(k, list)
<1>1. k.origin \in Origins
  BY DEF CallOk
<1>2. Len(k.data) = 0 <=> list = <<>>
  BY <1>1, TilesCount
<1>3. ASSUME NEW i \in 1 .. Len(list) PROVE ExactAt(k, list, i)
  <2>. DEFINE o == k.origin
              n == Len(k.data)
              x == list[i].offset - o.base
              len == list[i].len
  <2>1. /\ x \in Nat /\ len \in Nat /\ len > 0 /\ x + len <= n
        /\ list[i].entry = o.entry /\ list[i].object = o.object
        /\ x = IF i = 1 THEN 0 ELSE (list[i - 1].offset - o.base) + list[i - 1].len
        /\ i = Len(list) => x + len = n
    <3>. HIDE DEF x, len, o, n
    <3>1. x = list[i].offset - o.base /\ len = list[i].len /\ o \in Origins /\ Tiles(list, o, n)
      BY <1>1 DEF x, len, o, n
    <3>. QED BY <3>1, TilesPlace
  <2>2. PlacedAt(k, x, x + len)
    BY DEF AllPlaced
  <2>. QED BY <2>1, <2>2, Zenon DEF ExactAt
<1>. QED BY <1>2, <1>3 DEF ListExact

\* What a call in memory answers.
Exactly(k, q) ==
    /\ q.ok = TRUE \/ q.ok = FALSE
    /\ q.ok = TRUE => /\ Fits(Len(k.data), k.origin, k.cfg)
                      /\ Tiles(q.val, k.origin, Len(k.data)) /\ ListExact(k, q.val)
    /\ q.ok = FALSE => ~FitsAll(k) \/ TooMany(k)

\* A call as a record: it can be made again with another limit on the chunks.
CallFull(k) == CallOk(k) /\ {"kind", "data", "ends", "origin", "cfg"} \subseteq DOMAIN k

\* The limits of that call.
RoomFor(k) == [k.cfg EXCEPT !.chunks = Len(k.data) + 1]

\* They differ only in the limit on the chunks.
LEMMA RoomForIs ==
    ASSUME NEW k, CallFull(k), NEW e, e = RoomFor(k)
    PROVE  /\ e \in Configs /\ e.chunks = Len(k.data) + 1 /\ e.fixed = k.cfg.fixed
           /\ Alike(e, k.cfg)
           /\ Fits(Len(k.data), k.origin, k.cfg) => Fits(Len(k.data), k.origin, e)
<1>. DEFINE n == Len(k.data)
            c == k.cfg
            o == k.origin
<1>1. c \in Configs /\ n \in Nat /\ e = [c EXCEPT !.chunks = n + 1]
  BY DEF CallFull, CallOk, RoomFor
<1>. HIDE DEF n, c, o
<1>2. n + 1 \in Nat /\ n + 1 # 0
  BY <1>1
<1>3. e \in Configs /\ e.chunks = n + 1
  BY <1>1, <1>2 DEF Configs
<1>4. /\ e.min = c.min /\ e.avg = c.avg /\ e.max = c.max /\ e.fixed = c.fixed
      /\ e.micro = c.micro /\ e.target = c.target /\ e.bytes = c.bytes /\ e.meta = c.meta
      /\ e.path = c.path
  BY <1>1 DEF Configs
<1>5. ConfigValid(c) => ConfigValid(e)
  BY <1>2, <1>3, <1>4, Zenon DEF ConfigValid
<1>6. Fits(n, o, c) => Fits(n, o, e)
  BY <1>4, <1>5, Zenon DEF Fits
<1>. QED BY <1>3, <1>4, <1>6, Zenon DEF Alike, n, c, o

\* The call with those limits.
LEMMA RoomyIs ==
    ASSUME NEW k, CallFull(k)
    PROVE  /\ k.kind \in {"fastcdc", "fastcdc_reader"} =>
                Roomy(k) = ChunkFastCdc(k.data, k.origin, RoomFor(k))
           /\ k.kind = "fixed" =>
                Roomy(k) = ChunkFixedHighEntropy(Len(k.data), k.origin, RoomFor(k))
           /\ Wholes(k) => Roomy(k) = ChunkStructural(k.data, k.ends, k.origin, RoomFor(k))
<1>. DEFINE z == [k EXCEPT !.cfg.chunks = Len(k.data) + 1]
<1>1. /\ "kind" \in DOMAIN k /\ "data" \in DOMAIN k /\ "ends" \in DOMAIN k
      /\ "origin" \in DOMAIN k /\ "cfg" \in DOMAIN k
  BY DEF CallFull
<1>2. /\ z.kind = k.kind /\ z.data = k.data /\ z.ends = k.ends /\ z.origin = k.origin
      /\ z.cfg = RoomFor(k)
  BY <1>1 DEF RoomFor
<1>3. Roomy(k) = InMemory(z)
  BY DEF Roomy
<1>. HIDE DEF z
<1>4. ASSUME k.kind \in {"fastcdc", "fastcdc_reader"}
      PROVE  Roomy(k) = ChunkFastCdc(k.data, k.origin, RoomFor(k))
  <2>1. InMemory(z) = ChunkFastCdc(z.data, z.origin, z.cfg)
    BY <1>2, <1>4, Zenon DEF InMemory
  <2>. QED BY <1>2, <1>3, <2>1, Zenon
<1>5. ASSUME k.kind = "fixed"
      PROVE  Roomy(k) = ChunkFixedHighEntropy(Len(k.data), k.origin, RoomFor(k))
  <2>0. z.kind \notin {"fastcdc", "fastcdc_reader"} /\ z.kind = "fixed"
    BY <1>2, <1>5
  <2>1. InMemory(z) = ChunkFixedHighEntropy(Len(z.data), z.origin, z.cfg)
    BY <2>0, Zenon DEF InMemory
  <2>. QED BY <1>2, <1>3, <2>1, Zenon
<1>6. ASSUME Wholes(k)
      PROVE  Roomy(k) = ChunkStructural(k.data, k.ends, k.origin, RoomFor(k))
  <2>0. z.kind \notin {"fastcdc", "fastcdc_reader"} /\ z.kind # "fixed"
    BY <1>2, <1>6 DEF Wholes
  <2>1. InMemory(z) = ChunkStructural(z.data, z.ends, z.origin, z.cfg)
    BY <2>0, Zenon DEF InMemory
  <2>. QED BY <1>2, <1>3, <2>1, Zenon
<1>. QED BY <1>4, <1>5, <1>6

\* What does not keep the limit exceeds it.
LEMMA MoreThanLimit ==
    ASSUME NEW k, CallOk(k), Roomy(k).ok = TRUE, Roomy(k).val \in Seq(Drafts),
           ~(Len(Roomy(k).val) <= k.cfg.chunks)
    PROVE  TooMany(k)
<1>. DEFINE a == Len(Roomy(k).val)
            b == k.cfg.chunks
<1>1. a \in Nat /\ b \in Nat /\ ~(a <= b)
  BY DEF CallOk, Configs
<1>. HIDE DEF a, b
<1>2. a > b
  BY <1>1
<1>. QED BY <1>2 DEF TooMany, a, b

\* chunk_fastcdc.
LEMMA FastCdcExact ==
    ASSUME NEW k, CallFull(k), k.kind \in {"fastcdc", "fastcdc_reader"},
           NEW q, q = ChunkFastCdc(k.data, k.origin, k.cfg)
    PROVE  Exactly(k, q)
<1>. DEFINE D == k.data
            o == k.origin
            c == k.cfg
            list == q.val
<1>0. CallOk(k)
  BY DEF CallFull
<1>1. D \in Seq(Nat) /\ o \in Origins /\ c \in Configs /\ ~Wholes(k) /\ k.kind # "fixed"
  BY <1>0 DEF CallOk, Wholes
<1>2. CdcTiled(D, o, c, q)
  BY <1>1, FastCdcTiles
<1>3. ASSUME q.ok = FALSE, FitsAll(k) PROVE TooMany(k)
  <2>. DEFINE e == RoomFor(k)
              p == Roomy(k)
              n == Len(D)
  <2>1. Fits(n, o, c) /\ n \in Nat
    BY <1>1, <1>3 DEF FitsAll, Fits
  <2>2. e \in Configs /\ e.chunks = n + 1 /\ Alike(e, c) /\ Fits(n, o, e)
    BY <2>1, RoomForIs
  <2>3. p = ChunkFastCdc(D, o, e)
    BY RoomyIs
  <2>. HIDE DEF e, p, n
  <2>4. CdcTiled(D, o, e, p)
    BY <1>1, <2>2, <2>3, FastCdcTiles
  <2>5. n <= e.chunks
    BY <2>1, <2>2
  <2>6. p.ok = TRUE /\ CutUpTo(D, o, e, p.val, n)
    BY <2>2, <2>4, <2>5 DEF CdcTiled, n
  <2>7. p.val \in Seq(Drafts)
    BY <2>6 DEF CutUpTo, Tiles
  <2>8. SameCount(p, q, c.chunks)
    <3>. HIDE DEF D, o, c
    <3>1. q = ChunkFastCdc(D, o, c) /\ Fits(Len(D), o, c) /\ Fits(Len(D), o, e)
      BY <2>1, <2>2 DEF D, o, c, n
    <3>. QED BY <1>1, <2>2, <2>3, <2>6, <3>1, FastCdcCount
  <2>9. ~(Len(p.val) <= c.chunks)
    BY <1>3, <2>8 DEF SameCount
  <2>. QED BY <1>0, <2>6, <2>7, <2>9, MoreThanLimit DEF p
<1>4. ASSUME q.ok = TRUE
      PROVE  Fits(Len(D), o, c) /\ Tiles(list, o, Len(D)) /\ ListExact(k, list)
  <2>1. Fits(Len(D), o, c) /\ CutUpTo(D, o, c, list, Len(D))
    BY <1>2, <1>4 DEF CdcTiled
  <2>2. Tiles(list, o, Len(D)) /\ AllDue(D, c, o, list) /\ Len(list) <= c.chunks
    BY <2>1 DEF CutUpTo
  <2>3. ASSUME NEW i \in 1 .. Len(list)
        PROVE  PlacedAt(k, list[i].offset - o.base, (list[i].offset - o.base) + list[i].len)
    <3>. DEFINE x == list[i].offset - o.base
                len == list[i].len
                n == Len(D)
    <3>1. Due(D, c, x, len, n)
      BY <2>2 DEF AllDue
    <3>2. x \in Nat /\ len \in Nat /\ len > 0 /\ x + len <= n
      <4>1. x = list[i].offset - o.base /\ len = list[i].len /\ Tiles(list, o, n)
        BY <2>2
      <4>. HIDE DEF x, len, o, n, list
      <4>. QED BY <1>1, <4>1, TilesPlace
    <3>. HIDE DEF x, len
    <3>3. PlacedAt(k, x, x + len)
      BY <1>0, <1>1, <3>1, <3>2, PlacedWhole
    <3>. QED BY <3>3 DEF x, len
  <2>4. AllPlaced(k, list)
    BY <2>3 DEF AllPlaced
  <2>. QED BY <1>0, <2>1, <2>2, <2>4, ListIsExact
<1>5. q.ok = TRUE \/ q.ok = FALSE
  BY <1>2 DEF CdcTiled
<1>. QED BY <1>3, <1>4, <1>5 DEF Exactly

\* chunk_fixed_high_entropy.
LEMMA FixedExact ==
    ASSUME NEW k, CallFull(k), k.kind = "fixed",
           NEW q, q = ChunkFixedHighEntropy(Len(k.data), k.origin, k.cfg)
    PROVE  Exactly(k, q)
<1>. DEFINE n == Len(k.data)
            o == k.origin
            c == k.cfg
            list == q.val
<1>0. CallOk(k)
  BY DEF CallFull
<1>1. n \in Nat /\ o \in Origins /\ c \in Configs /\ ~Wholes(k)
  BY <1>0 DEF CallOk, Wholes
<1>2. FixedTiled(n, o, c, q)
  BY <1>1, FixedTiles
<1>3. ASSUME q.ok = FALSE, FitsAll(k) PROVE TooMany(k)
  <2>. DEFINE e == RoomFor(k)
              p == Roomy(k)
              w == FixedCount(n, c)
  <2>1. Fits(n, o, c) /\ c.fixed > 0
    BY <1>1, <1>3, LogicalChunkingAssumption DEF FitsAll, Fits, ConfigValid, Configs
  <2>2. e \in Configs /\ e.chunks = n + 1 /\ e.fixed = c.fixed /\ Fits(n, o, e)
    BY <2>1, RoomForIs
  <2>3. p = ChunkFixedHighEntropy(n, o, e)
    BY RoomyIs
  <2>. HIDE DEF e, p, n, c, o
  <2>4. FixedTiled(n, o, e, p)
    BY <1>1, <2>2, <2>3, FixedTiles
  <2>5. n # 0 /\ ~(w <= c.chunks)
    BY <1>2, <1>3, <2>1 DEF FixedTiled
  <2>6. w \in Nat /\ w <= n /\ FixedCount(n, e) = w
    <3>1. n > 0
      BY <1>1, <2>5
    <3>2. w \in Nat /\ w <= n
      BY <1>1, <2>1, <3>1, FixedCountIs
    <3>. QED BY <2>2, <3>2 DEF FixedCount
  <2>. HIDE DEF w
  <2>7. w <= e.chunks
    BY <1>1, <2>2, <2>6
  <2>8. p.ok = TRUE /\ FixedUpTo(o, e, p.val, n, n) /\ Len(p.val) = w
    BY <2>2, <2>4, <2>5, <2>6, <2>7 DEF FixedTiled
  <2>9. p.val \in Seq(Drafts)
    BY <2>8 DEF FixedUpTo, Tiles
  <2>. QED BY <1>0, <2>5, <2>8, <2>9, MoreThanLimit DEF p, c
<1>4. ASSUME q.ok = TRUE
      PROVE  Fits(n, o, c) /\ Tiles(list, o, n) /\ ListExact(k, list)
  <2>1. Fits(n, o, c) /\ FixedUpTo(o, c, list, n, n)
    BY <1>2, <1>4 DEF FixedTiled
  <2>2. /\ Tiles(list, o, n) /\ Len(list) <= c.chunks
        /\ \A i \in 1 .. Len(list) :
              list[i].len = c.fixed \/ (list[i].offset - o.base) + list[i].len = n
    BY <2>1 DEF FixedUpTo
  <2>3. ASSUME NEW i \in 1 .. Len(list)
        PROVE  PlacedAt(k, list[i].offset - o.base, (list[i].offset - o.base) + list[i].len)
    <3>. DEFINE x == list[i].offset - o.base
                len == list[i].len
    <3>1. len = c.fixed \/ x + len = n
      BY <2>2
    <3>2. x \in Nat /\ len \in Nat /\ len > 0 /\ x + len <= n
      <4>1. x = list[i].offset - o.base /\ len = list[i].len /\ Tiles(list, o, n)
        BY <2>2
      <4>. HIDE DEF x, len, o, n, list
      <4>. QED BY <1>1, <4>1, TilesPlace
    <3>. HIDE DEF x, len
    <3>3. PlacedAt(k, x, x + len)
      BY <1>0, <1>1, <3>1, <3>2, PlacedWhole
    <3>. QED BY <3>3 DEF x, len
  <2>4. AllPlaced(k, list)
    BY <2>3 DEF AllPlaced
  <2>. QED BY <1>0, <2>1, <2>2, <2>4, ListIsExact
<1>5. q.ok = TRUE \/ q.ok = FALSE
  BY <1>2 DEF FixedTiled
<1>. QED BY <1>3, <1>4, <1>5 DEF Exactly

\* chunk_structural.
LEMMA StructuralExact ==
    ASSUME NEW k, CallFull(k), Wholes(k),
           NEW q, q = ChunkStructural(k.data, k.ends, k.origin, k.cfg)
    PROVE  Exactly(k, q)
<1>. DEFINE D == k.data
            n == Len(k.data)
            E == k.ends
            o == k.origin
            c == k.cfg
            list == q.val
<1>0. CallOk(k)
  BY DEF CallFull
<1>1. D \in Seq(Nat) /\ E \in Seq(Nat) /\ o \in Origins /\ c \in Configs /\ n \in Nat
  BY <1>0 DEF CallOk
<1>2. StructuralTiled(D, E, o, c, q)
  BY <1>1, StructuralTiles
<1>3. ASSUME q.ok = FALSE, FitsAll(k) PROVE TooMany(k)
  <2>. DEFINE e == RoomFor(k)
              p == Roomy(k)
  <2>1. /\ Fits(n, o, c)
        /\ n = 0 => E = <<>>
        /\ n # 0 => BoundaryEndsValid(E, n)
    BY <1>3 DEF FitsAll, Fits
  <2>2. e \in Configs /\ e.chunks = n + 1 /\ Alike(e, c) /\ Fits(n, o, e)
    BY <2>1, RoomForIs
  <2>3. p = ChunkStructural(D, E, o, e)
    BY RoomyIs
  <2>4. q = ChunkStructural(D, E, o, c)
    OBVIOUS
  <2>5. n = Len(D) /\ (D = <<>> <=> n = 0)
    BY <1>1
  <2>. HIDE DEF e, p, n, D, E, c, o
  <2>6. Admits(D, E, o, e)
    <3>1. n # 0 => Len(E) <= e.chunks
      <4>. SUFFICES ASSUME n # 0 PROVE Len(E) <= e.chunks
        OBVIOUS
      <4>1. EndsOk(E, n)
        BY <1>1, <2>1, EndsAreOk
      <4>2. Len(E) <= n /\ Len(E) \in Nat
        BY <1>1, <4>1, EndsCount, SMTT(30)
      <4>. QED BY <1>1, <2>2, <4>2
    <3>. QED BY <2>1, <2>2, <2>5, <3>1 DEF Admits
  <2>7. StructuralTiled(D, E, o, e, p)
    BY <1>1, <2>2, <2>3, StructuralTiles
  <2>8. n <= e.chunks
    BY <1>1, <2>2
  <2>9. p.ok = TRUE /\ SplitUpTo(D, E, o, e, p.val, n)
    BY <2>5, <2>6, <2>7, <2>8 DEF StructuralTiled
  <2>10. p.val \in Seq(Drafts)
    BY <2>9 DEF SplitUpTo, Tiles
  <2>11. ~(Len(p.val) <= c.chunks)
    <3>. SUFFICES ASSUME Len(p.val) <= c.chunks PROVE FALSE
      OBVIOUS
    <3>1. Fits(Len(D), o, c)
      BY <2>1, <2>5
    <3>2. p.ok = TRUE /\ Alike(e, c) /\ e \in Configs
      BY <2>2, <2>9
    <3>3. D \in Seq(Nat) /\ E \in Seq(Nat) /\ o \in Origins /\ c \in Configs
      BY <1>1
    <3>4. Keeps(p, c.chunks)
      BY DEF Keeps
    <3>5. q.ok = TRUE
      BY <2>3, <2>4, <2>6, <3>1, <3>2, <3>3, <3>4, StructuralCount
    <3>. QED BY <1>3, <3>5
  <2>. QED BY <1>0, <2>9, <2>10, <2>11, MoreThanLimit DEF p, c
<1>5. ASSUME q.ok = TRUE
      PROVE  Fits(n, o, c) /\ Tiles(list, o, n) /\ ListExact(k, list)
  <2>1. Admits(D, E, o, c) /\ SplitUpTo(D, E, o, c, list, n)
    BY <1>2, <1>5 DEF StructuralTiled
  <2>2. /\ Tiles(list, o, n) /\ AllInRegions(D, E, c, o, list) /\ Len(list) <= c.chunks
    BY <2>1 DEF SplitUpTo
  <2>3. ASSUME NEW j \in 1 .. Len(list)
        PROVE  PlacedAt(k, list[j].offset - o.base, (list[j].offset - o.base) + list[j].len)
    <3>. DEFINE x == list[j].offset - o.base
                len == list[j].len
    <3>1. PICK i \in 1 .. Len(E) : RegionChunk(D, E, c, x, len, i)
      BY <2>2 DEF AllInRegions
    <3>2. x \in Nat /\ len \in Nat /\ len > 0 /\ x + len <= n
      <4>1. x = list[j].offset - o.base /\ len = list[j].len /\ Tiles(list, o, n)
        BY <2>2
      <4>. HIDE DEF x, len, o, n, list
      <4>. QED BY <1>1, <4>1, TilesPlace
    <3>3. EndsOk(E, n)
      <4>1. D # <<>>
        <5>1. Len(E) # 0
          BY <1>1, <3>1
        <5>. QED BY <1>1, <2>1, <5>1 DEF Admits
      <4>2. BoundaryEndsValid(E, n)
        BY <2>1, <4>1 DEF Admits
      <4>. QED BY <1>1, <4>2, EndsAreOk
    <3>. HIDE DEF x, len
    <3>4. PlacedAt(k, x, x + len)
      BY <1>0, <1>1, <3>1, <3>2, <3>3, PlacedRegion
    <3>. QED BY <3>4 DEF x, len
  <2>4. AllPlaced(k, list)
    BY <2>3 DEF AllPlaced
  <2>5. Fits(n, o, c)
    BY <2>1 DEF Admits
  <2>. QED BY <1>0, <2>2, <2>4, <2>5, ListIsExact
<1>6. q.ok = TRUE \/ q.ok = FALSE
  BY <1>2 DEF StructuralTiled
<1>. QED BY <1>3, <1>5, <1>6 DEF Exactly

\* Every call in memory covers its object exactly, or its object does not fit or has too
\* many chunks.
LEMMA InMemoryExact ==
    ASSUME NEW k, CallFull(k), k.kind \in Kinds
    PROVE  Exactly(k, InMemory(k))
<1>1. CASE k.kind \in {"fastcdc", "fastcdc_reader"}
  <2>1. InMemory(k) = ChunkFastCdc(k.data, k.origin, k.cfg)
    BY <1>1, Zenon DEF InMemory
  <2>. QED BY <1>1, <2>1, FastCdcExact
<1>2. CASE k.kind = "fixed"
  <2>0. k.kind \notin {"fastcdc", "fastcdc_reader"}
    BY <1>2
  <2>1. InMemory(k) = ChunkFixedHighEntropy(Len(k.data), k.origin, k.cfg)
    BY <1>2, <2>0, Zenon DEF InMemory
  <2>. QED BY <1>2, <2>1, FixedExact
<1>3. CASE Wholes(k)
  <2>0. k.kind \notin {"fastcdc", "fastcdc_reader"} /\ k.kind # "fixed"
    BY <1>3 DEF Wholes
  <2>1. InMemory(k) = ChunkStructural(k.data, k.ends, k.origin, k.cfg)
    BY <2>0, Zenon DEF InMemory
  <2>. QED BY <1>3, <2>1, StructuralExact
<1>. QED BY <1>1, <1>2, <1>3 DEF Kinds, Wholes

-----------------------------------------------------------------------------
(* Every call that is made.                                                *)

\* The call is one of those made, its outcome the in-memory call's or a fault, and its
\* ids those of its drafts in some order.
ExactInv ==
    /\ chunkPc # "idle" => call \in ChunkCalls
    /\ (Ended /\ call.kind \notin Readers) => outcome = InMemory(call) \/ outcome = Err("cancelled")
    /\ chunkPc = "assigned" =>
            /\ outcome.ok
            /\ \E p \in Orders(Len(AllDrafts)) :
                  ids = AssignChunkIds(Permuted(AllDrafts, p), call.cfg.chunks)

\* It holds at the start.
LEMMA ExactStarts ==
    ASSUME Init
    PROVE  ExactInv
<1>1. PICK k : /\ ChunkInitWith(k)
               /\ k = NoCall \/ k \in ChunkCalls
  BY DEF Init
<1>2. call = k /\ chunkPc = StartOf(k)
  BY <1>1 DEF ChunkInitWith
<1>3. chunkPc = "idle" \/ (chunkPc = "called" /\ k \in ChunkCalls)
  BY <1>1, <1>2 DEF StartOf
<1>. QED BY <1>2, <1>3 DEF ExactInv, Ended

\* A step of a call over a reader.
LEMMA ReadingExact ==
    ASSUME ExactInv, chunkPc # "idle", call.kind \in Readers, call' = call, chunkPc' # "assigned"
    PROVE  ExactInv'
<1>1. call' \in ChunkCalls /\ call'.kind \in Readers
  BY DEF ExactInv
<1>. QED BY <1>1 DEF ExactInv

\* Only a call over a reader is at its data.
LEMMA Reading ==
    ASSUME StreamInv, chunkPc \in {"fill", "region", "consume"}
    PROVE  call.kind \in Readers
<1>1. ASSUME NEW r, NEW list, RegionsAt(call, r, list) PROVE call.kind \in Readers
  BY <1>1 DEF RegionsAt, Readers
<1>2. CASE chunkPc = "fill"
  <2>1. FillOk(call, pos, cdc, region, chunks)
    BY <1>2 DEF StreamInv
  <2>2. CASE WholeFill(call, pos, cdc)
    BY <2>2 DEF WholeFill, Readers
  <2>3. CASE \E a, b : RegionFill(call, pos, cdc, region, chunks, a, b)
    BY <1>1, <2>3 DEF RegionFill
  <2>. QED BY <2>1, <2>2, <2>3 DEF FillOk
<1>3. CASE chunkPc = "region"
  BY <1>1, <1>3 DEF StreamInv, AtRegion
<1>4. CASE chunkPc = "consume"
  BY <1>1, <1>4 DEF StreamInv, InRegion
<1>. QED BY <1>2, <1>3, <1>4

\* The steps of the call.
LEMMA ExactStep ==
    ASSUME StreamInv, ExactInv, [Next]_vars
    PROVE  ExactInv'
<1>1. CASE UNCHANGED chunkVars
  BY <1>1 DEF chunkVars, ExactInv, Ended, AllDrafts
<1>2. CASE BeginMemory
  <2>1. /\ chunkPc = "called" /\ call' = call /\ chunkPc' = "returned"
        /\ outcome' = InMemory(call)
    BY <1>2 DEF BeginMemory, Return
  <2>2. outcome' = InMemory(call')
    BY <2>1
  <2>. QED BY <2>1, <2>2 DEF ExactInv
<1>3. CASE BeginFastCdcReader \/ BeginStructuralReader
  <2>1. /\ chunkPc = "called" /\ call' = call /\ call.kind \in Readers
    BY <1>3 DEF BeginFastCdcReader, BeginStructuralReader, Readers
  <2>2. chunkPc' # "assigned"
    BY <1>3 DEF BeginFastCdcReader, BeginStructuralReader, Return
  <2>. QED BY <2>1, <2>2, ReadingExact
<1>4. CASE FillBuffer \/ NextChunk \/ EndCdc
  <2>1. chunkPc = "fill" /\ call' = call
    BY <1>4, ZenonT(40) DEF FillBuffer, NextChunk, EndCdc, Filling
  <2>2. chunkPc' # "assigned"
    BY <1>4, <2>1 DEF FillBuffer, NextChunk, EndCdc, Return
  <2>3. call.kind \in Readers
    BY <2>1, Reading
  <2>. QED BY <2>1, <2>2, <2>3, ReadingExact, SMTT(30)
<1>5. CASE BeginRegion \/ ConsumeExactRegion \/ ReadTrailing
  <2>1. chunkPc \in {"region", "consume"} /\ call' = call
    BY <1>5 DEF BeginRegion, ConsumeExactRegion, ReadTrailing
  <2>2. chunkPc' # "assigned"
    BY <1>5, <2>1 DEF BeginRegion, ConsumeExactRegion, ReadTrailing, Return
  <2>3. call.kind \in Readers
    BY <2>1, Reading
  <2>. QED BY <2>1, <2>2, <2>3, ReadingExact
<1>6. CASE ReadFails
  <2>1. chunkPc \in {"fill", "region", "consume"} /\ call' = call /\ chunkPc' = "returned"
    BY <1>6 DEF ReadFails, Filling, Return
  <2>2. call.kind \in Readers
    BY <2>1, Reading
  <2>. QED BY <2>1, <2>2, ReadingExact
<1>7. CASE CheckpointFails
  <2>1. /\ chunkPc # "idle" /\ call' = call /\ chunkPc' = "returned"
        /\ outcome' = Err("cancelled")
    BY <1>7 DEF CheckpointFails, Return
  <2>. QED BY <2>1 DEF ExactInv
<1>8. CASE AssignIds
  <2>1. /\ chunkPc = "returned" /\ outcome.ok /\ call' = call /\ outcome' = outcome
        /\ chunkPc' = "assigned"
    BY <1>8 DEF AssignIds
  <2>2. PICK p \in Orders(Len(AllDrafts)) :
            ids' = AssignChunkIds(Permuted(AllDrafts, p), call.cfg.chunks)
    BY <1>8 DEF AssignIds
  <2>3. AllDrafts' = AllDrafts
    BY <2>1 DEF AllDrafts
  <2>4. p \in Orders(Len(AllDrafts')) /\ ids' = AssignChunkIds(Permuted(AllDrafts', p), call'.cfg.chunks)
    BY <2>1, <2>2, <2>3, Zenon
  <2>5. /\ call' \in ChunkCalls
        /\ call'.kind \notin Readers => outcome' = InMemory(call') \/ outcome' = Err("cancelled")
    BY <2>1 DEF ExactInv, Ended
  <2>6. outcome'.ok
    BY <2>1
  <2>. HIDE DEF AllDrafts
  <2>. QED BY <2>4, <2>5, <2>6, Zenon DEF ExactInv
<1>. QED BY <1>1, <1>2, <1>3, <1>4, <1>5, <1>6, <1>7, <1>8 DEF Next, ChunkNext, vars

\* The calls that are made, as assumed.
LEMMA CallsAre ==
    ASSUME NEW k \in ChunkCalls
    PROVE  CallFull(k) /\ CallOk(k) /\ k.kind \in Kinds /\ Assignable(k.others)
<1>1. CallOk(k)
  BY LogicalChunkingAssumption DEF CallOk, Origins, Configs
<1>0. CallFull(k)
  <2>1. {"kind", "data", "ends", "origin", "cfg", "others"} \subseteq DOMAIN k
    BY LogicalChunkingAssumption, Zenon
  <2>. QED BY <1>1, <2>1 DEF CallFull
<1>2. k.kind \in Kinds
  BY LogicalChunkingAssumption, Zenon
<1>3. Assignable(k.others)
  BY LogicalChunkingAssumption, Zenon DEF Assignable
<1>. QED BY <1>0, <1>1, <1>2, <1>3

\* The result of a call that ended.
LEMMA OutcomeExact ==
    ASSUME StreamInv, ExactInv, Ended
    PROVE  /\ TileOk(call, outcome)
           /\ outcome.ok => /\ Fits(Len(call.data), call.origin, call.cfg)
                            /\ Tiles(outcome.val, call.origin, Len(call.data))
<1>. DEFINE M == InMemory(call)
<1>1. call \in ChunkCalls
  BY DEF ExactInv, Ended
<1>2. CallFull(call) /\ call.kind \in Kinds
  BY <1>1, CallsAre
<1>3. Exactly(call, M)
  BY <1>2, InMemoryExact
<1>4. \/ ~outcome.ok /\ outcome.val \in Faults
      \/ outcome.ok = M.ok /\ (outcome.ok => outcome.val = M.val)
  <2>1. CASE call.kind \in Readers
    <3>1. Agrees(call, outcome)
      BY <2>1 DEF StreamInv
    <3>. HIDE DEF M
    <3>. QED BY <3>1 DEF Agrees, M
  <2>2. CASE call.kind \notin Readers
    <3>1. outcome = M \/ outcome = Err("cancelled")
      BY <2>2 DEF ExactInv
    <3>2. outcome = Err("cancelled") => ~outcome.ok /\ outcome.val \in Faults
      BY OkIs DEF Faults
    <3>. HIDE DEF M
    <3>. QED BY <3>1, <3>2
  <2>. QED BY <2>1, <2>2
<1>. HIDE DEF M
<1>5. CASE ~outcome.ok /\ outcome.val \in Faults
  BY <1>5 DEF TileOk
<1>6. CASE outcome.ok = M.ok /\ (outcome.ok => outcome.val = M.val)
  BY <1>3, <1>6 DEF TileOk, Exactly
<1>. QED BY <1>4, <1>5, <1>6

\* The chunks of a list that covers its object can be given ids.
LEMMA TilesAssignable ==
    ASSUME NEW list, NEW o \in Origins, NEW n, Tiles(list, o, n), o.base + n <= OffsetMax
    PROVE  Assignable(list)
<1>1. list \in Seq(Drafts) /\ n \in Nat /\ o.base \in Nat /\ OffsetMax \in Nat
  BY OffsetIsNat DEF Tiles, Origins
<1>2. ASSUME NEW i \in 1 .. Len(list)
      PROVE  list[i].len # 0 /\ list[i].offset + list[i].len <= OffsetMax
  <2>1. list[i].offset + list[i].len <= o.base + n
    BY TilesInside
  <2>2. list[i] \in Drafts
    BY <1>1
  <2>3. list[i].offset \in Nat /\ list[i].len \in Nat
    BY <2>2, DraftTypes
  <2>4. list[i].len > 0
    BY DEF Tiles, Follows
  <2>. QED BY <1>1, <2>1, <2>3, <2>4, SMTT(30)
<1>. QED BY <1>1, <1>2 DEF Assignable

\* Two lists of such drafts.
LEMMA JoinAssignable ==
    ASSUME NEW x, NEW y, Assignable(x), Assignable(y)
    PROVE  Assignable(x \o y)
<1>. DEFINE z == x \o y
            Good(d) == (d.len # 0 \/ d.method = "MicroFile") /\ d.offset + d.len <= OffsetMax
<1>1. x \in Seq(Drafts) /\ y \in Seq(Drafts)
  BY DEF Assignable
<1>2. (\A i \in 1 .. Len(x) : Good(x[i])) /\ (\A i \in 1 .. Len(y) : Good(y[i]))
  BY DEF Assignable
<1>3. /\ z \in Seq(Drafts) /\ Len(z) = Len(x) + Len(y)
      /\ \A i \in 1 .. Len(x) : z[i] = x[i]
      /\ \A i \in 1 .. Len(y) : z[Len(x) + i] = y[i]
  BY <1>1, JoinIs
<1>. HIDE DEF z, Good
<1>4. ASSUME NEW i \in 1 .. Len(z) PROVE Good(z[i])
  <2>0. Len(x) \in Nat /\ Len(y) \in Nat
    BY <1>1
  <2>1. CASE i <= Len(x)
    <3>1. i \in 1 .. Len(x)
      BY <2>0, <2>1
    <3>. QED BY <1>2, <1>3, <3>1, Zenon
  <2>2. CASE ~(i <= Len(x))
    <3>. DEFINE j == i - Len(x)
    <3>1. j \in 1 .. Len(y) /\ Len(x) + j = i
      BY <1>3, <2>0, <2>2
    <3>. HIDE DEF j
    <3>2. z[i] = y[j]
      BY <1>3, <3>1
    <3>. QED BY <1>2, <3>1, <3>2, Zenon
  <2>. QED BY <2>1, <2>2
<1>5. Assignable(z)
  BY <1>3, <1>4 DEF Assignable, Good
<1>. QED BY <1>5 DEF z

\* The ids of a call that has them.
LEMMA IdsExact ==
    ASSUME StreamInv, ExactInv
    PROVE  IdsAreCanonical
<1>. SUFFICES ASSUME chunkPc = "assigned" PROVE Numbered(ids, AllDrafts, call.cfg.chunks)
  BY DEF IdsAreCanonical, Numbered, DistinctKeys
<1>1. Ended /\ outcome.ok /\ call \in ChunkCalls
  BY DEF Ended, ExactInv
<1>2. CallOk(call) /\ Assignable(call.others)
  BY <1>1, CallsAre
<1>3. Fits(Len(call.data), call.origin, call.cfg) /\ Tiles(outcome.val, call.origin, Len(call.data))
  BY <1>1, OutcomeExact
<1>4. Assignable(outcome.val)
  BY <1>2, <1>3, TilesAssignable DEF Fits, CallOk
<1>5. Assignable(AllDrafts)
  BY <1>2, <1>4, JoinAssignable DEF AllDrafts
<1>6. call.cfg.chunks \in Nat \ {0}
  <2>1. call.cfg \in Configs /\ ConfigValid(call.cfg)
    BY <1>2, <1>3 DEF CallOk, Fits
  <2>2. call.cfg.chunks > 0
    BY <2>1, ValidCuts
  <2>. QED BY <2>1, <2>2 DEF Configs
<1>7. PICK p \in Orders(Len(AllDrafts)) :
          ids = AssignChunkIds(Permuted(AllDrafts, p), call.cfg.chunks)
  BY DEF ExactInv
<1>. HIDE DEF AllDrafts
<1>8. Numbered(AssignChunkIds(Permuted(AllDrafts, p), call.cfg.chunks), AllDrafts, call.cfg.chunks)
  BY <1>5, <1>6, AssignIs
<1>. QED BY <1>7, <1>8, Zenon

\* The chunks of every call cover its object exactly, where its content, blocks or
\* regions say, over a reader as in memory, and a call within its limits succeeds
\* (chunk_fastcdc, chunk_fixed_high_entropy, chunk_structural and the readers); their
\* ids number the drafts of all objects in canonical order, whatever order they are
\* delivered in (assign_chunk_ids).  For every object, limit, size and order.
THEOREM ChunksExact == Spec => []ChunksAreExact
<1>1. Init => StreamInv /\ ExactInv
  BY StreamStarts, ExactStarts
<1>2. StreamInv /\ ExactInv /\ [Next]_vars => StreamInv' /\ ExactInv'
  BY StreamStep, ExactStep
<1>3. StreamInv /\ ExactInv => ChunksAreExact
  <2>. SUFFICES ASSUME StreamInv, ExactInv PROVE ChunksAreExact
    OBVIOUS
  <2>1. Ended => TileOk(call, outcome)
    BY OutcomeExact
  <2>. QED BY <2>1, ChunksTileIs, IdsExact DEF ChunksAreExact
<1>. QED BY <1>1, <1>2, <1>3, PTL DEF Spec
=============================================================================
