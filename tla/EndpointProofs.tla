---------------------------- MODULE EndpointProofs ----------------------------
(***************************************************************************)
(* The daemon's endpoint.  First what Connections checks on small          *)
(* workloads, for every number of connections, permits, events and         *)
(* workloads; then the processes that bind it one after the other,         *)
(* DaemonInstances, for any number of processes and jobs and a crash at    *)
(* every step.                                                             *)
(***************************************************************************)
EXTENDS Connections, DaemonInstances, FiniteSetTheorems, TLAPS

-----------------------------------------------------------------------------
(* The invariant.                                                          *)

Places == {"none", "header", "payload", "handle", "events", "state", "write", "leave",
           "leaving", "done"}

\* The tasks that hold a permit.
Holders == {c \in Conns : task[c] \notin {"none", "done"}}

\* Permits are held by tasks that have begun and not ended; the service's table knows
\* only tasks that have not left it; all of them are joined before the socket goes.
SlotInv ==
    /\ task \in [Conns -> Places]
    /\ client \in [Conns -> {"off", "dialled", "open", "closed"}]
    /\ \A c \in Conns : client[c] \in {"off", "dialled"} => task[c] = "none"
    /\ tasks \subseteq Conns
    /\ Holders \subseteq tasks
    /\ slots \in Nat /\ slots + Cardinality(Holders) = MaxConnections
    /\ Registered \subseteq {c \in Conns : Holds(c)}
    /\ server \in {"listen", "retry", "closing", "unlink", "service", "stopped"}
    /\ server \in {"unlink", "service", "stopped"} => tasks = {}
    /\ server \in {"service", "stopped"} => ~linked

\* A limiter against the ideal bucket.
LimiterInv(l, now) ==
    /\ l = [tokens |-> l.tokens, last |-> l.last, ideal |-> l.ideal, exact |-> l.exact]
    /\ l.tokens \in 0 .. Capacity /\ l.ideal \in 0 .. Capacity /\ l.last \in Nat
    /\ l.exact \in BOOLEAN
    /\ Refilled(l, now) <= l.ideal
    /\ l.exact => l.last # 0 /\ l.last <= now /\ Refilled(l, now) = l.ideal

RateInv ==
    /\ clock \in Nat
    /\ \A c \in Registered : LimiterInv(table[c], clock)

\* Of the events up to n, each is among those received, g, or no longer retained by j.
ReceivedTo(n, j, g) == \A s \in 1 .. n : s \in g \/ s < j.lo

\* An answer on its way holds all that was retained after some point, when it was made;
\* the follower already had what lies before the point.
AnswerInv(r, j, g) ==
    /\ r = [what |-> "events", events |-> r.events, after |-> r.after, terminal |-> r.terminal]
    /\ r.after \in Nat /\ ReceivedTo(r.after, j, g)
    /\ \E lo, hi \in Nat :
          /\ 1 <= lo /\ lo <= hi /\ lo <= j.lo /\ hi <= j.hi /\ r.after <= hi
          /\ r.events = {s \in lo .. hi : s > r.after}

JobInv ==
    /\ job.lo \in Nat /\ job.hi \in Nat /\ 1 <= job.lo /\ job.lo <= job.hi
    /\ cursor \in Nat /\ cursor <= job.hi /\ ReceivedTo(cursor, job, got)
    /\ got \subseteq 1 .. job.hi

RepliesInv ==
    /\ reply = [c \in Conns |-> reply[c]]
    /\ \A c \in Conns :
          /\ task[c] = "state" => reply[c].what = "events"
          /\ reply[c].what # "limit"
          /\ reply[c].what = "events" => AnswerInv(reply[c], job, got)

FollowInv == JobInv /\ RepliesInv

ConnInv == SlotInv /\ RateInv /\ FollowInv

-----------------------------------------------------------------------------
(* Facts about the operators.                                              *)

LEMMA ConstantTypes ==
  /\ MaxConnections \in Nat /\ RatePerMs \in Nat /\ TokenUnit \in Nat /\ RetainedEvents \in Nat
  /\ RetainedEvents >= 1 /\ Capacity \in Nat /\ IsFiniteSet(Conns)
<1>1. Burst \in Nat /\ TokenUnit \in Nat
  BY ConnectionsAssumption
<1> QED BY <1>1, ConnectionsAssumption DEF Capacity

LEMMA MaxOfTwo == ASSUME NEW a \in Int, NEW b \in Int PROVE Max({a, b}) = IF a >= b THEN a ELSE b
<1> DEFINE m == IF a >= b THEN a ELSE b
<1>1. m \in {a, b} /\ \A y \in {a, b} : m >= y
  OBVIOUS
<1>2. \A x \in {a, b} : (\A y \in {a, b} : x >= y) => x = m
  OBVIOUS
<1> QED BY <1>1, <1>2 DEF Max

LEMMA MinOfTwo == ASSUME NEW a \in Int, NEW b \in Int PROVE Min({a, b}) = IF a <= b THEN a ELSE b
<1> DEFINE m == IF a <= b THEN a ELSE b
<1>1. m \in {a, b} /\ \A y \in {a, b} : m <= y
  OBVIOUS
<1>2. \A x \in {a, b} : (\A y \in {a, b} : x <= y) => x = m
  OBVIOUS
<1> QED BY <1>1, <1>2 DEF Min

\* The greatest number of an interval that lies after a point.
LEMMA MaxAfter ==
  ASSUME NEW lo \in Nat, NEW hi \in Nat, NEW after \in Nat,
         {s \in lo .. hi : s > after} # {}
  PROVE  Max({s \in lo .. hi : s > after}) = hi
<1> DEFINE S == {s \in lo .. hi : s > after}
<1>1. hi \in S /\ \A y \in S : hi >= y
  OBVIOUS
<1>2. \A x \in S : (\A y \in S : x >= y) => x = hi
  BY <1>1
<1> HIDE DEF S
<1>3. Max(S) = hi
  BY <1>1, <1>2 DEF Max
<1> QED BY <1>3 DEF S

-----------------------------------------------------------------------------
(* The limiter.                                                            *)

LEMMA ElapsedIs ==
  ASSUME NEW l, l.last \in Nat, NEW now \in Nat
  PROVE  Elapsed(l, now) = IF l.last = 0 \/ now <= l.last THEN 0 ELSE now - l.last
<1>1. Max({0, now - l.last}) = IF 0 >= now - l.last THEN 0 ELSE now - l.last
  BY MaxOfTwo
<1> QED BY <1>1 DEF Elapsed

LEMMA TimesMonotone ==
  ASSUME NEW a \in Nat, NEW b \in Nat, NEW r \in Nat, a <= b
  PROVE  a * r <= b * r /\ a * r \in Nat /\ (a + 1) * r = a * r + r
  OBVIOUS

LEMMA RefilledIs ==
  ASSUME NEW l, l.last \in Nat, l.tokens \in 0 .. Capacity, NEW now \in Nat
  PROVE  LET t == l.tokens + Elapsed(l, now) * RatePerMs
         IN  /\ t \in Nat /\ t >= l.tokens /\ Elapsed(l, now) \in Nat
             /\ Refilled(l, now) = IF Capacity <= t THEN Capacity ELSE t
             /\ Refilled(l, now) \in 0 .. Capacity
<1>1. Elapsed(l, now) \in Nat
  BY ElapsedIs
<1> DEFINE e == Elapsed(l, now)
           t == l.tokens + e * RatePerMs
<1>2. t \in Nat /\ t >= l.tokens
  <2> HIDE DEF e
  <2>1. e * RatePerMs \in Nat
    BY <1>1, ConstantTypes, TimesMonotone DEF e
  <2> QED BY <2>1, ConstantTypes
<1>3. Refilled(l, now) = IF Capacity <= t THEN Capacity ELSE t
  <2> HIDE DEF e
  <2>1. Refilled(l, now) = Min({Capacity, t})
    BY DEF Refilled, e
  <2> HIDE DEF t
  <2> QED BY <1>2, <2>1, MinOfTwo, ConstantTypes
<1> HIDE DEF t
<1>4. Refilled(l, now) \in 0 .. Capacity
  BY <1>2, <1>3, ConstantTypes
<1> QED BY <1>1, <1>2, <1>3, <1>4 DEF t

\* An older time refills no more.
LEMMA RefillMonotone ==
  ASSUME NEW l, l.last \in Nat, l.tokens \in 0 .. Capacity, NEW now \in Nat, NEW then \in Nat, then <= now
  PROVE  Refilled(l, then) <= Refilled(l, now)
<1> DEFINE e == Elapsed(l, then)
           f == Elapsed(l, now)
<1>1. e \in Nat /\ f \in Nat /\ e <= f
  BY ElapsedIs
<1>2. /\ Refilled(l, then) = IF Capacity <= l.tokens + e * RatePerMs THEN Capacity ELSE l.tokens + e * RatePerMs
      /\ Refilled(l, now) = IF Capacity <= l.tokens + f * RatePerMs THEN Capacity ELSE l.tokens + f * RatePerMs
  BY RefilledIs
<1> HIDE DEF e, f
<1>3. e * RatePerMs <= f * RatePerMs /\ e * RatePerMs \in Nat /\ f * RatePerMs \in Nat
  BY <1>1, ConstantTypes, TimesMonotone
<1> QED BY <1>2, <1>3, ConstantTypes

\* A limiter that may be asked: one of the table, or a new one.
Askable(l, now) ==
    /\ l = [tokens |-> l.tokens, last |-> l.last, ideal |-> l.ideal, exact |-> l.exact]
    /\ l.tokens \in 0 .. Capacity /\ l.ideal \in 0 .. Capacity /\ l.last \in Nat
    /\ l.exact \in BOOLEAN
    /\ Refilled(l, now) <= l.ideal
    /\ l.exact => Refilled(l, now) = l.ideal

LEMMA NewIsAskable == ASSUME NEW now \in Nat PROVE Askable(NewLimiter, now)
<1> DEFINE l == NewLimiter
<1>1. l.tokens = Capacity /\ l.last = 0 /\ l.ideal = Capacity /\ l.exact = TRUE
  BY DEF NewLimiter
<1>2. l = [tokens |-> l.tokens, last |-> l.last, ideal |-> l.ideal, exact |-> l.exact]
  BY DEF NewLimiter
<1> HIDE DEF l
<1>3. Capacity \in Nat
  BY ConstantTypes
<1>4. Refilled(l, now) = Capacity
  <2>1. Elapsed(l, now) = 0
    BY <1>1 DEF Elapsed
  <2> QED BY <1>1, <1>3, <2>1, RefilledIs, ConstantTypes
<1>5. l.exact \in BOOLEAN
  BY <1>1, Zenon
<1>6. l.tokens \in 0 .. Capacity /\ l.ideal \in 0 .. Capacity /\ l.last \in Nat
  BY <1>1, <1>3
<1>7. Refilled(l, now) <= l.ideal /\ Refilled(l, now) = l.ideal
  BY <1>1, <1>3, <1>4
<1>8. Askable(l, now)
  BY <1>2, <1>5, <1>6, <1>7, Zenon DEF Askable
<1> QED BY <1>8 DEF l

\* allow takes as much from the limiter as from the ideal bucket, at the same time.
LEMMA AllowKeeps ==
  ASSUME NEW now \in Nat, NEW l, Askable(l, now)
  PROVE  LimiterInv(Allow(l, now), now)
<1> DEFINE taken == IF Allowed(l, now) THEN TokenUnit ELSE 0
           a == Allow(l, now)
<1>1. a = [tokens |-> Refilled(l, now) - taken, last |-> now, ideal |-> l.ideal - taken,
           exact |-> (l.exact /\ now # 0)]
  <2> HIDE DEF taken
  <2>1. a = [l EXCEPT !.tokens = Refilled(l, now) - taken, !.last = now, !.ideal = @ - taken,
                      !.exact = @ /\ now # 0]
    BY DEF Allow, taken
  <2>2. l = [tokens |-> l.tokens, last |-> l.last, ideal |-> l.ideal, exact |-> l.exact]
    BY DEF Askable
  <2> HIDE DEF a
  <2> QED BY <2>1, <2>2
<1>2. Refilled(l, now) \in 0 .. Capacity /\ Capacity \in Nat /\ TokenUnit \in Nat
  BY RefilledIs, ConstantTypes DEF Askable
<1>3. taken \in Nat /\ taken <= Refilled(l, now)
  BY <1>2 DEF Allowed
<1>4. l.ideal \in 0 .. Capacity /\ Refilled(l, now) <= l.ideal
  BY DEF Askable
<1> HIDE DEF taken, a
<1>5. /\ a.tokens = Refilled(l, now) - taken /\ a.last = now /\ a.ideal = l.ideal - taken
      /\ a = [tokens |-> a.tokens, last |-> a.last, ideal |-> a.ideal, exact |-> a.exact]
  BY <1>1
<1>6. a.exact = (l.exact /\ now # 0)
  BY <1>1
<1>7. a.tokens \in 0 .. Capacity /\ a.ideal \in 0 .. Capacity /\ a.last \in Nat /\ a.tokens <= a.ideal
  BY <1>2, <1>3, <1>4, <1>5
<1>8. Refilled(a, now) = a.tokens
  <2>1. Elapsed(a, now) = 0
    BY <1>5, <1>7, ElapsedIs
  <2>2. Refilled(a, now) = IF Capacity <= a.tokens + 0 * RatePerMs THEN Capacity
                           ELSE a.tokens + 0 * RatePerMs
    BY <1>7, <2>1, RefilledIs
  <2> QED BY <1>2, <1>7, <2>2, ConstantTypes
<1>9. a.exact \in BOOLEAN
  BY <1>6
<1>10. ASSUME a.exact PROVE a.last # 0 /\ a.last <= now /\ Refilled(a, now) = a.ideal
  <2>1. l.exact /\ now # 0
    BY <1>6, <1>10
  <2> QED BY <1>2, <1>3, <1>5, <1>8, <2>1 DEF Askable
<1>11. LimiterInv(a, now)
  BY <1>5, <1>7, <1>8, <1>9, <1>10 DEF LimiterInv
<1> QED BY <1>11 DEF a

\* A tick adds to both the same, up to the capacity.
LEMMA TickKeeps ==
  ASSUME NEW now \in Nat, NEW l, LimiterInv(l, now)
  PROVE  LimiterInv([l EXCEPT !.ideal = Min({Capacity, @ + RatePerMs})], now + 1)
<1> DEFINE a == [l EXCEPT !.ideal = Min({Capacity, @ + RatePerMs})]
           i == Min({Capacity, l.ideal + RatePerMs})
<1>1. a = [tokens |-> l.tokens, last |-> l.last, ideal |-> i, exact |-> l.exact]
  <2>1. a = [l EXCEPT !.ideal = i]
    OBVIOUS
  <2> HIDE DEF a, i
  <2> QED BY <2>1 DEF LimiterInv
<1>2. Capacity \in Nat /\ RatePerMs \in Nat /\ l.ideal \in 0 .. Capacity
  BY ConstantTypes DEF LimiterInv
<1>3. i = IF Capacity <= l.ideal + RatePerMs THEN Capacity ELSE l.ideal + RatePerMs
  BY <1>2, MinOfTwo
<1> HIDE DEF a, i
<1>4. /\ a.tokens = l.tokens /\ a.last = l.last /\ a.ideal = i /\ a.exact = l.exact
      /\ a = [tokens |-> a.tokens, last |-> a.last, ideal |-> a.ideal, exact |-> a.exact]
  BY <1>1
<1>5. l.tokens \in 0 .. Capacity /\ l.last \in Nat /\ i \in 0 .. Capacity
  BY <1>2, <1>3 DEF LimiterInv
<1> DEFINE e == Elapsed(l, now)
           f == Elapsed(l, now + 1)
<1>6. /\ e \in Nat /\ f \in Nat /\ f \in {e, e + 1}
      /\ l.last # 0 /\ l.last <= now => f = e + 1
  BY <1>5, ElapsedIs
<1>7. Elapsed(a, now + 1) = f
  BY <1>4 DEF Elapsed
<1>8. /\ Refilled(l, now) = IF Capacity <= l.tokens + e * RatePerMs THEN Capacity ELSE l.tokens + e * RatePerMs
      /\ Refilled(a, now + 1) = IF Capacity <= l.tokens + f * RatePerMs THEN Capacity ELSE l.tokens + f * RatePerMs
  BY <1>4, <1>5, <1>7, RefilledIs
<1> HIDE DEF e, f
<1>9. e * RatePerMs \in Nat /\ (e + 1) * RatePerMs = e * RatePerMs + RatePerMs
  BY <1>2, <1>6, TimesMonotone
<1> DEFINE x == e * RatePerMs
<1>10. f * RatePerMs = x \/ f * RatePerMs = x + RatePerMs
  BY <1>6, <1>9
<1>11. l.last # 0 /\ l.last <= now => f * RatePerMs = x + RatePerMs
  BY <1>6, <1>9
<1>12. x \in Nat
  BY <1>9
<1> DEFINE y == f * RatePerMs
<1> HIDE DEF x, y
<1>13. /\ Refilled(l, now) = IF Capacity <= l.tokens + x THEN Capacity ELSE l.tokens + x
       /\ Refilled(a, now + 1) = IF Capacity <= l.tokens + y THEN Capacity ELSE l.tokens + y
       /\ y = x \/ y = x + RatePerMs
       /\ l.last # 0 /\ l.last <= now => y = x + RatePerMs
  BY <1>8, <1>10, <1>11 DEF x, y
<1>14. Refilled(l, now) <= l.ideal => Refilled(a, now + 1) <= i
  BY <1>2, <1>3, <1>5, <1>12, <1>13
<1>15. Refilled(l, now) = l.ideal /\ l.last # 0 /\ l.last <= now => Refilled(a, now + 1) = i
  BY <1>2, <1>3, <1>5, <1>12, <1>13
<1>16. LimiterInv(a, now + 1)
  BY <1>4, <1>5, <1>14, <1>15 DEF LimiterInv
<1> QED BY <1>16 DEF a

\* A clock set back is no more generous, and the limiter no longer exact.
LEMMA StepBackKeeps ==
  ASSUME NEW now \in Nat, NEW then \in Nat, then <= now, NEW l, LimiterInv(l, now)
  PROVE  LimiterInv([l EXCEPT !.exact = FALSE], then)
<1> DEFINE a == [l EXCEPT !.exact = FALSE]
<1>1. a = [tokens |-> l.tokens, last |-> l.last, ideal |-> l.ideal, exact |-> FALSE]
  <2>1. l = [tokens |-> l.tokens, last |-> l.last, ideal |-> l.ideal, exact |-> l.exact]
    BY DEF LimiterInv
  <2>2. ASSUME NEW b
        PROVE  [l EXCEPT !.exact = b] = [tokens |-> l.tokens, last |-> l.last, ideal |-> l.ideal, exact |-> b]
    BY <2>1
  <2> QED BY <2>2, Zenon
<1> HIDE DEF a
<1>2. /\ a.tokens = l.tokens /\ a.last = l.last /\ a.ideal = l.ideal /\ a.exact = FALSE
      /\ a = [tokens |-> a.tokens, last |-> a.last, ideal |-> a.ideal, exact |-> a.exact]
  BY <1>1
<1>3. Refilled(a, then) = Refilled(l, then)
  BY <1>2 DEF Refilled, Elapsed
<1>4. l.last \in Nat /\ l.tokens \in 0 .. Capacity /\ l.ideal \in 0 .. Capacity
  BY DEF LimiterInv
<1>5. Refilled(l, then) <= Refilled(l, now) /\ Refilled(l, then) \in 0 .. Capacity
      /\ Refilled(l, now) \in 0 .. Capacity
  BY <1>4, RefillMonotone, RefilledIs
<1>6. Refilled(a, then) <= a.ideal
  BY <1>2, <1>3, <1>4, <1>5, ConstantTypes DEF LimiterInv
<1>7. LimiterInv(a, then)
  BY <1>2, <1>4, <1>6 DEF LimiterInv
<1> QED BY <1>7 DEF a

\* No step breaks the limiters.
LEMMA NextRate == ASSUME RateInv, [Next]_vars PROVE RateInv'
<1> USE DEF RateInv
<1>1. CASE UNCHANGED <<table, clock>>
  BY <1>1 DEF Registered, LimiterInv, Refilled, Elapsed
<1>2. ASSUME NEW c \in Conns, table' = WithLimiter(c, Allow(Limiter(c), clock)), clock' = clock
      PROVE  RateInv'
  <2>1. Askable(Limiter(c), clock)
    <3>1. CASE c \in Registered
      BY <3>1 DEF Limiter, LimiterInv, Askable
    <3>2. CASE c \notin Registered
      BY <3>2, NewIsAskable DEF Limiter
    <3> QED BY <3>1, <3>2
  <2> DEFINE a == Allow(Limiter(c), clock)
  <2>2. LimiterInv(a, clock)
    BY <2>1, AllowKeeps
  <2> HIDE DEF a
  <2>3. table' = [d \in Registered \cup {c} |-> IF d = c THEN a ELSE table[d]]
    BY <1>2 DEF WithLimiter, a
  <2>4. DOMAIN table' = Registered \cup {c} /\ \A d \in Registered \cup {c} : LimiterInv(table'[d], clock)
    BY <2>2, <2>3
  <2> QED BY <1>2, <2>4 DEF Registered
<1>3. ASSUME NEW c \in Conns, table' = Deregistered(c), clock' = clock PROVE RateInv'
  <2>1. DOMAIN table' = Registered \ {c} /\ \A d \in Registered \ {c} : table'[d] = table[d]
    BY <1>3 DEF Deregistered
  <2> QED BY <1>3, <2>1 DEF Registered
<1>4. CASE Tick
  <2> DEFINE up(c) == [table[c] EXCEPT !.ideal = Min({Capacity, @ + RatePerMs})]
  <2>1. \A c \in Registered : LimiterInv(up(c), clock + 1)
    BY TickKeeps
  <2>2. table' = [c \in Registered |-> up(c)] /\ clock' = clock + 1
    BY <1>4 DEF Tick
  <2> HIDE DEF up
  <2>3. DOMAIN table' = Registered /\ \A c \in Registered : LimiterInv(table'[c], clock')
    BY <2>1, <2>2
  <2> QED BY <2>2, <2>3 DEF Registered
<1>5. CASE StepBack
  <2> DEFINE down(c) == [table[c] EXCEPT !.exact = FALSE]
  <2>1. clock' \in Nat /\ clock' <= clock
    BY <1>5 DEF StepBack
  <2>2. \A c \in Registered : LimiterInv(down(c), clock')
    BY <2>1, StepBackKeeps
  <2>3. table' = [c \in Registered |-> down(c)]
    BY <1>5 DEF StepBack
  <2> HIDE DEF down
  <2>4. DOMAIN table' = Registered /\ \A c \in Registered : LimiterInv(table'[c], clock')
    BY <2>2, <2>3
  <2> QED BY <2>1, <2>4 DEF Registered
<1>6. \/ UNCHANGED <<table, clock>> \/ Tick \/ StepBack
      \/ \E c \in Conns : clock' = clock /\ (\/ table' = WithLimiter(c, Allow(Limiter(c), clock))
                                             \/ table' = Deregistered(c))
  <2>1. ASSUME NEW c \in Conns, TaskStep(c)
        PROVE  clock' = clock /\ (\/ table' = table
                                  \/ table' = WithLimiter(c, Allow(Limiter(c), clock))
                                  \/ table' = Deregistered(c))
    BY <2>1 DEF TaskStep, ReadHeader, ReadPayload, ReadEnds, HandleFrame, PollEvents, PollState,
                Write, WriteFails, Aborted, DropRegistration, DropPermit, worldVars
  <2>2. ASSUME NEW c \in Conns, PollDeadline(c) \/ ClientStep(c) PROVE UNCHANGED <<table, clock>>
    BY <2>2 DEF PollDeadline, ClientStep, Dial, SendHeader, SendPayload, Hangup, worldVars
  <2>3. ASSUME ServerStep \/ AcceptFails \/ AskShutdown \/ Degrade \/ JobEvent
        PROVE  UNCHANGED <<table, clock>>
    BY <2>3 DEF ServerStep, Accept, JoinNext, RetryDelay, SeeShutdown, AllJoined, Unlink,
                ServiceShutdown, AcceptFails, AskShutdown, Degrade, JobEvent, taskVars, worldVars
  <2>4. vars' = vars => UNCHANGED <<table, clock>>
    BY DEF vars, taskVars, worldVars
  <2> QED BY <2>1, <2>2, <2>3, <2>4 DEF Next
<1> QED BY <1>1, <1>2, <1>3, <1>4, <1>5, <1>6

-----------------------------------------------------------------------------
(* Permits and the table.                                                  *)

LEMMA HoldersFinite ==
  /\ IsFiniteSet(Holders) /\ Cardinality(Holders) \in Nat
  /\ \A S \in SUBSET Holders : IsFiniteSet(S) /\ Cardinality(S) \in Nat
                               /\ Cardinality(S) <= Cardinality(Holders)
<1>1. Holders \subseteq Conns
  BY DEF Holders
<1>2. IsFiniteSet(Holders)
  BY <1>1, ConstantTypes, FS_Subset
<1> QED BY <1>2, FS_Subset, FS_CardinalityType

\* A task that works on a frame has a place in the table: the others in it hold the
\* other permits.
LEMMA NeverRefused == ASSUME SlotInv, NEW c \in Conns, Holds(c) PROVE ~Refuses(c)
<1> SUFFICES ASSUME c \notin Registered, Cardinality(Registered) >= MaxConnections PROVE FALSE
  BY DEF Refuses
<1>1. Registered \in SUBSET Holders /\ c \in Holders
  BY DEF SlotInv, Holders, Holds
<1>2. Registered \cup {c} \in SUBSET Holders
  BY <1>1
<1>3. IsFiniteSet(Registered) /\ Cardinality(Registered) \in Nat
  BY <1>1, HoldersFinite
<1>4. Cardinality(Registered \cup {c}) = Cardinality(Registered) + 1
  BY <1>3, FS_AddElement
<1>5. Cardinality(Registered \cup {c}) <= Cardinality(Holders)
  BY <1>2, HoldersFinite
<1> QED BY <1>3, <1>4, <1>5, HoldersFinite, ConstantTypes DEF SlotInv

\* A task goes on without ending.
LEMMA SlotMoves ==
  ASSUME SlotInv, NEW c \in Conns, Holds(c), NEW p \in Places \ {"none", "leaving", "done"},
         task' = [task EXCEPT ![c] = p], Registered' \subseteq Registered \cup {c},
         UNCHANGED <<server, linked, tasks, slots, client>>
  PROVE  SlotInv'
<1>1. /\ task' \in [Conns -> Places]
      /\ \A d \in Conns : task'[d] = IF d = c THEN p ELSE task[d]
  BY DEF SlotInv
<1>2. Holders' = Holders
  BY <1>1 DEF Holders, Holds
<1>3. \A d \in Conns : client'[d] \in {"off", "dialled"} => task'[d] = "none"
  BY <1>1 DEF SlotInv, Holds
<1>4. Registered' \subseteq {d \in Conns : Holds(d)'}
  BY <1>1 DEF SlotInv, Holds
<1> QED BY <1>1, <1>2, <1>3, <1>4 DEF SlotInv

\* The tasks and the permits stay where they are.
LEMMA SlotStays ==
  ASSUME SlotInv, UNCHANGED <<task, slots>>, Registered' = Registered,
         client' \in [Conns -> {"off", "dialled", "open", "closed"}],
         \A c \in Conns : client'[c] \in {"off", "dialled"} => client[c] \in {"off", "dialled"},
         tasks' \subseteq Conns, Holders \subseteq tasks',
         server' \in {"listen", "retry", "closing", "unlink", "service", "stopped"},
         server' \in {"unlink", "service", "stopped"} => tasks' = {},
         server' \in {"service", "stopped"} => ~linked'
  PROVE  SlotInv'
<1>1. Holders' = Holders
  BY DEF Holders
<1>2. {d \in Conns : Holds(d)'} = {d \in Conns : Holds(d)}
  BY DEF Holds
<1> QED BY <1>1, <1>2 DEF SlotInv

LEMMA AcceptSlots == ASSUME SlotInv, NEW c \in Conns, Accept(c) PROVE SlotInv'
<1>1. UNCHANGED <<server, linked, table>> /\ client[c] = "dialled" /\ server = "listen"
  BY DEF Accept
<1>2. Registered' = Registered
  BY <1>1 DEF Registered
<1>3. CASE TurnAway(c)
  <2>1. UNCHANGED <<task, slots, tasks>> /\ client' = [client EXCEPT ![c] = "closed"]
    BY <1>3 DEF TurnAway
  <2>2. /\ client' \in [Conns -> {"off", "dialled", "open", "closed"}]
        /\ \A d \in Conns : client'[d] \in {"off", "dialled"} => client[d] \in {"off", "dialled"}
    BY <2>1 DEF SlotInv
  <2> QED BY <1>1, <1>2, <2>1, <2>2, SlotStays DEF SlotInv
<1>4. CASE slots > 0 /\ Serve(c)
  <2>1. /\ slots' = slots - 1 /\ tasks' = tasks \cup {c}
        /\ task' = [task EXCEPT ![c] = "header"] /\ client' = [client EXCEPT ![c] = "open"]
    BY <1>4 DEF Serve
  <2>2. /\ task' \in [Conns -> Places]
        /\ \A d \in Conns : task'[d] = IF d = c THEN "header" ELSE task[d]
    BY <2>1 DEF SlotInv, Places
  <2>3. /\ client' \in [Conns -> {"off", "dialled", "open", "closed"}]
        /\ \A d \in Conns : client'[d] = IF d = c THEN "open" ELSE client[d]
    BY <2>1 DEF SlotInv
  <2>4. task[c] = "none"
    BY <1>1 DEF SlotInv
  <2>5. Holders' = Holders \cup {c} /\ c \notin Holders
    BY <2>2, <2>4 DEF Holders
  <2>6. Cardinality(Holders') = Cardinality(Holders) + 1
    BY <2>5, HoldersFinite, FS_AddElement
  <2>7. slots' \in Nat /\ slots' + Cardinality(Holders') = MaxConnections
    BY <1>4, <2>1, <2>6, HoldersFinite, ConstantTypes DEF SlotInv
  <2>8. Registered' \subseteq {d \in Conns : Holds(d)'}
    BY <1>2, <2>2, <2>4 DEF SlotInv, Holds
  <2>9. \A d \in Conns : client'[d] \in {"off", "dialled"} => task'[d] = "none"
    BY <2>2, <2>3 DEF SlotInv
  <2>10. tasks' \subseteq Conns /\ Holders' \subseteq tasks'
    BY <2>1, <2>5 DEF SlotInv
  <2> QED BY <1>1, <2>2, <2>3, <2>7, <2>8, <2>9, <2>10 DEF SlotInv
<1> QED BY <1>3, <1>4 DEF Accept

LEMMA ServerSlots ==
  ASSUME SlotInv,
         ServerStep \/ AcceptFails \/ AskShutdown \/ Degrade \/ JobEvent \/ Tick \/ StepBack
         \/ vars' = vars
  PROVE  SlotInv'
<1>1. CASE \E c \in Conns : Accept(c)
  BY <1>1, AcceptSlots
<1>2. ASSUME UNCHANGED <<task, slots, client, tasks, server, linked>>, Registered' = Registered
      PROVE  SlotInv'
  BY <1>2, SlotStays DEF SlotInv
<1>3. CASE AskShutdown \/ Degrade \/ JobEvent \/ vars' = vars
  BY <1>2, <1>3 DEF AskShutdown, Degrade, JobEvent, vars, serverVars, taskVars, Registered
<1>4. CASE Tick \/ StepBack
  <2>1. Registered' = Registered
    BY <1>4 DEF Tick, StepBack, Registered
  <2> QED BY <1>2, <1>4, <2>1 DEF Tick, StepBack, serverVars
<1>5. ASSUME NEW c \in Conns, JoinNext(c) PROVE SlotInv'
  <2>1. /\ UNCHANGED <<task, slots, client, server, linked, table>> /\ tasks' = tasks \ {c}
        /\ task[c] = "done" /\ server \in {"listen", "closing"}
    BY <1>5 DEF JoinNext, taskVars
  <2>2. Holders \subseteq tasks' /\ tasks' \subseteq Conns /\ Registered' = Registered
    BY <2>1 DEF SlotInv, Holders, Registered
  <2> QED BY <2>1, <2>2, SlotStays DEF SlotInv
<1>6. CASE AcceptFails \/ RetryDelay \/ SeeShutdown
  <2>1. /\ UNCHANGED <<task, slots, client, tasks, linked>> /\ Registered' = Registered
        /\ server' \in {"listen", "retry", "closing"}
    BY <1>6 DEF AcceptFails, RetryDelay, SeeShutdown, taskVars, Registered
  <2> QED BY <2>1, SlotStays DEF SlotInv
<1>7. CASE AllJoined
  <2>1. UNCHANGED <<task, slots, client, tasks, linked>> /\ Registered' = Registered
        /\ server' = "unlink" /\ tasks = {}
    BY <1>7 DEF AllJoined, taskVars, Registered
  <2> QED BY <2>1, SlotStays DEF SlotInv
<1>8. CASE Unlink
  <2>1. UNCHANGED <<task, slots, client, tasks>> /\ Registered' = Registered
        /\ server = "unlink" /\ server' = "service" /\ linked' = FALSE
    BY <1>8 DEF Unlink, taskVars, Registered
  <2>2. ~linked'
    BY <2>1
  <2> QED BY <2>1, <2>2, SlotStays DEF SlotInv
<1>9. CASE ServiceShutdown
  <2>1. UNCHANGED <<task, slots, tasks, linked>> /\ Registered' = Registered
        /\ server = "service" /\ server' = "stopped"
        /\ client' = [c \in Conns |-> IF client[c] = "dialled" THEN "closed" ELSE client[c]]
    BY <1>9 DEF ServiceShutdown, Registered
  <2>2. client' \in [Conns -> {"off", "dialled", "open", "closed"}]
        /\ \A c \in Conns : client'[c] \in {"off", "dialled"} => client[c] \in {"off", "dialled"}
    BY <2>1 DEF SlotInv
  <2> QED BY <2>1, <2>2, SlotStays DEF SlotInv
<1> QED BY <1>1, <1>3, <1>4, <1>5, <1>6, <1>7, <1>8, <1>9 DEF ServerStep

LEMMA ClientSlots ==
  ASSUME SlotInv, NEW c \in Conns, ClientStep(c) \/ PollDeadline(c) PROVE SlotInv'
<1>1. UNCHANGED <<task, slots, tasks, server, linked>> /\ Registered' = Registered
  BY DEF ClientStep, Dial, SendHeader, SendPayload, Hangup, PollDeadline, serverVars, Registered
<1>2. \/ client' = client
      \/ client[c] = "off" /\ client' = [client EXCEPT ![c] = "dialled"]
      \/ client' = [client EXCEPT ![c] = "closed"]
  BY DEF ClientStep, Dial, SendHeader, SendPayload, Hangup, PollDeadline
<1>3. client' \in [Conns -> {"off", "dialled", "open", "closed"}]
      /\ \A d \in Conns : client'[d] \in {"off", "dialled"} => client[d] \in {"off", "dialled"}
  BY <1>2 DEF SlotInv
<1> QED BY <1>1, <1>3, SlotStays DEF SlotInv

LEMMA TaskSlots == ASSUME SlotInv, NEW c \in Conns, TaskStep(c) PROVE SlotInv'
<1>1. CASE DropRegistration(c)
  <2>1. /\ UNCHANGED <<server, linked, tasks, slots>> /\ table' = Deregistered(c)
        /\ task' = [task EXCEPT ![c] = "leaving"] /\ client' = [client EXCEPT ![c] = "closed"]
        /\ task[c] = "leave"
    BY <1>1 DEF DropRegistration, serverVars
  <2>2. /\ task' \in [Conns -> Places]
        /\ \A d \in Conns : task'[d] = IF d = c THEN "leaving" ELSE task[d]
    BY <2>1 DEF SlotInv, Places
  <2>3. client' \in [Conns -> {"off", "dialled", "open", "closed"}]
        /\ \A d \in Conns : client'[d] = IF d = c THEN "closed" ELSE client[d]
    BY <2>1 DEF SlotInv
  <2>4. Holders' = Holders
    BY <2>1, <2>2 DEF Holders
  <2>5. Registered' = Registered \ {c}
    BY <2>1 DEF Deregistered, Registered
  <2>6. Registered' \subseteq {d \in Conns : Holds(d)'}
    BY <2>2, <2>5 DEF SlotInv, Holds
  <2>7. \A d \in Conns : client'[d] \in {"off", "dialled"} => task'[d] = "none"
    BY <2>2, <2>3 DEF SlotInv
  <2> QED BY <2>1, <2>2, <2>3, <2>4, <2>6, <2>7 DEF SlotInv
<1>2. CASE DropPermit(c)
  <2>1. /\ UNCHANGED <<server, linked, tasks, client, table>> /\ slots' = slots + 1
        /\ task' = [task EXCEPT ![c] = "done"] /\ task[c] = "leaving"
    BY <1>2 DEF DropPermit, serverVars
  <2>2. /\ task' \in [Conns -> Places]
        /\ \A d \in Conns : task'[d] = IF d = c THEN "done" ELSE task[d]
    BY <2>1 DEF SlotInv, Places
  <2>3. Holders' = Holders \ {c} /\ c \in Holders
    BY <2>1, <2>2 DEF Holders
  <2>4. Cardinality(Holders') = Cardinality(Holders) - 1
    BY <2>3, HoldersFinite, FS_RemoveElement
  <2>5. slots' \in Nat /\ slots' + Cardinality(Holders') = MaxConnections
    BY <2>1, <2>4, HoldersFinite, ConstantTypes DEF SlotInv
  <2>6. Registered' = Registered
    BY <2>1 DEF Registered
  <2>7. Registered' \subseteq {d \in Conns : Holds(d)'}
    BY <2>1, <2>2, <2>6 DEF SlotInv, Holds
  <2>8. \A d \in Conns : client'[d] \in {"off", "dialled"} => task'[d] = "none"
    BY <2>1, <2>2 DEF SlotInv
  <2> QED BY <2>1, <2>2, <2>3, <2>5, <2>7, <2>8 DEF SlotInv
<1>3. ASSUME Holds(c), NEW p \in Places \ {"none", "leaving", "done"},
             task' = [task EXCEPT ![c] = p], table' = table,
             UNCHANGED <<server, linked, tasks, slots, client>>
      PROVE  SlotInv'
  <2>1. Registered' \subseteq Registered \cup {c}
    BY <1>3 DEF Registered
  <2> QED BY <1>3, <2>1, SlotMoves
<1>4. CASE HandleFrame(c)
  <2>1. Registered' \subseteq Registered \cup {c}
    BY <1>4 DEF HandleFrame, WithLimiter, Registered
  <2>2. task' = [task EXCEPT ![c] = "write"] \/ task' = [task EXCEPT ![c] = "events"]
    BY <1>4 DEF HandleFrame, Answered
  <2>3. UNCHANGED <<server, linked, tasks, slots, client>> /\ Holds(c)
    BY <1>4 DEF HandleFrame, serverVars, Holds
  <2> QED BY <2>1, <2>2, <2>3, SlotMoves DEF Places
<1>5. ASSUME \/ ReadHeader(c) \/ ReadPayload(c) \/ ReadEnds(c) \/ PollEvents(c) \/ PollState(c)
             \/ Write(c) \/ WriteFails(c) \/ Aborted(c)
      PROVE  SlotInv'
  <2>1. UNCHANGED <<table, server, linked, tasks, slots, client>> /\ Holds(c)
    BY <1>5 DEF ReadHeader, ReadPayload, ReadEnds, PollEvents, PollState, Write, WriteFails,
                Aborted, serverVars, Holds
  <2>2. \E p \in {"payload", "leave", "handle", "state", "write", "events", "header"} :
           task' = [task EXCEPT ![c] = p]
    BY <1>5 DEF ReadHeader, ReadPayload, ReadEnds, PollEvents, PollState, Write, WriteFails,
                Aborted, Answered
  <2>3. PICK p \in {"payload", "leave", "handle", "state", "write", "events", "header"} :
           task' = [task EXCEPT ![c] = p]
    BY <2>2
  <2>4. p \in Places \ {"none", "leaving", "done"}
    BY DEF Places
  <2> QED BY <1>3, <2>1, <2>3, <2>4
<1> QED BY <1>1, <1>2, <1>4, <1>5 DEF TaskStep

LEMMA NextSlots == ASSUME SlotInv, [Next]_vars PROVE SlotInv'
  BY ServerSlots, ClientSlots, TaskSlots DEF Next

-----------------------------------------------------------------------------
(* The follower.                                                           *)

\* What an answer says stays true while more is received and less retained.
LEMMA AnswerStays ==
  ASSUME NEW r, NEW j, NEW g, NEW k, NEW h, AnswerInv(r, j, g), g \subseteq h,
         j.lo \in Nat, j.hi \in Nat, k.lo \in Nat, k.hi \in Nat, j.lo <= k.lo, j.hi <= k.hi
  PROVE  AnswerInv(r, k, h)
<1>1. ReceivedTo(r.after, k, h)
  BY DEF AnswerInv, ReceivedTo
<1>2. \E lo, hi \in Nat :
          /\ 1 <= lo /\ lo <= hi /\ lo <= k.lo /\ hi <= k.hi /\ r.after <= hi
          /\ r.events = {s \in lo .. hi : s > r.after}
  <2>1. PICK lo \in Nat, hi \in Nat :
          /\ 1 <= lo /\ lo <= hi /\ lo <= j.lo /\ hi <= j.hi /\ r.after <= hi
          /\ r.events = {s \in lo .. hi : s > r.after}
    BY DEF AnswerInv
  <2>2. lo <= k.lo /\ hi <= k.hi
    BY <2>1
  <2> QED BY <2>1, <2>2
<1> QED BY <1>1, <1>2 DEF AnswerInv

\* The job and the cursor stand still, and no answer with events is made.
LEMMA FollowStays ==
  ASSUME FollowInv, UNCHANGED <<job, cursor, got>>, reply' = [c \in Conns |-> reply'[c]],
         \A c \in Conns :
            /\ reply'[c] = reply[c] \/ reply'[c].what \notin {"limit", "events"}
            /\ task'[c] = "state" => task[c] = "state" /\ reply'[c] = reply[c]
  PROVE  FollowInv'
<1>1. JobInv'
  BY DEF FollowInv, JobInv
<1>2. ASSUME NEW c \in Conns
      PROVE  /\ task'[c] = "state" => reply'[c].what = "events"
             /\ reply'[c].what # "limit"
             /\ reply'[c].what = "events" => AnswerInv(reply'[c], job, got)
  BY DEF FollowInv, RepliesInv
<1> QED BY <1>1, <1>2 DEF FollowInv, RepliesInv

LEMMA TaskOfOne ==
  ASSUME SlotInv, NEW c \in Conns, NEW p, task' = [task EXCEPT ![c] = p]
  PROVE  \A d \in Conns : task'[d] = IF d = c THEN p ELSE task[d]
  BY DEF SlotInv

LEMMA ReplyOfOne ==
  ASSUME RepliesInv, NEW c \in Conns, NEW r, reply' = [reply EXCEPT ![c] = r]
  PROVE  /\ reply' = [d \in Conns |-> reply'[d]]
         /\ \A d \in Conns : reply'[d] = IF d = c THEN r ELSE reply[d]
<1>1. reply = [d \in Conns |-> reply[d]]
  BY DEF RepliesInv
<1>2. reply' = [d \in Conns |-> IF d = c THEN r ELSE reply[d]]
  BY <1>1
<1> QED BY <1>2

\* The step of a task that puts an answer without events, or takes one away.
LEMMA PlainAnswer ==
  ASSUME SlotInv, FollowInv, UNCHANGED <<job, cursor, got>>, NEW c \in Conns, NEW p,
         p # "state", task' = [task EXCEPT ![c] = p], NEW k, k \notin {"limit", "events"},
         reply' = [reply EXCEPT ![c] = [what |-> k]]
  PROVE  FollowInv'
<1>1. \A d \in Conns : task'[d] = IF d = c THEN p ELSE task[d]
  BY TaskOfOne
<1>2. /\ reply' = [d \in Conns |-> reply'[d]]
      /\ \A d \in Conns : reply'[d] = IF d = c THEN [what |-> k] ELSE reply[d]
  BY ReplyOfOne DEF FollowInv
<1>3. [what |-> k].what = k
  OBVIOUS
<1> QED BY <1>1, <1>2, <1>3, FollowStays

\* The step of a task that leaves the answers alone.
LEMMA NoAnswer ==
  ASSUME SlotInv, FollowInv, UNCHANGED <<job, cursor, got, reply>>, NEW c \in Conns, NEW p,
         p # "state", task' = [task EXCEPT ![c] = p]
  PROVE  FollowInv'
<1>1. \A d \in Conns : task'[d] = IF d = c THEN p ELSE task[d]
  BY TaskOfOne
<1>2. reply' = [d \in Conns |-> reply'[d]]
  BY DEF FollowInv, RepliesInv
<1> QED BY <1>1, <1>2, FollowStays

LEMMA PollEventsFollow ==
  ASSUME SlotInv, FollowInv, NEW c \in Conns, PollEvents(c) PROVE FollowInv'
<1> DEFINE r == [what |-> "events", events |-> EventsAfter(cursor), after |-> cursor,
                 terminal |-> FALSE]
<1>1. /\ reply' = [reply EXCEPT ![c] = r] /\ task' = [task EXCEPT ![c] = "state"]
      /\ UNCHANGED <<job, cursor, got>>
  BY DEF PollEvents, worldVars
<1>2. AnswerInv(r, job, got)
  <2>1. /\ r.events = {s \in job.lo .. job.hi : s > cursor} /\ r.after = cursor
        /\ r = [what |-> "events", events |-> r.events, after |-> r.after, terminal |-> r.terminal]
    BY DEF EventsAfter
  <2> HIDE DEF r
  <2>2. JobInv
    BY DEF FollowInv
  <2> QED BY <2>1, <2>2 DEF JobInv, AnswerInv
<1>3. r.what = "events"
  OBVIOUS
<1> HIDE DEF r
<1>4. \A d \in Conns : task'[d] = IF d = c THEN "state" ELSE task[d]
  BY <1>1, TaskOfOne
<1>5. /\ reply' = [d \in Conns |-> reply'[d]]
      /\ \A d \in Conns : reply'[d] = IF d = c THEN r ELSE reply[d]
  BY <1>1, ReplyOfOne DEF FollowInv
<1>6. JobInv'
  BY <1>1 DEF FollowInv, JobInv
<1>7. RepliesInv'
  BY <1>1, <1>2, <1>3, <1>4, <1>5 DEF FollowInv, RepliesInv
<1> QED BY <1>6, <1>7 DEF FollowInv

LEMMA PollStateFollow ==
  ASSUME SlotInv, FollowInv, NEW c \in Conns, PollState(c) PROVE FollowInv'
<1>1. UNCHANGED <<job, cursor, got>> /\ task[c] = "state"
  BY DEF PollState, worldVars
<1>2. CASE Answered(c, [reply[c] EXCEPT !.terminal = job.ended])
  <2> DEFINE r == [reply[c] EXCEPT !.terminal = job.ended]
  <2>1. reply[c].what = "events" /\ AnswerInv(reply[c], job, got)
    BY <1>1 DEF FollowInv, RepliesInv
  <2>2. r = [what |-> "events", events |-> reply[c].events, after |-> reply[c].after,
             terminal |-> job.ended]
    <3> DEFINE q == reply[c]
    <3>1. q = [what |-> "events", events |-> q.events, after |-> q.after, terminal |-> q.terminal]
      BY <2>1 DEF AnswerInv
    <3>2. r = [q EXCEPT !.terminal = job.ended]
      OBVIOUS
    <3> HIDE DEF q, r
    <3>3. r = [what |-> "events", events |-> q.events, after |-> q.after, terminal |-> job.ended]
      BY <3>1, <3>2
    <3> QED BY <3>3 DEF q
  <2>3. reply' = [reply EXCEPT ![c] = r] /\ task' = [task EXCEPT ![c] = "write"]
    BY <1>2 DEF Answered
  <2> HIDE DEF r
  <2>4. /\ r.what = "events" /\ r.events = reply[c].events /\ r.after = reply[c].after
        /\ r = [what |-> "events", events |-> r.events, after |-> r.after, terminal |-> r.terminal]
    BY <2>2
  <2>5. AnswerInv(r, job, got)
    BY <2>1, <2>4 DEF AnswerInv
  <2>6. \A d \in Conns : task'[d] = IF d = c THEN "write" ELSE task[d]
    BY <2>3, TaskOfOne
  <2>7. /\ reply' = [d \in Conns |-> reply'[d]]
        /\ \A d \in Conns : reply'[d] = IF d = c THEN r ELSE reply[d]
    BY <2>3, ReplyOfOne DEF FollowInv
  <2>8. JobInv'
    BY <1>1 DEF FollowInv, JobInv
  <2>9. RepliesInv'
    BY <1>1, <2>4, <2>5, <2>6, <2>7 DEF FollowInv, RepliesInv
  <2> QED BY <2>8, <2>9 DEF FollowInv
<1>3. CASE task' = [task EXCEPT ![c] = "events"] /\ UNCHANGED reply
  BY <1>1, <1>3, NoAnswer
<1> QED BY <1>2, <1>3 DEF PollState

\* The follower takes an answer: its cursor goes to the last event retained when the
\* answer was made, and it has all that was retained up to there.
LEMMA WriteFollow == ASSUME SlotInv, FollowInv, NEW c \in Conns, Write(c) PROVE FollowInv'
<1>1. /\ task' = [task EXCEPT ![c] = "header"] /\ reply' = [reply EXCEPT ![c] = NoReply]
      /\ job' = job
  BY DEF Write
<1>2. CASE reply[c].what # "events"
  <2>1. UNCHANGED <<cursor, got>>
    BY <1>2 DEF Write
  <2>2. UNCHANGED <<job, cursor, got>> /\ reply' = [reply EXCEPT ![c] = [what |-> "none"]]
    BY <1>1, <2>1 DEF NoReply
  <2>3. "header" # "state" /\ "none" \notin {"limit", "events"}
    OBVIOUS
  <2> QED BY <1>1, <2>2, <2>3, PlainAnswer, Zenon
<1>3. CASE reply[c].what = "events"
  <2> DEFINE r == reply[c]
  <2>1. cursor' = LatestSequence(r) /\ got' = got \cup r.events
    BY <1>3 DEF Write
  <2>2. AnswerInv(r, job, got)
    BY <1>3 DEF FollowInv, RepliesInv
  <2> HIDE DEF r
  <2>3. PICK lo \in Nat, hi \in Nat :
          /\ 1 <= lo /\ lo <= hi /\ lo <= job.lo /\ hi <= job.hi /\ r.after <= hi
          /\ r.events = {s \in lo .. hi : s > r.after}
    BY <2>2 DEF AnswerInv
  <2>4. r.after \in Nat /\ ReceivedTo(r.after, job, got)
    BY <2>2 DEF AnswerInv
  <2>5. LatestSequence(r) = hi
    <3>1. CASE r.events = {}
      <4>1. ~(hi > r.after)
        BY <2>3, <3>1
      <4> QED BY <2>3, <2>4, <3>1, <4>1 DEF LatestSequence
    <3>2. CASE r.events # {}
      BY <2>3, <2>4, <3>2, MaxAfter DEF LatestSequence
    <3> QED BY <3>1, <3>2
  <2>6. JobInv
    BY DEF FollowInv
  <2>7. ReceivedTo(hi, job, got \cup r.events)
    <3> SUFFICES ASSUME NEW s \in 1 .. hi PROVE s \in got \cup r.events \/ s < job.lo
      BY DEF ReceivedTo
    <3>1. CASE s <= r.after
      BY <2>4, <3>1 DEF ReceivedTo
    <3>2. CASE s > r.after /\ s >= lo
      BY <2>3, <3>2
    <3>3. CASE s < lo
      BY <2>3, <2>6, <3>3 DEF JobInv
    <3> QED BY <2>3, <2>4, <3>1, <3>2, <3>3
  <2>8. JobInv'
    <3>1. cursor' = hi /\ got' = got \cup r.events
      BY <2>1, <2>5
    <3>2. r.events \subseteq 1 .. job.hi
      BY <2>3, <2>6 DEF JobInv
    <3>3. ReceivedTo(cursor', job', got')
      BY <1>1, <2>7, <3>1
    <3> QED BY <1>1, <2>3, <2>6, <3>1, <3>2, <3>3 DEF JobInv
  <2>9. \A d \in Conns : task'[d] = IF d = c THEN "header" ELSE task[d]
    BY <1>1, TaskOfOne
  <2>10. /\ reply' = [d \in Conns |-> reply'[d]]
         /\ \A d \in Conns : reply'[d] = IF d = c THEN NoReply ELSE reply[d]
    BY <1>1, ReplyOfOne DEF FollowInv
  <2>11. NoReply.what = "none"
    BY DEF NoReply
  <2>12. \A d \in Conns : reply[d].what = "events" => AnswerInv(reply[d], job', got')
    <3>1. got \subseteq got'
      BY <2>1
    <3> QED BY <1>1, <2>6, <3>1, AnswerStays DEF FollowInv, RepliesInv, JobInv
  <2>13. RepliesInv'
    BY <2>9, <2>10, <2>11, <2>12 DEF FollowInv, RepliesInv
  <2> QED BY <2>8, <2>13 DEF FollowInv
<1> QED BY <1>2, <1>3

LEMMA HandleFrameFollow ==
  ASSUME SlotInv, FollowInv, load \in Workloads, NEW c \in Conns, HandleFrame(c) PROVE FollowInv'
<1>1. UNCHANGED <<job, cursor, got>> /\ task[c] = "handle"
  BY DEF HandleFrame, worldVars
<1>2. ~Refuses(c)
  BY <1>1, NeverRefused DEF Holds
<1>3. ASSUME NEW k, Answered(c, Error(k)), k \notin {"limit", "events"} PROVE FollowInv'
  BY <1>1, <1>3, PlainAnswer DEF Answered, Error
<1>4. CASE Answered(c, Error("degraded"))
  BY <1>3, <1>4
<1>5. CASE Answered(c, Error("rate"))
  BY <1>3, <1>5
<1>6. CASE \E what \in load.answers : Answered(c, Error(what))
  BY <1>3, <1>6, ConnectionsAssumption
<1>7. CASE task' = [task EXCEPT ![c] = "events"] /\ UNCHANGED reply
  BY <1>1, <1>7, NoAnswer
<1> QED BY <1>2, <1>4, <1>5, <1>6, <1>7 DEF HandleFrame

LEMMA JobEventFollow == ASSUME FollowInv, JobEvent PROVE FollowInv'
<1>1. UNCHANGED <<cursor, got, reply, task>>
  BY DEF JobEvent, taskVars
<1>2. JobInv
  BY DEF FollowInv
<1>3. /\ job'.lo = Max({job.lo, job.hi + 2 - RetainedEvents}) /\ job'.hi = job.hi + 1
  BY DEF JobEvent
<1>4. job'.lo \in Nat /\ job.lo <= job'.lo /\ job'.lo <= job.hi + 1
  <2>1. Max({job.lo, job.hi + 2 - RetainedEvents}) =
           IF job.lo >= job.hi + 2 - RetainedEvents THEN job.lo ELSE job.hi + 2 - RetainedEvents
    BY <1>2, ConstantTypes, MaxOfTwo DEF JobInv
  <2> QED BY <1>2, <1>3, <2>1, ConstantTypes DEF JobInv
<1>5. JobInv'
  <2>1. ReceivedTo(cursor, job', got)
    BY <1>2, <1>4 DEF JobInv, ReceivedTo
  <2> QED BY <1>1, <1>2, <1>3, <1>4, <2>1 DEF JobInv
<1>6. \A d \in Conns : reply[d].what = "events" => AnswerInv(reply[d], job', got)
  BY <1>2, <1>3, <1>4, AnswerStays DEF FollowInv, RepliesInv, JobInv
<1>7. RepliesInv'
  BY <1>1, <1>6 DEF FollowInv, RepliesInv
<1> QED BY <1>5, <1>7 DEF FollowInv

LEMMA NextFollow ==
  ASSUME SlotInv, FollowInv, load \in Workloads, [Next]_vars PROVE FollowInv'
<1>1. ASSUME UNCHANGED <<job, cursor, got, reply, task>> PROVE FollowInv'
  BY <1>1, FollowStays DEF FollowInv, RepliesInv
<1>2. ASSUME NEW c \in Conns, Accept(c) PROVE FollowInv'
  <2>1. UNCHANGED <<job, cursor, got, reply>>
    BY <1>2 DEF Accept, worldVars
  <2>2. task' = task \/ task' = [task EXCEPT ![c] = "header"]
    BY <1>2 DEF Accept, Serve, TurnAway
  <2> QED BY <1>1, <2>1, <2>2, NoAnswer
<1>3. ASSUME NEW c \in Conns, JoinNext(c) PROVE FollowInv'
  BY <1>1, <1>3 DEF JoinNext, taskVars, worldVars
<1>4. CASE RetryDelay \/ SeeShutdown \/ AllJoined \/ Unlink \/ ServiceShutdown \/ AcceptFails
           \/ AskShutdown \/ Degrade \/ Tick \/ StepBack \/ vars' = vars
  BY <1>1, <1>4 DEF RetryDelay, SeeShutdown, AllJoined, Unlink, ServiceShutdown, AcceptFails,
                    AskShutdown, Degrade, Tick, StepBack, vars, taskVars, worldVars
<1>5. ASSUME NEW c \in Conns, ClientStep(c) \/ PollDeadline(c) PROVE FollowInv'
  BY <1>1, <1>5 DEF ClientStep, Dial, SendHeader, SendPayload, Hangup, PollDeadline, worldVars
<1>6. ASSUME NEW c \in Conns,
             \/ ReadHeader(c) \/ ReadPayload(c) \/ ReadEnds(c) \/ WriteFails(c) \/ Aborted(c)
             \/ DropPermit(c)
      PROVE  FollowInv'
  <2>1. UNCHANGED <<job, cursor, got, reply>>
    BY <1>6 DEF ReadHeader, ReadPayload, ReadEnds, WriteFails, Aborted, DropPermit, worldVars
  <2>2. \E p \in {"payload", "leave", "handle", "done"} : task' = [task EXCEPT ![c] = p]
    BY <1>6 DEF ReadHeader, ReadPayload, ReadEnds, WriteFails, Aborted, DropPermit
  <2> QED BY <2>1, <2>2, NoAnswer
<1>7. ASSUME NEW c \in Conns, DropRegistration(c) PROVE FollowInv'
  <2>1. /\ UNCHANGED <<job, cursor, got>> /\ task' = [task EXCEPT ![c] = "leaving"]
        /\ reply' = [reply EXCEPT ![c] = [what |-> "none"]]
    BY <1>7 DEF DropRegistration, worldVars, NoReply
  <2>2. "leaving" # "state" /\ "none" \notin {"limit", "events"}
    OBVIOUS
  <2> QED BY <2>1, <2>2, PlainAnswer, Zenon
<1>8. ASSUME NEW c \in Conns, TaskStep(c) PROVE FollowInv'
  BY <1>6, <1>7, <1>8, PollEventsFollow, PollStateFollow, WriteFollow, HandleFrameFollow
     DEF TaskStep
<1> QED BY <1>2, <1>3, <1>4, <1>5, <1>8, JobEventFollow DEF Next, ServerStep

-----------------------------------------------------------------------------
(* The theorems.                                                           *)

LEMMA InitConn == Init => ConnInv /\ load \in Workloads
<1> SUFFICES ASSUME Init PROVE ConnInv /\ load \in Workloads
  OBVIOUS
<1>1. Holders = {} /\ Registered = {}
  BY DEF Init, Holders, Registered
<1>2. SlotInv
  <2>1. slots + Cardinality(Holders) = MaxConnections /\ slots \in Nat
    BY <1>1, FS_EmptySet, ConstantTypes DEF Init
  <2> QED BY <1>1, <2>1 DEF Init, SlotInv, Places
<1>3. RateInv
  BY <1>1 DEF Init, RateInv
<1>4. job.lo = 1 /\ job.hi = 1 /\ cursor = 0 /\ got = {}
  BY DEF Init
<1>5. JobInv
  BY <1>4 DEF JobInv, ReceivedTo
<1>6. RepliesInv
  <2>1. reply = [c \in Conns |-> NoReply] /\ task = [c \in Conns |-> "none"] /\ NoReply.what = "none"
    BY DEF Init, NoReply
  <2> QED BY <2>1 DEF RepliesInv
<1> QED BY <1>2, <1>3, <1>5, <1>6 DEF ConnInv, FollowInv, Init

LEMMA LoadStays == ASSUME load \in Workloads, [Next]_vars PROVE load' \in Workloads
<1>1. load' = load
  BY DEF Next, ServerStep, Accept, JoinNext, RetryDelay, SeeShutdown, AllJoined, Unlink,
         ServiceShutdown, AcceptFails, AskShutdown, TaskStep, ReadHeader, ReadPayload, ReadEnds,
         HandleFrame, PollEvents, PollState, Write, WriteFails, Aborted, DropRegistration,
         DropPermit, PollDeadline, ClientStep, Dial, SendHeader, SendPayload, Hangup, Degrade,
         Tick, StepBack, JobEvent, vars
<1> QED BY <1>1

LEMMA ConnInvariant == Spec => []ConnInv
<1>1. ConnInv /\ load \in Workloads /\ [Next]_vars => (ConnInv /\ load \in Workloads)'
  BY NextSlots, NextRate, NextFollow, LoadStays DEF ConnInv
<1> QED BY InitConn, <1>1, PTL DEF Spec

\* For every number of connections and permits: a connection that accept gave a permit
\* finds a place in the service's table whenever it asks, the permits are all back when
\* the tasks are done, and the service is told to stop only then.
THEOREM AdmittedServed == Spec => []AdmittedIsServed
<1>1. ConnInv => AdmittedIsServed
  <2> SUFFICES ASSUME ConnInv PROVE AdmittedIsServed
    OBVIOUS
  <2>1. \A c \in Conns : reply[c] # Error("limit")
    <3>1. Error("limit").what = "limit"
      BY DEF Error
    <3> QED BY <3>1 DEF ConnInv, FollowInv, RepliesInv
  <2>2. slots <= MaxConnections
    BY HoldersFinite, ConstantTypes DEF ConnInv, SlotInv
  <2>3. ASSUME \A c \in Conns : task[c] \in {"none", "done"}
        PROVE  slots = MaxConnections /\ Registered = {}
    <3>1. Holders = {}
      BY <2>3 DEF Holders
    <3>2. Cardinality(Holders) = 0
      BY <3>1, FS_EmptySet
    <3>3. Registered = {}
      BY <2>3 DEF ConnInv, SlotInv, Holds
    <3> QED BY <3>2, <3>3, ConstantTypes DEF ConnInv, SlotInv
  <2>4. ASSUME server \in {"service", "stopped"}
        PROVE  ~linked /\ \A c \in Conns : task[c] \in {"none", "done"}
    BY <2>4 DEF ConnInv, SlotInv, Holders
  <2>5. Registered \subseteq {c \in Conns : Holds(c)}
    BY DEF ConnInv, SlotInv
  <2> QED BY <2>1, <2>2, <2>3, <2>4, <2>5 DEF AdmittedIsServed
<1> QED BY <1>1, ConnInvariant, PTL

\* For every rate, burst and clock: ConnectionRateLimiter never allows more than a bucket
\* that is filled at every tick, and exactly that while the clock only moves on.
THEOREM RateIdeal == Spec => []RateIsIdeal
<1>1. ConnInv => RateIsIdeal
  BY DEF ConnInv, RateInv, LimiterInv, RateIsIdeal
<1> QED BY <1>1, ConnInvariant, PTL

\* For every history length and every race between the job, the long poll and the
\* follower's connections: subscribe_events never moves a cursor past a retained event
\* that was not delivered.
THEOREM NothingSkipped == Spec => []CursorSkipsNothing
<1>1. ConnInv => CursorSkipsNothing
  <2> SUFFICES ASSUME JobInv PROVE CursorSkipsNothing
    BY DEF ConnInv, FollowInv
  <2> QED BY DEF JobInv, ReceivedTo, CursorSkipsNothing
<1> QED BY <1>1, ConnInvariant, PTL

-----------------------------------------------------------------------------
(* Daemons that are never started while another one runs: what they        *)
(* acknowledged stays in jobs.json.                                        *)
\* One process runs at most; while it does, its memory is jobs.json, and what it
\* found at the endpoint is still there.
AloneInv ==
    /\ disk \in [Jobs -> JobStates]
    /\ mem \in [Processes -> [Jobs -> JobStates]]
    /\ step \in [Processes -> Running \cup {"off"}]
    /\ socket \in Processes \cup {"absent"}
    /\ acked \subseteq Jobs
    /\ \A p, q \in Processes : step[p] # "off" /\ step[q] # "off" => p = q
    /\ \A p \in Processes : step[p] # "off" => mem[p] = disk
    /\ \A p \in Processes : step[p] = "stale" => socket # "absent"
    /\ \A p \in Processes : step[p] = "bind" => socket = "absent"
    /\ AckedSurvives

LEMMA InitAlone == InstancesInit => AloneInv
  BY DEF InstancesInit, AloneInv, AckedSurvives, NoJobs, JobStates, Running

\* A step of one process preserves the invariant.
LEMMA AloneNext ==
  ASSUME AloneInv, MayStart = "alone", [InstancesNext]_instanceVars
  PROVE  AloneInv'
<1> USE DEF Goes, JobStates, Ended, Running, Starting
<1>1. CASE UNCHANGED instanceVars
  BY <1>1 DEF AloneInv, AckedSurvives, instanceVars
<1>2. ASSUME NEW p \in Processes, OpenLoad(p) PROVE AloneInv'
  BY <1>2 DEF AloneInv, AckedSurvives, OpenLoad, Permitted
<1>3. ASSUME NEW p \in Processes, OpenRecover(p) PROVE AloneInv'
  <2>1. Recovered(mem[p]) \in [Jobs -> JobStates]
    BY DEF AloneInv, Recovered
  <2>2. \A j \in Jobs : mem[p][j] # "none" => Recovered(mem[p])[j] # "none"
    BY DEF Recovered
  <2>3. mem[p] = disk
    BY <1>3 DEF AloneInv, OpenRecover
  <2>4. CASE Persist(p, Recovered(mem[p]))
    BY <1>3, <2>1, <2>2, <2>3, <2>4 DEF AloneInv, AckedSurvives, OpenRecover, Persist
  <2>5. CASE UNCHANGED <<disk, mem>>
    BY <1>3, <2>5 DEF AloneInv, AckedSurvives, OpenRecover
  <2> QED BY <1>3, <2>4, <2>5 DEF OpenRecover
<1>4. ASSUME NEW p \in Processes, Probe(p) PROVE AloneInv'
  BY <1>4 DEF AloneInv, AckedSurvives, Probe
<1>5. ASSUME NEW p \in Processes, RemoveStale(p) PROVE AloneInv'
  BY <1>5 DEF AloneInv, AckedSurvives, RemoveStale
<1>6. ASSUME NEW p \in Processes, Bind(p) PROVE AloneInv'
  BY <1>6 DEF AloneInv, AckedSurvives, Bind
<1>7. ASSUME NEW p \in Processes, NEW j \in Jobs, AcceptJob(p, j) PROVE AloneInv'
  BY <1>7 DEF AloneInv, AckedSurvives, AcceptJob, Persist
<1>8. ASSUME NEW p \in Processes, NEW j \in Jobs, NEW outcome \in Ended, Finish(p, j, outcome)
      PROVE  AloneInv'
  BY <1>8 DEF AloneInv, AckedSurvives, Finish, Persist
<1>9. ASSUME NEW p \in Processes, UnlinkEndpoint(p) PROVE AloneInv'
  BY <1>9 DEF AloneInv, AckedSurvives, UnlinkEndpoint
<1>10. ASSUME NEW p \in Processes, Leave(p) \/ Crash(p) PROVE AloneInv'
  BY <1>10 DEF AloneInv, AckedSurvives, Leave, Crash
<1> QED
  BY <1>1, <1>2, <1>3, <1>4, <1>5, <1>6, <1>7, <1>8, <1>9, <1>10 DEF InstancesNext

LEMMA AloneInvariant ==
  ASSUME MayStart = "alone"
  PROVE  InstancesSpec => []AloneInv
  BY InitAlone, AloneNext, PTL DEF InstancesSpec

\* Daemons that do not overlap lose no job: whoever was given a number finds the
\* job in jobs.json, whatever crashes come between, because every process
\* starts from what its predecessors left and only rewrites that.
THEOREM AcknowledgedSurvive ==
  ASSUME MayStart = "alone"
  PROVE  InstancesSpec => []AckedSurvives
<1>1. AloneInv => AckedSurvives
  BY DEF AloneInv
<1> QED BY <1>1, AloneInvariant, PTL

-----------------------------------------------------------------------------
(* Daemons that are started once nobody answers, be it while their         *)
(* predecessor ends its jobs: no start gives up.                           *)
\* One process starts at most, and none serves meanwhile; whoever serves owns the
\* socket file; what a start found at the endpoint is still there.
StartInv ==
    /\ step \in [Processes -> Running \cup {"off"}]
    /\ socket \in Processes \cup {"absent"}
    /\ \A p, q \in Processes : step[p] \in Starting /\ step[q] \in Starting => p = q
    /\ \A p, q \in Processes : step[p] \in Starting => step[q] # "serve"
    /\ \A p \in Processes : step[p] = "serve" => socket = p
    /\ \A p \in Processes : step[p] = "stale" => socket # "absent"
    /\ \A p \in Processes : step[p] = "bind" => socket = "absent"

LEMMA InitStart == InstancesInit => StartInv
  BY DEF InstancesInit, StartInv, Running, Starting

\* Only an owner unlinks the socket, and only while nobody starts.
LEMMA StartNext ==
  ASSUME StartInv, [InstancesNext]_instanceVars
  PROVE  StartInv'
<1> USE InstancesAssumption DEF Goes, Running, Starting
<1>1. CASE UNCHANGED instanceVars
  BY <1>1 DEF StartInv, instanceVars
<1>2. ASSUME NEW p \in Processes, OpenLoad(p) PROVE StartInv'
  BY <1>2 DEF StartInv, OpenLoad, Permitted, Answers
<1>3. ASSUME NEW p \in Processes, OpenRecover(p) PROVE StartInv'
  BY <1>3 DEF StartInv, OpenRecover
<1>4. ASSUME NEW p \in Processes, Probe(p) PROVE StartInv'
  BY <1>4 DEF StartInv, Probe
<1>5. ASSUME NEW p \in Processes, RemoveStale(p) PROVE StartInv'
  BY <1>5 DEF StartInv, RemoveStale
<1>6. ASSUME NEW p \in Processes, Bind(p) PROVE StartInv'
  BY <1>6 DEF StartInv, Bind
<1>7. ASSUME NEW p \in Processes, NEW j \in Jobs, AcceptJob(p, j) PROVE StartInv'
  BY <1>7 DEF StartInv, AcceptJob
<1>8. ASSUME NEW p \in Processes, NEW j \in Jobs, NEW outcome \in Ended, Finish(p, j, outcome)
      PROVE  StartInv'
  BY <1>8 DEF StartInv, Finish
<1>9. ASSUME NEW p \in Processes, UnlinkEndpoint(p) PROVE StartInv'
  BY <1>9 DEF StartInv, UnlinkEndpoint
<1>10. ASSUME NEW p \in Processes, Leave(p) \/ Crash(p) PROVE StartInv'
  BY <1>10 DEF StartInv, Leave, Crash
<1> QED
  BY <1>1, <1>2, <1>3, <1>4, <1>5, <1>6, <1>7, <1>8, <1>9, <1>10 DEF InstancesNext

\* A start never gives up, not even while a predecessor that no longer answers is
\* ending its jobs: spawn_unix finds no socket, or one that nobody answers at,
\* which is still there when it is removed and gone when it binds.
THEOREM StartsSucceed == InstancesSpec => StartNeverGivesUp
<1>1. ASSUME StartInv, NEW p \in Processes, Starts(p)
      PROVE  step'[p] # "off"
  BY <1>1 DEF StartInv, Starting, Starts, OpenRecover, Probe, RemoveStale, Bind, Goes, Answers
<1>2. StartInv /\ [InstancesNext]_instanceVars => [\A p \in Processes : Starts(p) => step'[p] # "off"]_instanceVars
  BY <1>1
<1> QED BY <1>2, InitStart, StartNext, PTL DEF InstancesSpec, StartNeverGivesUp
=============================================================================
