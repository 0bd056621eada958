------------------------- MODULE ClientSessionProofs -------------------------
(***************************************************************************)
(* Proofs about ClientSession: for any number of clients, commands, faults *)
(* and restarts, a command has one job and polls that one, a client holds  *)
(* the token that resumes its session, a client that had a session fails   *)
(* only for one of the causes the code names, and the session registry     *)
(* stays within its limit.                                                 *)
(***************************************************************************)
EXTENDS ClientSession, FiniteSetTheorems, TLAPS

\* Kinds of requests: those that open a session and those that need one.
SessionKinds == {"create", "resume"}
JobKinds == {"submit", "status"}
KeyRecord == [session : Nat, number : Nat]

Replies == Errors \cup {"none", "ok", "live", "completed", "failed"}

\* The types the proofs use.
ClientRecord ==
    [pc : ClientSteps, conn : Nat, next : Nat, session : Nat, cap : Nat, token : Nat, expires : Nat,
     command : Nat, key : KeyRecord, job : BOOLEAN, retry : BOOLEAN, errors : Nat]
CallRecord ==
    [client : Clients, conn : Nat, kind : SessionKinds \cup JobKinds,
     step : {"sent", "started", "answered"}, now : Nat, session : Nat, token : Nat, cap : Nat,
     key : KeyRecord, by : Clients \X Nat,
     reply : Replies, expires : Nat]
JobRecord ==
    [owner : Nat, key : KeyRecord, state : {"live", "completed", "failed"}, by : Clients \X Nat]

SessionTypes ==
    /\ clock \in Nat /\ fresh \in 1 .. MaxFresh + 1 /\ faults \in Nat /\ others \in Nat
    /\ sessions \subseteq [session : Nat, token : Nat, expires : Nat]
    /\ \A s \in sessions : (s.session < fresh /\ s.token < fresh) \/ s.session > MaxFresh
    /\ conns \subseteq [conn : Nat, session : Nat, cap : Nat, expires : Nat]
    /\ calls \subseteq CallRecord
    /\ jobs \subseteq JobRecord
    /\ client \in [Clients -> ClientRecord]

\* Identities drawn so far.
Drawn == 1 .. fresh - 1

HasJob(session, key) == \E job \in jobs : job.owner = session /\ job.key = key

\* The registry holds this token of the session until it expires, and no other expiry
\* goes with it.
Held(session, token, expires) ==
    expires <= clock \/ \E s \in sessions : s.session = session /\ s.token = token /\ s.expires = expires
Exact(session, token, expires) ==
    \A s \in sessions : s.session = session /\ s.token = token => s.expires = expires

\* The connection's task knows the capability.
Served(conn, cap, expires) ==
    \E a \in conns : a.conn = conn /\ a.cap = cap /\ a.expires = expires

\* A client: its key is made of its session and its command; the job it polls exists;
\* between two connects it holds a token that resumes; it reconnects after a transport
\* error or when its session has expired.
ClientInv(c) ==
    LET k == client[c]
    IN  /\ k.pc \in {"start", "opening"} => k.session = None
        /\ k.pc \in {"idle", "ready", "waiting", "reconnect", "resuming", "ok"} => k.session # None
        /\ k.session = None => ~k.job
        /\ k.session = None <=> k.conn = None
        /\ k.pc = "idle" => ~k.job
        /\ k.pc \in {"ready", "waiting", "reconnect", "resuming"} \/ k.job =>
              k.key = [session |-> k.session, number |-> k.command]
        /\ k.job => HasJob(k.session, k.key)
        /\ k.conn < fresh /\ k.session < fresh /\ k.token < fresh
        /\ k.pc \in {"idle", "ready", "waiting", "reconnect"} => Held(k.session, k.token, k.expires)
        /\ k.session # None => Exact(k.session, k.token, k.expires)
        /\ k.conn \in open => Served(k.conn, k.cap, k.expires)
        /\ k.pc \in {"reconnect", "resuming"} \/ (k.pc \in {"ready", "waiting"} /\ k.retry) =>
              k.errors >= 1 \/ k.expires <= clock

\* A request that opens a session is the only one of its client, which waits for it or
\* has stopped; a grant is stored and known to the connection.
SessionCall(m) ==
    LET k == client[m.client]
    IN  /\ k.pc \in {"opening", "resuming", "error"} /\ m.conn = k.next
        /\ m.kind = "resume" <=> k.session # None
        /\ m.reply = "ok" =>
              /\ m.session \in Drawn /\ m.token < fresh
              /\ Held(m.session, m.token, m.expires) /\ Exact(m.session, m.token, m.expires)
              /\ m.conn \in open => Served(m.conn, m.cap, m.expires)
              /\ m.kind = "create" => \A d \in Clients : client[d].session # m.session
              /\ m.kind = "resume" => k.errors >= 1
        /\ m.kind = "resume" =>
              /\ m.session = k.session
              /\ m.reply \in {"none", "ok", "denied", "internal", "limit"}
              /\ m.reply = "none" => m.token = k.token /\ Held(k.session, k.token, k.expires)
              /\ k.errors >= 1 \/ k.expires <= clock
              /\ m.step = "started" => k.errors >= 1 \/ k.expires <= m.now
              /\ m.reply = "denied" => ~allows \/ k.expires <= clock

\* A request for a job carries the key of the command it was made for; one on the
\* client's present connection is of the present command.
JobCall(m) ==
    LET k == client[m.client]
    IN  /\ k.session # None /\ m.session = k.session
        /\ m.key = [session |-> k.session, number |-> m.by[2]]
        /\ m.kind = "status" \/ m.reply = "ok" => HasJob(m.session, m.key)
        /\ m.reply # "not_found"
        /\ k.pc \in {"opening", "resuming"} => m.conn # k.next
        /\ m.conn = k.conn => /\ k.pc \notin {"idle", "ready"}
                              /\ m.by[2] = k.command /\ m.cap = k.cap
                              /\ m.reply = "denied" => k.expires <= clock

CallInv(m) ==
    /\ m.conn \in Drawn /\ m.by[1] = m.client
    /\ m.step # "answered" => m.reply = "none"
    /\ m.now <= clock
    /\ m.reply = "internal" => daemon # "up"
    /\ m.kind \in SessionKinds => SessionCall(m)
    /\ m.kind \in JobKinds => JobCall(m)

\* A job belongs to the session of the client that submitted it.
JobInv(job) ==
    LET k == client[job.by[1]]
    IN  /\ k.session # None /\ job.owner = k.session
        /\ job.key = [session |-> k.session, number |-> job.by[2]]

\* An attached session is that of whoever talks over the connection.
ConnInv(a) ==
    /\ a.conn \in Drawn
    /\ \A m \in calls : a.conn = m.conn =>
          a.session = m.session /\ (m.kind \in SessionKinds => m.reply = "ok")
    /\ \A c \in Clients : a.conn = client[c].conn => a.session = client[c].session

\* One request per connection, one connection and one session per client, one job per
\* key.
ApartInv ==
    /\ \A m, n \in calls : m.conn = n.conn => m = n
    /\ \A m, n \in calls : m.kind = "create" /\ n.kind = "create" /\ m.reply = "ok" /\ n.reply = "ok"
                              /\ m.session = n.session => m = n
    /\ \A m \in calls, c \in Clients : m.conn = client[c].conn => m.kind \in JobKinds /\ m.client = c
    /\ \A c, d \in Clients : client[c].session = client[d].session /\ client[c].session # None => c = d
    /\ \A c, d \in Clients : client[c].conn = client[d].conn /\ client[c].conn # None => c = d
    /\ \A i, k \in jobs : i.owner = k.owner /\ i.key = k.key => i = k

DownInv ==
    /\ open \subseteq Drawn
    /\ daemon = "down" => open = {} /\ conns = {} /\ \A m \in calls : m.step = "sent"

SessionInv ==
    /\ SessionTypes
    /\ \A c \in Clients : ClientInv(c)
    /\ \A m \in calls : CallInv(m)
    /\ \A a \in conns : ConnInv(a)
    /\ \A job \in jobs : JobInv(job)
    /\ ApartInv /\ DownInv
-----------------------------------------------------------------------------
(* What a step leaves alone.                                               *)

\* Jobs, live connections and stored tokens outlast the step; time does not go back.
Kept ==
    /\ clock' \in Nat /\ clock <= clock'
    /\ fresh' \in 1 .. MaxFresh + 1 /\ fresh <= fresh'
    /\ open' \cap Drawn \subseteq open /\ 0 \notin open'
    /\ \A x, y : HasJob(x, y) => HasJob(x, y)'
    /\ \A n, p, e : n \in open' /\ Served(n, p, e) => Served(n, p, e)'
    /\ \A x, t \in Nat : \A e : x < fresh /\ t < fresh /\ Exact(x, t, e) => Exact(x, t, e)'

\* A token of session x stays, unless it expires.
HeldKept(x) == \A t : \A e \in Nat : Held(x, t, e) => Held(x, t, e)'

LEMMA DrawnGrows ==
  ASSUME SessionTypes, Kept
  PROVE  Drawn \subseteq Drawn'
<1>1. fresh \in Nat /\ fresh' \in Nat /\ fresh <= fresh'
  BY DEF SessionTypes, Kept
<1>2. ASSUME NEW f \in Nat, NEW g \in Nat, f <= g PROVE 1 .. f - 1 \subseteq 1 .. g - 1
  BY <1>2
<1> QED BY <1>1, <1>2 DEF Drawn

Resumable == {"idle", "ready", "waiting", "reconnect"}

LEMMA KeptClient ==
  ASSUME SessionTypes, Kept, NEW c \in Clients, client'[c] = client[c], ClientInv(c),
         client[c].pc \in Resumable => HeldKept(client[c].session)
  PROVE  ClientInv(c)'
<1> PICK k \in ClientRecord : k = client[c] /\ k = client'[c]
  BY DEF SessionTypes
<1>1. /\ clock \in Nat /\ clock' \in Nat /\ clock <= clock'
      /\ fresh \in Nat /\ fresh' \in Nat /\ fresh <= fresh'
  BY DEF SessionTypes, Kept
<1>2. /\ k.pc \in {"start", "opening"} => k.session = None
      /\ k.pc \in {"idle", "ready", "waiting", "reconnect", "resuming", "ok"} => k.session # None
      /\ k.session = None => ~k.job
      /\ k.session = None <=> k.conn = None
      /\ k.pc = "idle" => ~k.job
      /\ k.pc \in {"ready", "waiting", "reconnect", "resuming"} \/ k.job =>
            k.key = [session |-> k.session, number |-> k.command]
      /\ k.job => HasJob(k.session, k.key)
      /\ k.conn < fresh /\ k.session < fresh /\ k.token < fresh
      /\ k.pc \in Resumable => Held(k.session, k.token, k.expires)
      /\ k.session # None => Exact(k.session, k.token, k.expires)
      /\ k.conn \in open => Served(k.conn, k.cap, k.expires)
      /\ k.pc \in {"reconnect", "resuming"} \/ (k.pc \in {"ready", "waiting"} /\ k.retry) =>
            k.errors >= 1 \/ k.expires <= clock
  BY DEF ClientInv, Resumable
<1>3. k.conn \in Nat /\ k.session \in Nat /\ k.token \in Nat /\ k.expires \in Nat /\ k.errors \in Nat
  BY <1>1 DEF ClientRecord
<1>4. k.job => HasJob(k.session, k.key)'
  BY <1>2 DEF Kept
<1>5. k.conn < fresh' /\ k.session < fresh' /\ k.token < fresh'
  BY <1>1, <1>2, <1>3
<1>6. k.pc \in Resumable => Held(k.session, k.token, k.expires)'
  BY <1>2, <1>3 DEF HeldKept
<1>7. k.session # None => Exact(k.session, k.token, k.expires)'
  BY <1>2, <1>3 DEF Kept
<1>8. k.conn \in open' => Served(k.conn, k.cap, k.expires)'
  <2>1. k.conn \in open' => k.conn \in open
    BY <1>1, <1>2, <1>3 DEF Kept, Drawn
  <2> QED BY <1>2, <2>1 DEF Kept
<1>9. k.pc \in {"reconnect", "resuming"} \/ (k.pc \in {"ready", "waiting"} /\ k.retry) =>
            k.errors >= 1 \/ k.expires <= clock'
  BY <1>1, <1>2, <1>3
<1> QED BY <1>1, <1>2, <1>4, <1>5, <1>6, <1>7, <1>8, <1>9 DEF ClientInv, Resumable

\* The session part and the job part of a request that stays, when its client stays.
LEMMA KeptCall ==
  ASSUME SessionTypes, Kept, NEW m \in CallRecord, CallInv(m), client'[m.client] = client[m.client],
         daemon' = "up" => daemon = "up" \/ m.reply # "internal",
         allows' = allows \/ m.reply # "denied",
         m.kind = "create" /\ m.reply = "ok" => \A d \in Clients : client'[d].session # m.session,
         m.kind = "resume" \/ (m.kind = "create" /\ m.reply = "ok") => HeldKept(m.session)
  PROVE  CallInv(m)'
<1> PICK k \in ClientRecord : k = client[m.client] /\ k = client'[m.client]
  BY DEF SessionTypes, CallRecord
<1>1. /\ clock \in Nat /\ clock' \in Nat /\ clock <= clock'
      /\ fresh \in Nat /\ fresh' \in Nat /\ fresh <= fresh'
  BY DEF SessionTypes, Kept
<1>2. /\ m.conn \in Nat /\ m.now \in Nat /\ m.session \in Nat /\ m.token \in Nat /\ m.expires \in Nat
      /\ k.session \in Nat /\ k.expires \in Nat /\ k.errors \in Nat
  BY DEF CallRecord, ClientRecord
<1>3. /\ m.conn \in Drawn /\ m.by[1] = m.client
      /\ m.step # "answered" => m.reply = "none"
      /\ m.now <= clock
      /\ m.reply = "internal" => daemon # "up"
  BY DEF CallInv
<1>4. m.conn \in Drawn' /\ (m.conn \in open' => m.conn \in open)
  BY <1>1, <1>3 DEF Kept, Drawn
<1>5. m.kind \in SessionKinds => SessionCall(m)'
  <2> SUFFICES ASSUME m.kind \in SessionKinds PROVE SessionCall(m)'
    OBVIOUS
  <2>1. /\ k.pc \in {"opening", "resuming", "error"} /\ m.conn = k.next
        /\ m.kind = "resume" <=> k.session # None
    BY DEF CallInv, SessionCall
  <2>2. m.reply = "ok" =>
              /\ m.session \in Drawn' /\ m.token < fresh'
              /\ Held(m.session, m.token, m.expires)' /\ Exact(m.session, m.token, m.expires)'
              /\ m.conn \in open' => Served(m.conn, m.cap, m.expires)'
              /\ m.kind = "create" => \A d \in Clients : client'[d].session # m.session
              /\ m.kind = "resume" => k.errors >= 1
    <3> SUFFICES ASSUME m.reply = "ok"
                 PROVE  /\ m.session \in Drawn' /\ m.token < fresh'
                        /\ Held(m.session, m.token, m.expires)' /\ Exact(m.session, m.token, m.expires)'
                        /\ m.conn \in open' => Served(m.conn, m.cap, m.expires)'
                        /\ m.kind = "create" => \A d \in Clients : client'[d].session # m.session
                        /\ m.kind = "resume" => k.errors >= 1
      OBVIOUS
    <3>1. /\ m.session \in Drawn /\ m.token < fresh
          /\ Held(m.session, m.token, m.expires) /\ Exact(m.session, m.token, m.expires)
          /\ m.conn \in open => Served(m.conn, m.cap, m.expires)
          /\ m.kind = "resume" => k.errors >= 1
      BY DEF CallInv, SessionCall
    <3>2. m.session \in Drawn' /\ m.token < fresh' /\ m.session < fresh
      BY <1>1, <1>2, <3>1 DEF Drawn
    <3>3. Held(m.session, m.token, m.expires)'
      BY <1>2, <3>1 DEF HeldKept, SessionKinds
    <3>4. Exact(m.session, m.token, m.expires)'
      BY <1>2, <3>1, <3>2 DEF Kept
    <3>5. m.conn \in open' => Served(m.conn, m.cap, m.expires)'
      BY <1>4, <3>1 DEF Kept
    <3> QED BY <3>1, <3>2, <3>3, <3>4, <3>5
  <2>3. m.kind = "resume" =>
              /\ m.session = k.session
              /\ m.reply \in {"none", "ok", "denied", "internal", "limit"}
              /\ m.reply = "none" => m.token = k.token /\ Held(k.session, k.token, k.expires)'
              /\ k.errors >= 1 \/ k.expires <= clock'
              /\ m.step = "started" => k.errors >= 1 \/ k.expires <= m.now
              /\ m.reply = "denied" => ~allows' \/ k.expires <= clock'
    <3> SUFFICES ASSUME m.kind = "resume"
                 PROVE  /\ m.session = k.session
                        /\ m.reply \in {"none", "ok", "denied", "internal", "limit"}
                        /\ m.reply = "none" => m.token = k.token /\ Held(k.session, k.token, k.expires)'
                        /\ k.errors >= 1 \/ k.expires <= clock'
                        /\ m.step = "started" => k.errors >= 1 \/ k.expires <= m.now
                        /\ m.reply = "denied" => ~allows' \/ k.expires <= clock'
      OBVIOUS
    <3>1. /\ m.session = k.session
          /\ m.reply \in {"none", "ok", "denied", "internal", "limit"}
          /\ m.reply = "none" => m.token = k.token /\ Held(k.session, k.token, k.expires)
          /\ k.errors >= 1 \/ k.expires <= clock
          /\ m.step = "started" => k.errors >= 1 \/ k.expires <= m.now
          /\ m.reply = "denied" => ~allows \/ k.expires <= clock
      BY DEF CallInv, SessionCall
    <3>2. m.reply = "none" => Held(k.session, k.token, k.expires)'
      BY <1>2, <3>1 DEF HeldKept
    <3>3. m.reply = "denied" => ~allows' \/ k.expires <= clock'
      <4>1. k.expires <= clock => k.expires <= clock'
        BY <1>1, <1>2
      <4>2. m.reply = "denied" /\ ~allows => ~allows'
        BY Zenon
      <4> QED BY <3>1, <4>1, <4>2
    <3>4. k.errors >= 1 \/ k.expires <= clock'
      BY <1>1, <1>2, <3>1
    <3> QED BY <3>1, <3>2, <3>3, <3>4
  <2> QED BY <2>1, <2>2, <2>3 DEF SessionCall
<1>6. m.kind \in JobKinds => JobCall(m)'
  <2> SUFFICES ASSUME m.kind \in JobKinds PROVE JobCall(m)'
    OBVIOUS
  <2>1. /\ k.session # None /\ m.session = k.session
        /\ m.key = [session |-> k.session, number |-> m.by[2]]
        /\ m.kind = "status" \/ m.reply = "ok" => HasJob(m.session, m.key)
        /\ m.reply # "not_found"
        /\ k.pc \in {"opening", "resuming"} => m.conn # k.next
        /\ m.conn = k.conn => /\ k.pc \notin {"idle", "ready"}
                              /\ m.by[2] = k.command /\ m.cap = k.cap
                              /\ m.reply = "denied" => k.expires <= clock
    BY DEF CallInv, JobCall
  <2>2. m.kind = "status" \/ m.reply = "ok" => HasJob(m.session, m.key)'
    BY <2>1 DEF Kept
  <2>3. m.conn = k.conn /\ m.reply = "denied" => k.expires <= clock'
    BY <1>1, <1>2, <2>1
  <2> QED BY <2>1, <2>2, <2>3 DEF JobCall
<1>7. m.now <= clock'
  BY <1>1, <1>2, <1>3
<1>8. m.reply = "internal" => daemon' # "up"
  BY <1>3
<1> QED BY <1>3, <1>4, <1>5, <1>6, <1>7, <1>8 DEF CallInv

-----------------------------------------------------------------------------
(* Steps of the daemon that turn request m into n, or drop it.             *)

HandledBy(m, n) ==
    /\ calls' = (calls \ {m}) \cup {n} \/ calls' = calls \ {m}
    /\ n.conn = m.conn /\ n.kind = m.kind /\ n.client = m.client
    /\ UNCHANGED <<client, open, allows>>
    /\ daemon' = "up" => daemon = "up"
    /\ daemon' # "down"

StoreTypes ==
    /\ faults \in Nat /\ others \in Nat
    /\ sessions \subseteq [session : Nat, token : Nat, expires : Nat]
    /\ \A s \in sessions : (s.session < fresh /\ s.token < fresh) \/ s.session > MaxFresh
    /\ conns \subseteq [conn : Nat, session : Nat, cap : Nat, expires : Nat]
    /\ jobs \subseteq JobRecord

JobsInv ==
    /\ \A job \in jobs : JobInv(job)
    /\ \A i, k \in jobs : i.owner = k.owner /\ i.key = k.key => i = k

LEMMA HandledInv ==
  ASSUME SessionInv, NEW m \in calls, NEW n \in CallRecord, HandledBy(m, n), Kept,
         StoreTypes', JobsInv', CallInv(n)',
         m.kind \in SessionKinds => m.reply = "none",
         m.kind \in JobKinds => n.session = m.session,
         n.kind = "create" /\ n.reply = "ok" => n.session \notin Drawn /\ n.session # None,
         \A a \in conns' : a \in conns \/ (/\ m.kind \in SessionKinds /\ n.reply = "ok"
                                           /\ a.conn = m.conn /\ a.session = n.session),
         \A c \in Clients : client[c].pc \in Resumable => HeldKept(client[c].session),
         \A q \in calls : q # m /\ (q.kind = "resume" \/ (q.kind = "create" /\ q.reply = "ok")) =>
                            HeldKept(q.session)
  PROVE  SessionInv'
<1>1. SessionTypes /\ calls \subseteq CallRecord /\ m \in CallRecord /\ client' = client
  BY DEF SessionInv, SessionTypes, HandledBy
<1>2. calls' \subseteq CallRecord /\ \A q \in calls' : q = n \/ (q \in calls /\ q # m)
  BY <1>1 DEF HandledBy
<1>3. SessionTypes'
  BY <1>1, <1>2 DEF SessionTypes, StoreTypes, Kept
<1>4. \A c \in Clients : ClientInv(c)'
  BY <1>1, KeptClient DEF SessionInv
<1>5. ASSUME NEW q \in calls' PROVE CallInv(q)'
  <2>1. CASE q = n
    BY <2>1
  <2>2. CASE q # n
    <3>1. q \in calls /\ q # m /\ q \in CallRecord /\ CallInv(q)
      BY <1>1, <1>2, <2>2 DEF SessionInv
    <3>2. /\ q.kind = "resume" \/ (q.kind = "create" /\ q.reply = "ok") => HeldKept(q.session)
          /\ client'[q.client] = client[q.client] /\ allows' = allows
          /\ daemon' = "up" => daemon = "up"
      BY <1>1, <3>1 DEF HandledBy
    <3>3. q.kind = "create" /\ q.reply = "ok" => \A d \in Clients : client'[d].session # q.session
      BY <1>1, <3>1 DEF CallInv, SessionCall, SessionKinds
    <3> QED BY <1>1, <3>1, <3>2, <3>3, KeptCall
  <2> QED BY <2>1, <2>2
<1>6. ASSUME NEW a \in conns' PROVE ConnInv(a)'
  <2>1. CASE a \in conns
    <3>1. /\ a.conn \in Drawn
          /\ \A q \in calls : a.conn = q.conn =>
                a.session = q.session /\ (q.kind \in SessionKinds => q.reply = "ok")
          /\ \A c \in Clients : a.conn = client[c].conn => a.session = client[c].session
      BY <2>1 DEF SessionInv, ConnInv
    <3>2. a.conn \in Drawn'
      BY <1>1, <3>1 DEF Kept, Drawn, SessionTypes
    <3>3. a.conn = n.conn => a.session = n.session /\ n.kind \notin SessionKinds
      BY <1>1, <3>1 DEF HandledBy, CallRecord
    <3> QED BY <1>1, <1>2, <3>1, <3>2, <3>3 DEF ConnInv
  <2>2. CASE a \notin conns
    <3>1. /\ m.kind \in SessionKinds /\ n.reply = "ok"
          /\ a.conn = m.conn /\ a.session = n.session
      BY <2>2
    <3>2. a.conn \in Drawn'
      BY <3>1 DEF CallInv, HandledBy
    <3>3. \A q \in calls' : a.conn = q.conn => q = n
      BY <1>2, <3>1 DEF SessionInv, ApartInv
    <3>4. \A c \in Clients : a.conn # client[c].conn
      BY <3>1 DEF SessionInv, ApartInv, SessionKinds, JobKinds
    <3> QED BY <1>1, <3>1, <3>2, <3>3, <3>4 DEF ConnInv
  <2> QED BY <2>1, <2>2
<1>7. ApartInv'
  <2>1. \A p, q \in calls' : p.conn = q.conn => p = q
    BY <1>2 DEF SessionInv, ApartInv, HandledBy
  <2>2. \A p, q \in calls' : p.kind = "create" /\ q.kind = "create" /\ p.reply = "ok" /\ q.reply = "ok"
                              /\ p.session = q.session => p = q
    <3>1. \A q \in calls : q.kind = "create" /\ q.reply = "ok" => q.session \in Drawn
      BY DEF SessionInv, CallInv, SessionCall, SessionKinds
    <3> QED BY <1>2, <3>1 DEF SessionInv, ApartInv
  <2>3. \A q \in calls', c \in Clients : q.conn = client'[c].conn => q.kind \in JobKinds /\ q.client = c
    BY <1>1, <1>2 DEF SessionInv, ApartInv, HandledBy
  <2>4. /\ \A c, d \in Clients :
              client'[c].session = client'[d].session /\ client'[c].session # None => c = d
        /\ \A c, d \in Clients : client'[c].conn = client'[d].conn /\ client'[c].conn # None => c = d
    BY <1>1 DEF SessionInv, ApartInv
  <2> QED BY <2>1, <2>2, <2>3, <2>4 DEF ApartInv, JobsInv
<1>8. DownInv'
  <2>1. open' \subseteq Drawn'
    <3>1. open' = open /\ open \subseteq Drawn
      BY DEF SessionInv, DownInv, HandledBy
    <3> QED BY <1>1, <3>1, DrawnGrows
  <2> QED BY <2>1 DEF DownInv, HandledBy
<1> QED BY <1>3, <1>4, <1>5, <1>6, <1>7, <1>8 DEF SessionInv, JobsInv

\* Steps that leave the daemon's stores and the clock alone.
LEMMA StoresKept ==
  ASSUME SessionInv, UNCHANGED <<clock, sessions, conns>>,
         \A x, y : HasJob(x, y) => HasJob(x, y)',
         fresh' \in 1 .. MaxFresh + 1, fresh <= fresh', open' \cap Drawn \subseteq open, 0 \notin open'
  PROVE  Kept /\ \A x : HeldKept(x)
<1>1. clock \in Nat
  BY DEF SessionInv, SessionTypes
<1>2. clock' \in Nat /\ clock <= clock'
  BY <1>1
<1>3. \A x, t, e : /\ Held(x, t, e) => Held(x, t, e)'
                   /\ Exact(x, t, e) => Exact(x, t, e)'
                   /\ Served(x, t, e) => Served(x, t, e)'
  BY DEF Held, Exact, Served
<1> QED BY <1>2, <1>3 DEF Kept, HeldKept

LEMMA OpenKept ==
  ASSUME SessionInv, UNCHANGED <<clock, sessions, conns, jobs, fresh, open>>
  PROVE  Kept /\ \A x : HeldKept(x)
<1>1. /\ fresh \in 1 .. MaxFresh + 1 /\ fresh \in Nat /\ open \subseteq Drawn /\ 0 \notin Drawn
  BY DEF SessionInv, SessionTypes, DownInv, Drawn
<1>2. \A x, y : HasJob(x, y) => HasJob(x, y)'
  BY DEF HasJob
<1>3. fresh' \in 1 .. MaxFresh + 1 /\ fresh <= fresh' /\ open' \cap Drawn \subseteq open /\ 0 \notin open'
  BY <1>1
<1> QED BY <1>2, <1>3, StoresKept

\* The answer with a reply that grants nothing.
Answered(m, reply) == [m EXCEPT !.reply = reply, !.step = "answered"]

LEMMA SaysHandles ==
  ASSUME SessionInv, NEW m \in calls,
         NEW reply \in Replies,
         Says(m, reply), UNCHANGED <<client, open, allows>>, daemon' = "up" => daemon = "up",
         daemon' # "down"
  PROVE  /\ HandledBy(m, Answered(m, reply)) /\ Answered(m, reply) \in CallRecord
         /\ Answered(m, reply).session = m.session /\ Answered(m, reply).reply = reply
         /\ m.conn \notin open => calls' = calls \ {m}
<1>1. m \in CallRecord
  BY DEF SessionInv, SessionTypes
<1>2. Answered(m, reply) \in CallRecord
  BY <1>1 DEF Answered, CallRecord
<1>3. /\ Answered(m, reply).conn = m.conn /\ Answered(m, reply).kind = m.kind
      /\ Answered(m, reply).client = m.client /\ Answered(m, reply).session = m.session
      /\ Answered(m, reply).reply = reply
  BY <1>1 DEF Answered, CallRecord
<1>4. [[m EXCEPT !.reply = reply] EXCEPT !.step = "answered"] = Answered(m, reply)
  BY <1>1 DEF Answered, CallRecord
<1>5. /\ calls' = (calls \ {m}) \cup {Answered(m, reply)} \/ calls' = calls \ {m}
      /\ m.conn \notin open => calls' = calls \ {m}
  BY <1>4 DEF Says, Reply, Becomes
<1> QED BY <1>2, <1>3, <1>5 DEF HandledBy

\* JobsInv only looks at jobs and clients.
LEMMA JobsKept ==
  ASSUME SessionInv, UNCHANGED <<jobs, client>>
  PROVE  JobsInv'
<1>1. JobsInv
  BY DEF SessionInv, ApartInv, JobsInv
<1>2. \A job \in jobs : JobInv(job)'
  BY <1>1 DEF JobsInv, JobInv
<1> QED BY <1>1, <1>2 DEF JobsInv

\* An error that only answers: a daemon that failed closed, a limit, or a check of the
\* request itself.
OnlyAnswers(m, reply) ==
    /\ reply \in {"internal", "conflict", "limit", "forbidden", "invalid"}
    /\ reply = "internal" => daemon # "up"
    /\ m.kind \in SessionKinds => reply \in {"internal", "limit"}
    /\ m.step # "answered" /\ daemon # "down" /\ Says(m, reply)
    /\ UNCHANGED <<clock, fresh, faults, others, daemon, allows, sessions, conns, jobs, open, client>>

LEMMA OnlyAnswersInv ==
  ASSUME SessionInv, NEW m \in calls, NEW reply, OnlyAnswers(m, reply)
  PROVE  SessionInv'
<1>1. /\ Says(m, reply) /\ daemon # "down" /\ reply \in Replies /\ m.step # "answered"
      /\ UNCHANGED <<clock, fresh, faults, others, daemon, allows, sessions, conns, jobs, open, client>>
  BY DEF OnlyAnswers, Replies, Errors
<1>2. Kept /\ \A x : HeldKept(x)
  BY <1>1, OpenKept
<1>3. PICK n \in CallRecord : n = Answered(m, reply)
  BY <1>1, SaysHandles
<1>4. HandledBy(m, n) /\ n.session = m.session /\ n.reply = reply
  BY <1>1, <1>3, SaysHandles
<1>5. m \in CallRecord /\ CallInv(m) /\ SessionTypes
  BY DEF SessionInv, SessionTypes
<1>6. /\ reply = "internal" => daemon' # "up"
      /\ m.kind \in SessionKinds => reply \in {"internal", "limit"}
      /\ reply \notin {"ok", "denied", "none", "not_found"}
  BY <1>1 DEF OnlyAnswers
<1>7. CallInv(n)'
  <2>1. CallInv(m)'
    BY <1>1, <1>2, <1>5, KeptCall DEF CallInv, SessionCall, SessionKinds
  <2>2. /\ n.step = "answered" /\ n.conn = m.conn /\ n.by = m.by /\ n.client = m.client
        /\ n.kind = m.kind /\ n.key = m.key /\ n.cap = m.cap /\ n.now = m.now
    BY <1>3, <1>5 DEF Answered, CallRecord
  <2>3. m.kind \in SessionKinds => SessionCall(n)'
    BY <1>4, <1>6, <2>1, <2>2 DEF CallInv, SessionCall
  <2>4. m.kind \in JobKinds => JobCall(n)'
    BY <1>4, <1>6, <2>1, <2>2 DEF CallInv, JobCall
  <2> QED BY <1>1, <1>4, <1>6, <2>1, <2>2, <2>3, <2>4 DEF CallInv
<1>8. StoreTypes' /\ JobsInv' /\ m.reply = "none"
  BY <1>1, <1>5, JobsKept DEF StoreTypes, SessionTypes, CallInv
<1> QED BY <1>1, <1>2, <1>4, <1>6, <1>7, <1>8, HandledInv

\* handle_frame of a daemon that failed closed, the rate limits, and the checks of a
\* submission.
LEMMA RefusalsInv ==
  ASSUME SessionInv, NEW m \in calls,
         \/ RefuseDegraded(m) \/ RefuseRate(m) \/ Conflict(m)
         \/ \E error \in {"forbidden", "limit", "invalid"} : TurnAway(m, error)
         \/ \E error \in {"conflict", "internal"} : SubmitTooLate(m, error)
  PROVE  SessionInv'
<1>1. CASE RefuseDegraded(m) \/ RefuseRate(m)
  <2>1. OnlyAnswers(m, "internal") \/ OnlyAnswers(m, "limit")
    BY <1>1 DEF RefuseDegraded, RefuseRate, OnlyAnswers, daemonVars
  <2> QED BY <2>1, OnlyAnswersInv
<1>2. ASSUME NEW error \in {"forbidden", "limit", "invalid"}, TurnAway(m, error) PROVE SessionInv'
  <2>1. daemon # "down"
    BY <1>2 DEF TurnAway, SessionInv, DownInv
  <2>2. OnlyAnswers(m, error)
    BY <1>2, <2>1 DEF TurnAway, OnlyAnswers, SessionKinds, daemonVars
  <2> QED BY <2>2, OnlyAnswersInv
<1>3. ASSUME NEW error \in {"conflict", "internal"}, SubmitTooLate(m, error) PROVE SessionInv'
  <2>1. OnlyAnswers(m, error)
    BY <1>3 DEF SubmitTooLate, OnlyAnswers, SessionKinds, daemonVars
  <2> QED BY <2>1, OnlyAnswersInv
<1>4. CASE Conflict(m)
  <2>1. daemon # "down"
    BY <1>4 DEF Conflict, SessionInv, DownInv
  <2>2. OnlyAnswers(m, "conflict")
    BY <1>4, <2>1 DEF Conflict, OnlyAnswers, SessionKinds, daemonVars
  <2> QED BY <2>2, OnlyAnswersInv
<1> QED BY <1>1, <1>2, <1>3, <1>4

\* open_session up to its await.
LEMMA OpenSessionInv ==
  ASSUME SessionInv, NEW m \in calls, OpenSession(m)
  PROVE  SessionInv'
<1> DEFINE n == [m EXCEPT !.step = "started", !.now = clock, !.expires = clock + Ttl]
<1>1. /\ m.step = "sent" /\ daemon = "up" /\ m.kind \in SessionKinds /\ calls' = (calls \ {m}) \cup {n}
      /\ UNCHANGED <<clock, fresh, faults, others, daemon, allows, sessions, conns, jobs, open, client>>
  BY DEF OpenSession, Becomes, daemonVars, SessionKinds
<1>2. Kept /\ \A x : HeldKept(x)
  BY <1>1, OpenKept
<1>3. m \in CallRecord /\ CallInv(m) /\ SessionTypes /\ clock \in Nat
  BY DEF SessionInv, SessionTypes
<1>4. n \in CallRecord
  <2>1. clock + Ttl \in Nat
    BY <1>3, ClientSessionAssumption
  <2> QED BY <1>3, <2>1 DEF CallRecord
<1>5. /\ n.step = "started" /\ n.now = clock /\ n.conn = m.conn /\ n.by = m.by /\ n.client = m.client
      /\ n.kind = m.kind /\ n.reply = m.reply /\ n.session = m.session /\ n.token = m.token
  BY <1>3 DEF CallRecord
<1>6. \E f \in CallRecord : f = n
  BY <1>4
<1> HIDE DEF n
<1>7. PICK f \in CallRecord : f = n
  BY <1>6
<1>8. /\ f.step = "started" /\ f.now = clock /\ f.conn = m.conn /\ f.by = m.by /\ f.client = m.client
      /\ f.kind = m.kind /\ f.reply = m.reply /\ f.session = m.session /\ f.token = m.token
  BY <1>5, <1>7
<1>9. CallInv(f)'
  <2>1. CallInv(m)'
    BY <1>1, <1>2, <1>3, KeptCall DEF CallInv, SessionCall, SessionKinds
  <2>2. m.reply = "none"
    BY <1>1, <1>3 DEF CallInv
  <2>3. m.kind = "resume" => client[m.client].errors >= 1 \/ client[m.client].expires <= clock
    BY <1>1, <1>3 DEF CallInv, SessionCall
  <2>4. SessionCall(f)'
    BY <1>1, <1>8, <2>1, <2>2, <2>3 DEF CallInv, SessionCall
  <2>5. f.now <= clock'
    BY <1>1, <1>3, <1>8
  <2> QED BY <1>1, <1>8, <2>1, <2>2, <2>4, <2>5 DEF CallInv, SessionKinds, JobKinds
<1>10. HandledBy(m, f) /\ m.reply = "none"
  BY <1>1, <1>3, <1>7, <1>8 DEF HandledBy, CallInv
<1>11. StoreTypes' /\ JobsInv'
  BY <1>1, <1>3, JobsKept DEF StoreTypes, SessionTypes
<1> QED BY <1>1, <1>2, <1>8, <1>9, <1>10, <1>11, HandledInv DEF SessionKinds, JobKinds

\* authenticate: on an open connection the client is refused only when its session has
\* expired.
LEMMA DenyInv ==
  ASSUME SessionInv, NEW m \in calls, Deny(m)
  PROVE  SessionInv'
<1>1. /\ m.step = "sent" /\ daemon = "up" /\ m.kind \in JobKinds /\ Says(m, "denied") /\ Attached(m) = {}
      /\ UNCHANGED <<clock, fresh, faults, others, daemon, allows, sessions, conns, jobs, open, client>>
  BY DEF Deny, JobKinds, daemonVars
<1>2. Kept /\ \A x : HeldKept(x)
  BY <1>1, OpenKept
<1>3. m \in CallRecord /\ CallInv(m) /\ SessionTypes
  BY DEF SessionInv, SessionTypes
<1>4. StoreTypes' /\ JobsInv' /\ CallInv(m)' /\ m.kind \notin SessionKinds
  BY <1>1, <1>2, <1>3, JobsKept, KeptCall DEF StoreTypes, SessionTypes, CallInv, SessionKinds, JobKinds
<1>5. CASE m.conn \notin open
  <2>1. calls' = calls \ {m}
    BY <1>1, <1>5, SaysHandles DEF Replies, Errors
  <2>2. HandledBy(m, m)
    BY <1>1, <2>1 DEF HandledBy
  <2> QED BY <1>1, <1>2, <1>3, <1>4, <2>2, HandledInv DEF SessionKinds
<1>6. CASE m.conn \in open
  <2>1. PICK n \in CallRecord : n = Answered(m, "denied")
    BY <1>1, SaysHandles DEF Replies, Errors
  <2>2. HandledBy(m, n) /\ n.session = m.session /\ n.reply = "denied"
    BY <1>1, <2>1, SaysHandles DEF Replies, Errors
  <2>3. /\ n.step = "answered" /\ n.conn = m.conn /\ n.by = m.by /\ n.client = m.client
        /\ n.kind = m.kind /\ n.key = m.key /\ n.cap = m.cap /\ n.now = m.now
    BY <1>3, <2>1 DEF Answered, CallRecord
  <2> DEFINE k == client[m.client]
  <2>4. m.conn = k.conn => k.expires <= clock
    <3> SUFFICES ASSUME m.conn = k.conn PROVE k.expires <= clock
      OBVIOUS
    <3>1. Served(k.conn, k.cap, k.expires) /\ m.cap = k.cap
      BY <1>1, <1>3, <1>6 DEF SessionInv, ClientInv, CallInv, JobCall, CallRecord
    <3>2. PICK a \in conns : a.conn = m.conn /\ a.cap = m.cap /\ a.expires = k.expires
      BY <3>1 DEF Served
    <3>3. ~(clock < a.expires)
      BY <1>1, <3>2 DEF Attached, Authentic
    <3>4. clock \in Nat /\ a.expires \in Nat
      BY DEF SessionInv, SessionTypes
    <3> QED BY <3>2, <3>3, <3>4
  <2>5. JobCall(n)'
    BY <1>1, <1>4, <2>2, <2>3, <2>4 DEF CallInv, JobCall
  <2>6. CallInv(n)'
    BY <1>1, <1>4, <2>2, <2>3, <2>5 DEF CallInv
  <2> QED BY <1>1, <1>2, <1>3, <1>4, <2>2, <2>3, <2>6, HandledInv DEF SessionKinds
<1> QED BY <1>5, <1>6

\* An attached session is that of the client whose request is authenticated.
LEMMA AttachedSession ==
  ASSUME SessionInv, NEW m \in calls, NEW a \in Attached(m)
  PROVE  a.session = m.session
  BY DEF SessionInv, ConnInv, Attached, Authentic

LEMMA AdmitInv ==
  ASSUME SessionInv, NEW m \in calls, Admit(m)
  PROVE  SessionInv'
<1>1. PICK a \in Attached(m) : calls' = (calls \ {m}) \cup {[m EXCEPT !.step = "started", !.session = a.session]}
  BY DEF Admit, Becomes
<1>2. /\ m.step = "sent" /\ daemon = "up" /\ m.kind = "submit"
      /\ UNCHANGED <<clock, fresh, faults, others, daemon, allows, sessions, conns, jobs, open, client>>
  BY DEF Admit, daemonVars
<1>3. Kept /\ \A x : HeldKept(x)
  BY <1>2, OpenKept
<1>4. m \in CallRecord /\ CallInv(m) /\ SessionTypes /\ clock \in Nat
  BY DEF SessionInv, SessionTypes
<1>5. m.kind \in JobKinds /\ m.kind \notin SessionKinds /\ a.session = m.session /\ m.reply = "none"
  BY <1>2, <1>4, AttachedSession DEF SessionKinds, JobKinds, CallInv
<1>6. StoreTypes' /\ JobsInv' /\ CallInv(m)'
  BY <1>2, <1>3, <1>4, <1>5, JobsKept, KeptCall DEF StoreTypes, SessionTypes, SessionKinds
<1>7. PICK n \in CallRecord : n = [m EXCEPT !.step = "started", !.session = a.session]
  BY <1>4, <1>5 DEF CallRecord
<1>8. /\ n.step = "started" /\ n.conn = m.conn /\ n.by = m.by /\ n.client = m.client /\ n.now = m.now
      /\ n.kind = m.kind /\ n.key = m.key /\ n.cap = m.cap /\ n.session = m.session /\ n.reply = m.reply
  BY <1>4, <1>5, <1>7 DEF CallRecord
<1>9. JobCall(n)'
  BY <1>5, <1>6, <1>8 DEF CallInv, JobCall
<1>10. n.now <= clock'
  BY <1>2, <1>4, <1>8 DEF CallInv
<1>11. CallInv(n)'
  BY <1>5, <1>6, <1>8, <1>9, <1>10 DEF CallInv
<1>12. HandledBy(m, n)
  BY <1>1, <1>2, <1>7, <1>8 DEF HandledBy
<1> QED BY <1>2, <1>3, <1>5, <1>6, <1>8, <1>11, <1>12, HandledInv DEF SessionKinds

\* What submit_with_limit does to the jobs: none, or one of the client's session whose
\* key no job has yet; it answers ok only when there is one.
Submits(m, reply) ==
    /\ m.step = "started" /\ m.kind = "submit" /\ Says(m, reply)
    /\ reply \in {"ok", "limit", "internal"}
    /\ reply = "internal" => daemon' # "up"
    /\ reply = "ok" => HasJob(m.session, m.key)'
    /\ \/ jobs' = jobs
       \/ /\ ~Stored(m)
          /\ jobs' = jobs \cup {[owner |-> m.session, key |-> m.key, state |-> "live", by |-> m.by]}
    /\ daemon' = daemon \/ daemon' = "degraded"
    /\ faults' \in Nat
    /\ UNCHANGED <<clock, fresh, others, allows, sessions, conns, open, client>>

LEMMA SubmitsInv ==
  ASSUME SessionInv, NEW m \in calls, NEW reply, Submits(m, reply)
  PROVE  SessionInv'
<1> DEFINE new == [owner |-> m.session, key |-> m.key, state |-> "live", by |-> m.by]
<1>1. /\ m.step = "started" /\ m.kind = "submit" /\ Says(m, reply)
      /\ UNCHANGED <<clock, fresh, others, allows, sessions, conns, open, client>>
      /\ faults' \in Nat /\ (daemon' = daemon \/ daemon' = "degraded")
      /\ reply \in Replies /\ reply \notin {"denied", "not_found", "none"}
      /\ reply = "internal" => daemon' # "up"
      /\ reply = "ok" => HasJob(m.session, m.key)'
  BY DEF Submits, Replies, Errors
<1>2. /\ m \in CallRecord /\ CallInv(m) /\ SessionTypes /\ m.kind \in JobKinds /\ m.kind \notin SessionKinds
      /\ daemon # "down" /\ daemon' # "down" /\ (daemon' = "up" => daemon = "up")
  BY <1>1 DEF SessionInv, SessionTypes, DownInv, JobKinds, SessionKinds
<1>3. JobCall(m) /\ m.by[1] = m.client /\ m.client \in Clients /\ m.reply = "none"
  BY <1>1, <1>2 DEF CallInv, CallRecord
<1>4. jobs' = jobs \/ (~Stored(m) /\ jobs' = jobs \cup {new})
  BY DEF Submits
<1>5. \A x, y : HasJob(x, y) => HasJob(x, y)'
  BY <1>4 DEF HasJob
<1>6. Kept /\ \A x : HeldKept(x)
  <2>1. fresh \in 1 .. MaxFresh + 1 /\ fresh \in Nat /\ open \subseteq Drawn /\ 0 \notin Drawn
    BY DEF SessionInv, SessionTypes, DownInv, Drawn
  <2>2. fresh' \in 1 .. MaxFresh + 1 /\ fresh <= fresh' /\ open' \cap Drawn \subseteq open /\ 0 \notin open'
    BY <1>1, <2>1
  <2> QED BY <1>1, <1>5, <2>2, StoresKept
<1>7. new \in JobRecord
  BY <1>2 DEF CallRecord, JobRecord
<1>8. StoreTypes'
  BY <1>1, <1>2, <1>4, <1>7 DEF StoreTypes, SessionTypes
<1>9. JobsInv'
  <2>1. JobsInv /\ client' = client
    BY <1>1 DEF SessionInv, ApartInv, JobsInv
  <2>2. \A job \in jobs : JobInv(job)'
    BY <2>1 DEF JobsInv, JobInv
  <2>3. CASE jobs' = jobs
    BY <2>1, <2>2, <2>3 DEF JobsInv
  <2>4. CASE ~Stored(m) /\ jobs' = jobs \cup {new}
    <3>1. PICK b \in JobRecord : b = new
      BY <1>7
    <3>2. jobs' = jobs \cup {b} /\ b.owner = m.session /\ b.key = m.key /\ b.by = m.by
      BY <2>4, <3>1
    <3>3. JobInv(b)'
      BY <1>3, <2>1, <3>2 DEF JobInv, JobCall
    <3>4. \A job \in jobs : ~(job.owner = b.owner /\ job.key = b.key)
      BY <2>4, <3>2 DEF Stored, SameKey
    <3> QED BY <2>1, <2>2, <3>2, <3>3, <3>4 DEF JobsInv
  <2> QED BY <1>4, <2>3, <2>4
<1>10. PICK n \in CallRecord : n = Answered(m, reply)
  BY <1>1, <1>2, SaysHandles
<1>11. HandledBy(m, n) /\ n.session = m.session /\ n.reply = reply
  BY <1>1, <1>2, <1>10, SaysHandles
<1>12. /\ n.step = "answered" /\ n.conn = m.conn /\ n.by = m.by /\ n.client = m.client
       /\ n.kind = m.kind /\ n.key = m.key /\ n.cap = m.cap /\ n.now = m.now
  BY <1>2, <1>10 DEF Answered, CallRecord
<1>13. CallInv(m)'
  BY <1>1, <1>2, <1>6, KeptCall DEF SessionKinds
<1>14. JobCall(n)'
  BY <1>1, <1>2, <1>11, <1>12, <1>13 DEF CallInv, JobCall
<1>15. CallInv(n)'
  BY <1>1, <1>2, <1>11, <1>12, <1>13, <1>14 DEF CallInv
<1> QED BY <1>1, <1>2, <1>6, <1>8, <1>9, <1>11, <1>12, <1>15, HandledInv DEF SessionKinds

LEMMA ReplayInv ==
  ASSUME SessionInv, NEW m \in calls, Replay(m)
  PROVE  SessionInv'
<1>1. HasJob(m.session, m.key)'
  BY DEF Replay, Stored, SameKey, HasJob, daemonVars
<1>2. faults' \in Nat
  BY DEF Replay, SessionInv, SessionTypes
<1>3. Submits(m, "ok")
  BY <1>1, <1>2 DEF Replay, Submits, daemonVars
<1> QED BY <1>3, SubmitsInv

LEMMA SubmitInv ==
  ASSUME SessionInv, NEW m \in calls, NEW io \in Outcomes, Submit(m, io)
  PROVE  SessionInv'
<1> DEFINE new == [owner |-> m.session, key |-> m.key, state |-> "live", by |-> m.by]
<1>1. faults \in Nat /\ faults' \in Nat
  BY DEF Submit, CountFault, SessionInv, SessionTypes
<1>2. CASE io = "ok"
  <2>1. new \in jobs' /\ new.owner = m.session /\ new.key = m.key
    BY <1>2 DEF Submit
  <2>2. HasJob(m.session, m.key)'
    BY <2>1 DEF HasJob
  <2>3. Submits(m, "ok")
    BY <1>1, <1>2, <2>2 DEF Submit, Submits
  <2> QED BY <2>3, SubmitsInv
<1>3. CASE io = "full"
  <2>1. Submits(m, "limit")
    BY <1>1, <1>3 DEF Submit, Submits, CommitError
  <2> QED BY <2>1, SubmitsInv
<1>4. CASE io \in {"refused", "unsynced"}
  <2>1. Submits(m, "internal")
    BY <1>1, <1>4 DEF Submit, Submits, CommitError
  <2> QED BY <2>1, SubmitsInv
<1> QED BY <1>2, <1>3, <1>4 DEF Outcomes

\* snapshot finds the job of a client that polls.
LEMMA StatusInv ==
  ASSUME SessionInv, NEW m \in calls, Status(m)
  PROVE  SessionInv'
<1>1. /\ m.step = "sent" /\ daemon = "up" /\ m.kind = "status"
      /\ UNCHANGED <<clock, fresh, faults, others, daemon, allows, sessions, conns, jobs, open, client>>
  BY DEF Status, daemonVars
<1>2. Kept /\ \A x : HeldKept(x)
  BY <1>1, OpenKept
<1>3. m \in CallRecord /\ CallInv(m) /\ SessionTypes /\ m.kind \in JobKinds /\ m.kind \notin SessionKinds
  BY <1>1 DEF SessionInv, SessionTypes, JobKinds, SessionKinds
<1>4. PICK a \in Attached(m) :
         LET own == {job \in jobs : job.owner = a.session /\ job.key = m.key}
         IN  IF own = {} THEN Says(m, "not_found") ELSE \E job \in own : Says(m, job.state)
  BY DEF Status
<1>5. PICK job \in jobs : Says(m, job.state)
  <2>1. HasJob(m.session, m.key) /\ a.session = m.session
    BY <1>1, <1>3, AttachedSession DEF CallInv, JobCall
  <2> QED BY <1>4, <2>1 DEF HasJob
<1>6. job.state \in {"live", "completed", "failed"}
  BY <1>3 DEF SessionTypes, JobRecord
<1>7. PICK n \in CallRecord : n = Answered(m, job.state)
  BY <1>1, <1>5, <1>6, SaysHandles DEF Replies, Errors
<1>8. HandledBy(m, n) /\ n.session = m.session /\ n.reply = job.state
  BY <1>1, <1>5, <1>6, <1>7, SaysHandles DEF Replies, Errors
<1>9. /\ n.step = "answered" /\ n.conn = m.conn /\ n.by = m.by /\ n.client = m.client
      /\ n.kind = m.kind /\ n.key = m.key /\ n.cap = m.cap /\ n.now = m.now
  BY <1>3, <1>7 DEF Answered, CallRecord
<1>10. StoreTypes' /\ JobsInv' /\ CallInv(m)' /\ m.reply = "none"
  BY <1>1, <1>2, <1>3, JobsKept, KeptCall DEF StoreTypes, SessionTypes, CallInv, SessionKinds
<1>11. JobCall(n)'
  BY <1>3, <1>6, <1>8, <1>9, <1>10 DEF CallInv, JobCall
<1>12. CallInv(n)'
  BY <1>3, <1>6, <1>8, <1>9, <1>10, <1>11 DEF CallInv
<1> QED BY <1>1, <1>2, <1>3, <1>8, <1>9, <1>10, <1>12, HandledInv DEF SessionKinds

-----------------------------------------------------------------------------
(* The rest of open_session.                                               *)

\* The tokens that other clients need stay.
OthersHeld(m) ==
    /\ \A c \in Clients : client[c].pc \in Resumable => HeldKept(client[c].session)
    /\ \A q \in calls : q # m /\ (q.kind = "resume" \/ (q.kind = "create" /\ q.reply = "ok")) =>
                          HeldKept(q.session)

\* An answer that grants nothing.
LEMMA RefusedInv ==
  ASSUME SessionInv, NEW m \in calls, m.step = "started", m.kind \in SessionKinds,
         NEW reply \in {"denied", "internal", "limit"}, Says(m, reply), Kept, OthersHeld(m),
         UNCHANGED <<client, open, allows, conns, jobs>>, daemon' = "up" => daemon = "up",
         daemon' # "down", StoreTypes', reply = "internal" => daemon' # "up",
         m.kind = "resume" /\ reply = "denied" => ~allows \/ client[m.client].expires <= clock
  PROVE  SessionInv'
<1>1. m \in CallRecord /\ CallInv(m) /\ SessionTypes /\ SessionCall(m) /\ m.reply = "none"
  BY DEF SessionInv, SessionTypes, CallInv
<1>2. PICK n \in CallRecord : n = Answered(m, reply)
  BY SaysHandles DEF Replies, Errors
<1>3. HandledBy(m, n) /\ n.session = m.session /\ n.reply = reply
  BY <1>2, SaysHandles DEF Replies, Errors
<1>4. /\ n.step = "answered" /\ n.conn = m.conn /\ n.by = m.by /\ n.client = m.client
      /\ n.kind = m.kind /\ n.now = m.now
  BY <1>1, <1>2 DEF Answered, CallRecord
<1>5. PICK k \in ClientRecord : k = client[m.client] /\ k = client'[m.client]
  BY <1>1 DEF SessionTypes, CallRecord
<1>6. clock \in Nat /\ clock' \in Nat /\ clock <= clock' /\ m.now \in Nat /\ k.expires \in Nat
  BY <1>1 DEF SessionTypes, Kept, CallRecord, ClientRecord
<1>7. /\ k.pc \in {"opening", "resuming", "error"} /\ m.conn = k.next
      /\ m.kind = "resume" <=> k.session # None
      /\ m.kind = "resume" => m.session = k.session
      /\ m.kind = "resume" => k.errors >= 1 \/ k.expires <= clock
  BY <1>1, <1>5 DEF SessionCall
<1>8. /\ m.kind = "resume" => k.errors >= 1 \/ k.expires <= clock'
      /\ k.expires <= clock => k.expires <= clock'
      /\ m.now <= clock => m.now <= clock'
  BY <1>6, <1>7
<1>9. m.kind = "resume" /\ reply = "denied" => ~allows' \/ k.expires <= clock'
  <2>1. ~allows => ~allows'
    BY Zenon
  <2> QED BY <1>5, <1>8, <2>1
<1>10. SessionCall(n)'
  BY <1>3, <1>4, <1>5, <1>7, <1>8, <1>9 DEF SessionCall
<1>11. n.conn \in Drawn'
  BY <1>1, <1>4, DrawnGrows DEF CallInv
<1>12. m.kind \notin JobKinds
  BY DEF SessionKinds, JobKinds
<1>13. CallInv(n)'
  BY <1>1, <1>3, <1>4, <1>8, <1>10, <1>11, <1>12 DEF CallInv
<1> QED BY <1>1, <1>3, <1>4, <1>12, <1>13, JobsKept, HandledInv DEF OthersHeld

\* capabilities are granted: what the client is told is stored, and the connection
\* knows it.
LEMMA GrantInv ==
  ASSUME SessionInv, NEW m \in calls, m.step = "started", m.kind \in SessionKinds,
         NEW session \in Nat, NEW token \in Nat, NEW cap \in Nat, Attach(m, session, token, cap),
         Kept, OthersHeld(m), UNCHANGED <<client, open, allows, daemon, jobs>>,
         faults' \in Nat, others' \in Nat, sessions' \subseteq [session : Nat, token : Nat, expires : Nat],
         (\A s \in sessions : (s.session < fresh /\ s.token < fresh) \/ s.session > MaxFresh)',
         session \in Drawn', token < fresh',
         Held(session, token, m.expires)', Exact(session, token, m.expires)',
         m.kind = "create" => /\ session \notin Drawn /\ session # None
                              /\ \A d \in Clients : client[d].session # session,
         m.kind = "resume" => session = m.session /\ client[m.client].errors >= 1
  PROVE  SessionInv'
<1>1. m \in CallRecord /\ CallInv(m) /\ SessionTypes /\ SessionCall(m) /\ m.reply = "none"
      /\ daemon # "down"
  BY DEF SessionInv, SessionTypes, CallInv, DownInv
<1> DEFINE e == [[m EXCEPT !.reply = "ok", !.session = session, !.token = token, !.cap = cap]
                    EXCEPT !.step = "answered"]
<1>2. e \in CallRecord
  BY <1>1 DEF CallRecord, Replies, Errors
<1>3. PICK n \in CallRecord : n = e
  BY <1>2
<1>4. /\ n.step = "answered" /\ n.conn = m.conn /\ n.by = m.by /\ n.client = m.client
      /\ n.kind = m.kind /\ n.now = m.now /\ n.reply = "ok" /\ n.session = session
      /\ n.token = token /\ n.cap = cap /\ n.expires = m.expires
  BY <1>1, <1>3 DEF CallRecord
<1>5. calls' = (calls \ {m}) \cup {n} \/ calls' = calls \ {m}
  BY <1>3 DEF Attach, Reply, Becomes
<1> HIDE DEF e
<1> DEFINE a == [conn |-> m.conn, session |-> session, cap |-> cap, expires |-> m.expires]
<1>6. conns' = conns \cup {a}
  BY DEF Attach
<1>7. a \in [conn : Nat, session : Nat, cap : Nat, expires : Nat] /\ a.conn = m.conn
      /\ a.session = session /\ a.cap = cap /\ a.expires = m.expires
  BY <1>1 DEF CallRecord
<1> HIDE DEF a
<1>8. HandledBy(m, n)
  BY <1>1, <1>4, <1>5 DEF HandledBy
<1>9. StoreTypes'
  BY <1>1, <1>6, <1>7 DEF StoreTypes, SessionTypes
<1>10. PICK k \in ClientRecord : k = client[m.client] /\ k = client'[m.client]
  BY <1>1 DEF SessionTypes, CallRecord
<1>11. clock \in Nat /\ clock' \in Nat /\ clock <= clock' /\ m.now \in Nat /\ k.expires \in Nat
  BY <1>1, <1>10 DEF SessionTypes, Kept, CallRecord, ClientRecord
<1>12. /\ k.pc \in {"opening", "resuming", "error"} /\ m.conn = k.next
       /\ m.kind = "resume" <=> k.session # None
       /\ m.kind = "resume" => m.session = k.session
  BY <1>1, <1>10 DEF SessionCall
<1>13. Served(m.conn, cap, m.expires)'
  BY <1>6, <1>7 DEF Served
<1>14. \A d \in Clients : m.kind = "create" => client'[d].session # session
  OBVIOUS
<1>15. m.kind = "resume" => k.errors >= 1
  BY <1>10
<1>16. SessionCall(n)'
  BY <1>4, <1>10, <1>12, <1>13, <1>14, <1>15 DEF SessionCall
<1>17. n.conn \in Drawn'
  BY <1>1, <1>4, DrawnGrows DEF CallInv
<1>18. m.kind \notin JobKinds
  BY DEF SessionKinds, JobKinds
<1>19. m.now <= clock'
  BY <1>1, <1>11 DEF CallInv
<1>20. CallInv(n)'
  BY <1>1, <1>4, <1>16, <1>17, <1>18, <1>19 DEF CallInv
<1>21. \A b \in conns' : b \in conns \/ (/\ m.kind \in SessionKinds /\ n.reply = "ok"
                                         /\ b.conn = m.conn /\ b.session = n.session)
  BY <1>4, <1>6, <1>7
<1> QED BY <1>1, <1>4, <1>8, <1>9, <1>18, <1>20, <1>21, JobsKept, HandledInv DEF OthersHeld

\* What a commit of the session registry changes.
LEMMA Committed ==
  ASSUME SessionInv, NEW next, NEW io \in Outcomes, Commit(next, io)
  PROVE  /\ sessions' = sessions \/ sessions' = next
         /\ io = "ok" => sessions' = next /\ UNCHANGED <<faults, daemon>>
         /\ io = "full" => UNCHANGED daemon
         /\ io \notin {"ok", "full"} => daemon' = "degraded"
         /\ faults' \in Nat
<1>1. faults \in Nat
  BY DEF SessionInv, SessionTypes
<1> QED BY <1>1 DEF Commit, CountFault, Outcomes

\* Sessions that go are dead, those that come have new identities: every token that
\* has not expired stays, for the sessions x whose token is not replaced.
LEMMA RegistryKept ==
  ASSUME SessionInv, UNCHANGED <<clock, open, jobs>>, conns \subseteq conns',
         fresh' \in 1 .. MaxFresh + 1, fresh <= fresh',
         \A s \in sessions' : s \in sessions \/ s.session >= fresh \/ s.token >= fresh
  PROVE  Kept /\ \A x : (\A s \in sessions : s.session = x => s \in sessions' \/ s.expires <= clock)
                           => HeldKept(x)
<1>1. /\ clock \in Nat /\ fresh \in Nat /\ open \subseteq Drawn /\ 0 \notin Drawn
      /\ clock' \in Nat /\ clock <= clock'
  BY DEF SessionInv, SessionTypes, DownInv, Drawn
<1>2. \A x, y : HasJob(x, y) => HasJob(x, y)'
  BY DEF HasJob
<1>3. \A n, p, e : Served(n, p, e) => Served(n, p, e)'
  BY DEF Served
<1>4. ASSUME NEW x \in Nat, NEW t \in Nat, NEW e, x < fresh, t < fresh, Exact(x, t, e)
      PROVE  Exact(x, t, e)'
  <2> SUFFICES ASSUME NEW s \in sessions', s.session = x, s.token = t PROVE s.expires = e
    BY DEF Exact
  <2>1. s \in sessions
    BY <1>1, <1>4
  <2> QED BY <1>4, <2>1 DEF Exact
<1>5. Kept
  BY <1>1, <1>2, <1>3, <1>4 DEF Kept
<1>6. ASSUME NEW x, \A s \in sessions : s.session = x => s \in sessions' \/ s.expires <= clock
      PROVE  HeldKept(x)
  <2> SUFFICES ASSUME NEW t, NEW e \in Nat, Held(x, t, e) PROVE Held(x, t, e)'
    BY DEF HeldKept
  <2>1. CASE e <= clock
    BY <2>1 DEF Held
  <2>2. CASE ~(e <= clock)
    <3>1. PICK s \in sessions : s.session = x /\ s.token = t /\ s.expires = e
      BY <2>2 DEF Held
    <3>2. s \in sessions'
      BY <1>6, <2>2, <3>1
    <3> QED BY <3>1, <3>2 DEF Held
  <2> QED BY <2>1, <2>2
<1> QED BY <1>5, <1>6

\* create: expired sessions go, the new session has identities nobody has.
LEMMA CreateInv ==
  ASSUME SessionInv, NEW m \in calls, NEW io \in Outcomes, Create(m, io)
  PROVE  SessionInv'
<1>1. /\ m.step = "started" /\ m.kind = "create" /\ m.kind \in SessionKinds
      /\ UNCHANGED <<clock, others, allows, jobs, open, client>>
  BY DEF Create, SessionKinds
<1>2. m \in CallRecord /\ CallInv(m) /\ SessionTypes /\ daemon # "down" /\ m.now \in Nat /\ clock \in Nat
      /\ m.now <= clock /\ m.expires \in Nat
  BY <1>1 DEF SessionInv, SessionTypes, DownInv, CallInv, CallRecord
<1>3. CASE ~allows \/ Full(m.now)
  <2>1. /\ Says(m, IF allows THEN "limit" ELSE "denied")
        /\ UNCHANGED <<sessions, faults, daemon, fresh, conns>>
    BY <1>3 DEF Create, NoCommit
  <2>2. \E reply \in {"limit", "denied"} : Says(m, reply)
    BY <2>1
  <2>3. PICK reply \in {"limit", "denied"} : Says(m, reply)
    BY <2>2
  <2>4. Kept /\ \A x : HeldKept(x)
    BY <1>1, <2>1, OpenKept
  <2>5. StoreTypes'
    BY <1>1, <1>2, <2>1 DEF StoreTypes, SessionTypes
  <2>6. OthersHeld(m)
    BY <2>4 DEF OthersHeld
  <2> QED BY <1>1, <1>2, <2>1, <2>3, <2>4, <2>5, <2>6, RefusedInv
<1>4. CASE ~(~allows \/ Full(m.now))
  <2>1. /\ fresh + 3 - 1 <= MaxFresh /\ fresh' = fresh + 3
        /\ Commit(Pruned(m.now) \cup {[session |-> fresh, token |-> fresh + 1, expires |-> m.expires]}, io)
        /\ IF io = "ok" THEN Attach(m, fresh, fresh + 1, fresh + 2)
                        ELSE Says(m, CommitError(io)) /\ UNCHANGED conns
    BY <1>4 DEF Create, Draw
  <2>2. /\ fresh \in Nat /\ fresh >= 1 /\ fresh + 1 \in Nat /\ fresh + 2 \in Nat /\ fresh + 2 <= MaxFresh
        /\ fresh' \in 1 .. MaxFresh + 1 /\ fresh <= fresh'
    BY <1>2, <2>1, ClientSessionAssumption DEF SessionTypes
  <2> PICK s \in [session : Nat, token : Nat, expires : Nat] :
         s = [session |-> fresh, token |-> fresh + 1, expires |-> m.expires]
    BY <1>2, <2>2
  <2>3. s.session = fresh /\ s.token = fresh + 1 /\ s.expires = m.expires
    OBVIOUS
  <2>4. /\ sessions' = sessions \/ sessions' = Pruned(m.now) \cup {s}
        /\ io = "ok" => sessions' = Pruned(m.now) \cup {s} /\ UNCHANGED <<faults, daemon>>
        /\ io = "full" => UNCHANGED daemon
        /\ io \notin {"ok", "full"} => daemon' = "degraded"
        /\ faults' \in Nat
    BY <2>1, Committed
  <2>5. conns \subseteq conns'
    BY <2>1 DEF Attach
  <2>6. \A x \in sessions' : x \in sessions \/ x = s
    BY <2>4 DEF Pruned
  <2>7. \A x \in sessions : x \in sessions' \/ x.expires <= clock
    <3> SUFFICES ASSUME NEW x \in sessions, ~(x.expires > m.now) PROVE x.expires <= clock
      BY <2>4 DEF Pruned
    <3>1. x.expires \in Nat
      BY <1>2 DEF SessionTypes
    <3> QED BY <1>2, <3>1
  <2>8. Kept /\ \A x : HeldKept(x)
    <3>1. s.session >= fresh
      BY <2>2, <2>3
    <3> QED BY <1>1, <2>2, <2>5, <2>6, <2>7, <3>1, RegistryKept
  <2>9. OthersHeld(m)
    BY <2>8 DEF OthersHeld
  <2>10. /\ sessions' \subseteq [session : Nat, token : Nat, expires : Nat]
         /\ (\A x \in sessions : (x.session < fresh /\ x.token < fresh) \/ x.session > MaxFresh)'
    <3>1. sessions' \subseteq [session : Nat, token : Nat, expires : Nat]
      BY <1>2, <2>3, <2>6 DEF SessionTypes
    <3>2. ASSUME NEW x \in sessions' PROVE (x.session < fresh' /\ x.token < fresh') \/ x.session > MaxFresh
      BY <1>2, <2>1, <2>2, <2>3, <2>6, <3>1, <3>2 DEF SessionTypes
    <3> QED BY <3>1, <3>2
  <2>11. CASE io = "ok"
    <3>1. fresh \in Drawn' /\ fresh + 1 < fresh' /\ fresh \notin Drawn /\ fresh # None
      BY <2>1, <2>2 DEF Drawn, None
    <3>2. s \in sessions'
      BY <2>4, <2>11
    <3>3. Held(s.session, s.token, s.expires)'
      BY <3>2 DEF Held
    <3>4. ASSUME NEW x \in sessions', x.session = fresh PROVE x = s
      <4>1. x \notin sessions
        <5>1. MaxFresh \in Nat /\ fresh < MaxFresh
          BY <2>2, ClientSessionAssumption
        <5>2. x \in sessions => x.session < fresh \/ x.session > MaxFresh
          BY <1>2 DEF SessionTypes
        <5> QED BY <2>2, <3>4, <5>1, <5>2
      <4> QED BY <2>6, <4>1
    <3>5. Exact(s.session, s.token, s.expires)'
      BY <2>3, <3>4 DEF Exact
    <3>6. \A d \in Clients : client[d].session # fresh
      <4> SUFFICES ASSUME NEW d \in Clients PROVE client[d].session # fresh
        OBVIOUS
      <4>1. client[d].session < fresh /\ client[d].session \in Nat
        BY DEF SessionInv, ClientInv, SessionTypes, ClientRecord
      <4> QED BY <2>2, <4>1
    <3>7. PICK f \in Nat, g \in Nat, h \in Nat : f = fresh /\ g = fresh + 1 /\ h = fresh + 2
      BY <2>2
    <3>8. Held(f, g, m.expires)' /\ Exact(f, g, m.expires)'
      <4>1. s.session = f /\ s.token = g /\ s.expires = m.expires
        BY <2>3, <3>7
      <4> QED BY <3>3, <3>5, <4>1 DEF Held, Exact
    <3>9. Attach(m, f, g, h)
      BY <2>1, <2>11, <3>7
    <3>10. f \in Drawn' /\ g < fresh' /\ f \notin Drawn /\ f # None /\ \A d \in Clients : client[d].session # f
      BY <3>1, <3>6, <3>7
    <3>11. others' \in Nat
      BY <1>1, <1>2 DEF SessionTypes
    <3> QED BY <1>1, <2>4, <2>8, <2>9, <2>10, <2>11, <3>8, <3>9, <3>10, <3>11, GrantInv
  <2>12. CASE io # "ok"
    <3>1. PICK reply \in {"limit", "internal"} :
             /\ Says(m, reply) /\ UNCHANGED conns
             /\ reply = "internal" => daemon' = "degraded"
             /\ reply = "limit" => daemon' = daemon
      BY <2>1, <2>4, <2>12 DEF CommitError
    <3>2. StoreTypes'
      BY <1>1, <1>2, <2>4, <2>10, <3>1 DEF StoreTypes, SessionTypes
    <3> QED BY <1>1, <1>2, <2>8, <2>9, <3>1, <3>2, RefusedInv
  <2> QED BY <2>11, <2>12
<1> QED BY <1>3, <1>4

\* No other client, and no other request, relies on a token of the session that m
\* resumes.
LEMMA OnlyResumer ==
  ASSUME SessionInv, NEW m \in calls, m.kind = "resume",
         \A x : x # m.session => HeldKept(x)
  PROVE  OthersHeld(m)
<1>1. m \in CallRecord /\ SessionCall(m)
  BY DEF SessionInv, SessionTypes, CallInv, SessionKinds
<1>2. /\ m.client \in Clients /\ client[m.client].pc \in {"opening", "resuming", "error"}
      /\ m.conn = client[m.client].next /\ client[m.client].session # None
      /\ m.session = client[m.client].session
  BY <1>1 DEF SessionCall, CallRecord
<1>3. \A c \in Clients : client[c].session = m.session => c = m.client
  BY <1>2 DEF SessionInv, ApartInv
<1>4. \A c \in Clients : client[c].pc \in Resumable => HeldKept(client[c].session)
  BY <1>2, <1>3 DEF Resumable
<1>5. ASSUME NEW q \in calls, q # m, q.kind = "resume" \/ (q.kind = "create" /\ q.reply = "ok")
      PROVE  HeldKept(q.session)
  <2>1. q \in CallRecord /\ SessionCall(q) /\ q.client \in Clients
    BY <1>5 DEF SessionInv, SessionTypes, CallInv, SessionKinds, CallRecord
  <2>2. q.kind = "resume" => q.session = client[q.client].session /\ q.conn = client[q.client].next
    BY <2>1 DEF SessionCall
  <2>3. q.kind = "resume" /\ q.session = m.session => q = m
    BY <1>2, <1>3, <2>1, <2>2 DEF SessionInv, ApartInv
  <2>4. q.kind = "create" /\ q.reply = "ok" => q.session # m.session
    BY <1>2, <2>1 DEF SessionCall
  <2> QED BY <1>5, <2>3, <2>4
<1> QED BY <1>4, <1>5 DEF OthersHeld

\* resume: a token that is not expired is found, and rotated for the one client that
\* has it.
LEMMA ResumeInv ==
  ASSUME SessionInv, NEW m \in calls, NEW io \in Outcomes, Resume(m, io)
  PROVE  SessionInv'
<1>1. /\ m.step = "started" /\ m.kind = "resume" /\ m.kind \in SessionKinds
      /\ UNCHANGED <<clock, others, allows, jobs, open, client>>
  BY DEF Resume, SessionKinds
<1>2. m \in CallRecord /\ CallInv(m) /\ SessionTypes /\ daemon # "down" /\ m.now \in Nat /\ clock \in Nat
      /\ m.now <= clock /\ m.expires \in Nat /\ m.session \in Nat /\ m.client \in Clients
  BY <1>1 DEF SessionInv, SessionTypes, DownInv, CallInv, CallRecord
<1>3. PICK k \in ClientRecord : k = client[m.client]
  BY <1>2 DEF SessionTypes
<1>4. /\ m.session = k.session /\ k.session # None /\ k.session < fresh /\ m.reply = "none"
      /\ m.token = k.token /\ Held(k.session, k.token, k.expires) /\ Exact(k.session, k.token, k.expires)
      /\ k.errors >= 1 \/ k.expires <= m.now
      /\ k.session \in Nat /\ k.expires \in Nat
  <2>1. SessionCall(m) /\ m.reply = "none" /\ ClientInv(m.client)
    BY <1>1, <1>2 DEF SessionInv, CallInv, SessionKinds
  <2> QED BY <1>1, <1>3, <2>1 DEF SessionCall, ClientInv, ClientRecord
<1> DEFINE found == {s \in sessions : s.session = m.session}
           dead == {s \in found : s.expires <= m.now}
           match == {s \in found \ dead : s.token = m.token}
<1>5. fresh \in Nat /\ fresh >= 1 /\ MaxFresh \in Nat /\ fresh \in 1 .. MaxFresh + 1
  BY <1>2, ClientSessionAssumption DEF SessionTypes
<1>6. CASE match = {}
  <2>1. /\ io # "full"
        /\ IF dead # {} THEN Commit(sessions \ dead, io) ELSE NoCommit(io)
        /\ Says(m, IF io = "ok" THEN "denied" ELSE "internal")
        /\ UNCHANGED <<fresh, conns>>
    BY <1>6 DEF Resume
  <2>2. /\ sessions' = sessions \/ sessions' = sessions \ dead
        /\ io = "ok" => UNCHANGED daemon
        /\ io # "ok" => daemon' = "degraded"
        /\ faults' \in Nat
    <3>1. CASE dead # {}
      BY <2>1, <3>1, Committed
    <3>2. CASE dead = {}
      BY <1>2, <2>1, <3>2 DEF NoCommit, SessionTypes
    <3> QED BY <3>1, <3>2
  <2>3. \A s \in sessions' : s \in sessions
    BY <2>2
  <2>4. \A s \in sessions : s \in sessions' \/ s.expires <= clock
    <3> SUFFICES ASSUME NEW s \in sessions, s.expires <= m.now PROVE s.expires <= clock
      BY <2>2
    <3>1. s.expires \in Nat
      BY <1>2 DEF SessionTypes
    <3> QED BY <1>2, <3>1
  <2>5. Kept /\ \A x : HeldKept(x)
    BY <1>1, <1>5, <2>1, <2>3, <2>4, RegistryKept
  <2>6. OthersHeld(m)
    BY <2>5 DEF OthersHeld
  <2>7. StoreTypes'
    BY <1>1, <1>2, <2>1, <2>2, <2>3 DEF StoreTypes, SessionTypes
  <2>8. k.expires <= clock
    <3> SUFFICES ASSUME NEW s \in sessions, s.session = k.session, s.token = k.token, s.expires = k.expires
                 PROVE  k.expires <= clock
      BY <1>4 DEF Held
    <3>1. s \in dead
      BY <1>4, <1>6
    <3> QED BY <1>2, <1>4, <3>1
  <2> HIDE DEF found, dead, match
  <2>9. CASE io = "ok"
    <3>1. Says(m, "denied") /\ daemon' = daemon
      BY <2>1, <2>2, <2>9
    <3> QED BY <1>1, <1>2, <1>3, <2>1, <2>5, <2>6, <2>7, <2>8, <3>1, RefusedInv
  <2>10. CASE io # "ok"
    <3>1. Says(m, "internal") /\ daemon' = "degraded"
      BY <2>1, <2>2, <2>10
    <3> QED BY <1>1, <2>1, <2>5, <2>6, <2>7, <3>1, RefusedInv
  <2> QED BY <2>9, <2>10
<1>7. CASE match # {}
  <2> DEFINE turned == {Rotated(s, m) : s \in match}
  <2>1. /\ fresh + 2 - 1 <= MaxFresh /\ fresh' = fresh + 2
        /\ Commit((sessions \ match) \cup turned, io)
        /\ IF io # "ok" \/ ~allows
             THEN Says(m, IF io = "ok" THEN "denied" ELSE CommitError(io)) /\ UNCHANGED conns
             ELSE Attach(m, m.session, fresh, fresh + 1)
    BY <1>7 DEF Resume, Draw
  <2>2. /\ fresh + 1 \in Nat /\ fresh' \in 1 .. MaxFresh + 1 /\ fresh <= fresh' /\ fresh < fresh'
        /\ fresh <= MaxFresh
    BY <1>5, <2>1
  <2>3. \A s \in match : /\ s \in sessions /\ s.session = m.session /\ s.token = k.token
                         /\ ~(s.expires <= m.now)
    BY <1>4
  <2>4. \A s \in turned : /\ s \in [session : Nat, token : Nat, expires : Nat]
                          /\ s.session = m.session /\ s.token = fresh /\ s.expires = m.expires
    <3> SUFFICES ASSUME NEW s \in match
                 PROVE  /\ Rotated(s, m) \in [session : Nat, token : Nat, expires : Nat]
                        /\ Rotated(s, m).session = m.session /\ Rotated(s, m).token = fresh
                        /\ Rotated(s, m).expires = m.expires
      OBVIOUS
    <3>1. s \in [session : Nat, token : Nat, expires : Nat] /\ s.session = m.session
      BY <1>2, <2>3 DEF SessionTypes
    <3> QED BY <1>2, <1>5, <3>1 DEF Rotated
  <2>5. turned # {}
    BY <1>7
  <2> HIDE DEF turned, match
  <2>6. /\ sessions' = sessions \/ sessions' = (sessions \ match) \cup turned
        /\ io = "ok" => sessions' = (sessions \ match) \cup turned /\ UNCHANGED <<faults, daemon>>
        /\ io = "full" => UNCHANGED daemon
        /\ io \notin {"ok", "full"} => daemon' = "degraded"
        /\ faults' \in Nat
    BY <2>1, Committed
  <2>7. \A s \in sessions' : s \in sessions \/ s \in turned
    BY <2>6
  <2>8. \A s \in sessions : s.session # m.session => s \in sessions'
    BY <2>3, <2>6
  <2>9. conns \subseteq conns'
    BY <2>1 DEF Attach
  <2>10. Kept /\ \A x : x # m.session => HeldKept(x)
    <3>1. \A s \in sessions' : s \in sessions \/ s.session >= fresh \/ s.token >= fresh
      BY <1>5, <2>4, <2>7
    <3> QED BY <1>1, <2>2, <2>8, <2>9, <3>1, RegistryKept
  <2>11. OthersHeld(m)
    BY <1>1, <2>10, OnlyResumer
  <2>12. /\ sessions' \subseteq [session : Nat, token : Nat, expires : Nat]
         /\ (\A x \in sessions : (x.session < fresh /\ x.token < fresh) \/ x.session > MaxFresh)'
    <3>1. sessions' \subseteq [session : Nat, token : Nat, expires : Nat]
      BY <1>2, <2>4, <2>7 DEF SessionTypes
    <3>2. ASSUME NEW x \in sessions' PROVE (x.session < fresh' /\ x.token < fresh') \/ x.session > MaxFresh
      <4>1. CASE x \in turned
        BY <1>4, <1>5, <2>2, <2>4, <4>1
      <4>2. CASE x \in sessions
        BY <1>2, <1>5, <2>1, <2>2, <4>2 DEF SessionTypes
      <4> QED BY <2>7, <4>1, <4>2
    <3> QED BY <3>1, <3>2
  <2>13. others' \in Nat
    BY <1>1, <1>2 DEF SessionTypes
  <2>14. CASE io = "ok" /\ allows
    <3>1. Attach(m, m.session, fresh, fresh + 1) /\ UNCHANGED daemon
      BY <2>1, <2>6, <2>14
    <3>2. PICK g \in Nat, h \in Nat : g = fresh /\ h = fresh + 1
      BY <1>5, <2>2
    <3>3. m.session \in Drawn' /\ g < fresh'
      BY <1>2, <1>4, <1>5, <2>1, <3>2 DEF Drawn, None
    <3>4. PICK s \in sessions' : s.session = m.session /\ s.token = g /\ s.expires = m.expires
      BY <2>4, <2>5, <2>6, <2>14, <3>2
    <3>5. Held(m.session, g, m.expires)'
      BY <3>4 DEF Held
    <3>6. ASSUME NEW x \in sessions', x.session = m.session, x.token = g PROVE x.expires = m.expires
      <4>1. x \in sessions => (x.session < fresh /\ x.token < fresh) \/ x.session > MaxFresh
        BY <1>2 DEF SessionTypes
      <4>2. x \notin sessions
        BY <1>4, <1>5, <2>2, <3>2, <3>6, <4>1
      <4> QED BY <2>4, <2>7, <4>2
    <3>7. Exact(m.session, g, m.expires)'
      BY <3>6 DEF Exact
    <3>8. k.errors >= 1
      <4>1. PICK s0 \in match : TRUE
        BY <1>7
      <4>2. s0.expires = k.expires
        BY <1>4, <2>3 DEF Exact
      <4> QED BY <1>4, <2>3, <4>2
    <3>9. Attach(m, m.session, g, h)
      BY <3>1, <3>2
    <3> QED BY <1>1, <1>2, <1>3, <2>6, <2>10, <2>11, <2>12, <2>13, <2>14, <3>1, <3>3, <3>5, <3>7, <3>8, <3>9, GrantInv
  <2>15. CASE ~(io = "ok" /\ allows)
    <3>1. UNCHANGED conns /\ Says(m, IF io = "ok" THEN "denied" ELSE CommitError(io))
      BY <2>1, <2>15
    <3>2. StoreTypes'
      BY <1>1, <1>2, <2>6, <2>12, <2>13, <3>1 DEF StoreTypes, SessionTypes
    <3>3. CASE io = "ok"
      <4>1. Says(m, "denied") /\ daemon' = daemon /\ ~allows
        BY <2>6, <2>15, <3>1, <3>3
      <4> QED BY <1>1, <1>2, <2>10, <2>11, <3>1, <3>2, <4>1, RefusedInv
    <3>4. CASE io # "ok"
      <4>1. PICK reply \in {"limit", "internal"} :
               /\ Says(m, reply)
               /\ reply = "internal" => daemon' = "degraded"
               /\ reply = "limit" => daemon' = daemon
        BY <2>6, <3>1, <3>4 DEF CommitError
      <4> QED BY <1>1, <1>2, <2>10, <2>11, <3>1, <3>2, <4>1, RefusedInv
    <3> QED BY <3>3, <3>4
  <2> QED BY <2>14, <2>15
<1> QED BY <1>6, <1>7

-----------------------------------------------------------------------------
(* Steps of the world: the clients stay, requests and connections may go.  *)

LEMMA WorldInv ==
  ASSUME SessionInv, Kept, \A x : HeldKept(x), UNCHANGED client, StoreTypes', JobsInv',
         calls' \subseteq calls, conns' \subseteq conns, open' \subseteq open,
         \A q \in calls' : daemon' = "up" => daemon = "up" \/ q.reply # "internal",
         \A q \in calls' : allows' = allows \/ q.reply # "denied",
         daemon' = "down" => open' = {} /\ conns' = {} /\ \A q \in calls' : q.step = "sent"
  PROVE  SessionInv'
<1>1. SessionTypes /\ SessionTypes'
  BY DEF SessionInv, SessionTypes, StoreTypes, Kept
<1>2. \A c \in Clients : ClientInv(c)'
  BY <1>1, KeptClient DEF SessionInv
<1>3. ASSUME NEW q \in calls' PROVE CallInv(q)'
  <2>1. q \in calls /\ q \in CallRecord /\ CallInv(q)
    BY <1>1 DEF SessionInv, SessionTypes
  <2>2. q.kind = "create" /\ q.reply = "ok" => \A d \in Clients : client'[d].session # q.session
    BY <2>1 DEF CallInv, SessionCall, SessionKinds
  <2> QED BY <1>1, <2>1, <2>2, KeptCall
<1>4. ASSUME NEW a \in conns' PROVE ConnInv(a)'
  BY <1>1, <1>4, DrawnGrows DEF SessionInv, ConnInv
<1>5. ApartInv'
  BY DEF SessionInv, ApartInv, JobsInv
<1>6. DownInv'
  BY <1>1, DrawnGrows DEF SessionInv, DownInv
<1> QED BY <1>1, <1>2, <1>3, <1>4, <1>5, <1>6 DEF SessionInv, JobsInv

\* Another program's session has an identity no client ever has.
LEMMA OtherCreatesInv ==
  ASSUME SessionInv, OtherCreates
  PROVE  SessionInv'
<1>1. /\ daemon = "up" /\ others' = others + 1
      /\ sessions' = Pruned(clock) \cup {[session |-> MaxFresh + others', token |-> MaxFresh + others',
                                          expires |-> clock + Ttl]}
      /\ UNCHANGED <<clock, fresh, faults, daemon, allows, conns, jobs, open, calls, client>>
  BY DEF OtherCreates
<1>2. /\ SessionTypes /\ clock \in Nat /\ others \in Nat /\ others' \in Nat /\ fresh \in 1 .. MaxFresh + 1
      /\ fresh \in Nat /\ MaxFresh \in Nat /\ clock + Ttl \in Nat /\ MaxFresh + others' \in Nat
      /\ MaxFresh + others' >= fresh /\ MaxFresh + others' > MaxFresh
  BY <1>1, ClientSessionAssumption DEF SessionInv, SessionTypes
<1>3. PICK s \in [session : Nat, token : Nat, expires : Nat] :
         s = [session |-> MaxFresh + others', token |-> MaxFresh + others', expires |-> clock + Ttl]
  BY <1>2
<1>4. s.session >= fresh /\ s.session > MaxFresh
  BY <1>2, <1>3
<1>5. \A x \in sessions' : x \in sessions \/ x = s
  BY <1>1, <1>3 DEF Pruned
<1>6. \A x \in sessions : x \in sessions' \/ x.expires <= clock
  <2> SUFFICES ASSUME NEW x \in sessions, ~(x.expires > clock) PROVE x.expires <= clock
    BY <1>1 DEF Pruned
  <2> QED BY <1>2 DEF SessionTypes
<1>7. Kept /\ \A x : HeldKept(x)
  BY <1>1, <1>2, <1>4, <1>5, <1>6, RegistryKept
<1>8. StoreTypes'
  BY <1>1, <1>2, <1>4, <1>5 DEF StoreTypes, SessionTypes
<1> QED BY <1>1, <1>7, <1>8, JobsKept, WorldInv

LEMMA DisconnectInv ==
  ASSUME SessionInv, NEW a \in conns, Disconnect(a)
  PROVE  SessionInv'
<1>1. /\ a.conn \notin open /\ conns' = conns \ {a}
      /\ UNCHANGED <<clock, fresh, faults, others, daemon, allows, sessions, jobs, open, calls, client>>
  BY DEF Disconnect
<1>2. /\ SessionTypes /\ clock \in Nat /\ fresh \in 1 .. MaxFresh + 1 /\ fresh \in Nat
      /\ open \subseteq Drawn /\ 0 \notin Drawn
  BY DEF SessionInv, SessionTypes, DownInv, Drawn
<1>3. \A x, y : HasJob(x, y) => HasJob(x, y)'
  BY <1>1 DEF HasJob
<1>4. \A x, t, e : (Held(x, t, e) => Held(x, t, e)') /\ (Exact(x, t, e) => Exact(x, t, e)')
  BY <1>1 DEF Held, Exact
<1>5. \A n, p, e : n \in open' /\ Served(n, p, e) => Served(n, p, e)'
  BY <1>1 DEF Served
<1>6. clock' \in Nat /\ clock <= clock' /\ fresh' \in 1 .. MaxFresh + 1 /\ fresh <= fresh' /\ 0 \notin open'
  BY <1>1, <1>2
<1>7. Kept /\ \A x : HeldKept(x)
  BY <1>1, <1>3, <1>4, <1>5, <1>6 DEF Kept, HeldKept
<1>8. StoreTypes' /\ JobsInv'
  BY <1>1, <1>2, JobsKept DEF StoreTypes, SessionTypes
<1> QED BY <1>1, <1>7, <1>8, WorldInv DEF SessionInv, DownInv

LEMMA BreakInv ==
  ASSUME SessionInv, NEW conn \in open, Break(conn)
  PROVE  SessionInv'
<1>1. /\ faults' = faults + 1 /\ open' = open \ {conn} /\ calls' \subseteq calls
      /\ UNCHANGED <<clock, fresh, others, daemon, allows, sessions, conns, jobs, client>>
  BY DEF Break, CountFault, daemonVars
<1>2. /\ SessionTypes /\ fresh \in 1 .. MaxFresh + 1 /\ fresh \in Nat /\ faults \in Nat
      /\ open \subseteq Drawn /\ 0 \notin Drawn
  BY DEF SessionInv, SessionTypes, DownInv, Drawn
<1>3. \A x, y : HasJob(x, y) => HasJob(x, y)'
  BY <1>1 DEF HasJob
<1>4. Kept /\ \A x : HeldKept(x)
  <2>1. fresh' \in 1 .. MaxFresh + 1 /\ fresh <= fresh' /\ open' \cap Drawn \subseteq open /\ 0 \notin open'
    BY <1>1, <1>2
  <2> QED BY <1>1, <1>3, <2>1, StoresKept
<1>5. StoreTypes' /\ JobsInv'
  BY <1>1, <1>2, JobsKept DEF StoreTypes, SessionTypes
<1> QED BY <1>1, <1>4, <1>5, WorldInv DEF SessionInv, DownInv

\* The daemon dies: the registries stay.
LEMMA CrashInv ==
  ASSUME SessionInv, Crash
  PROVE  SessionInv'
<1>1. /\ faults' = faults + 1 /\ daemon' = "down" /\ open' = {} /\ calls' = {} /\ conns' = {}
      /\ UNCHANGED <<clock, fresh, others, allows, sessions, jobs, client>>
  BY DEF Crash, CountFault
<1>2. SessionTypes /\ clock \in Nat /\ fresh \in 1 .. MaxFresh + 1 /\ fresh \in Nat /\ faults \in Nat
  BY DEF SessionInv, SessionTypes
<1>3. \A x, y : HasJob(x, y) => HasJob(x, y)'
  BY <1>1 DEF HasJob
<1>4. \A x, t, e : (Held(x, t, e) => Held(x, t, e)') /\ (Exact(x, t, e) => Exact(x, t, e)')
  BY <1>1 DEF Held, Exact
<1>5. clock' \in Nat /\ clock <= clock' /\ fresh' \in 1 .. MaxFresh + 1 /\ fresh <= fresh'
  BY <1>1, <1>2
<1>6. Kept /\ \A x : HeldKept(x)
  BY <1>1, <1>3, <1>4, <1>5 DEF Kept, HeldKept
<1>7. StoreTypes' /\ JobsInv'
  BY <1>1, <1>2, JobsKept DEF StoreTypes, SessionTypes
<1> QED BY <1>1, <1>6, <1>7, WorldInv

\* Jobs that only change their state keep their keys and owners.
Restated(job, x) ==
    /\ x \in JobRecord
    /\ x.owner = job.owner /\ x.key = job.key /\ x.by = job.by

LEMMA RestatedJobs ==
  ASSUME SessionInv, UNCHANGED client, NEW f, jobs' = {f[job] : job \in jobs},
         \A job \in jobs : Restated(job, f[job])
  PROVE  /\ \A x, y : HasJob(x, y) => HasJob(x, y)'
         /\ JobsInv' /\ jobs' \subseteq JobRecord
<1>1. JobsInv
  BY DEF SessionInv, ApartInv, JobsInv
<1>2. \A x, y : HasJob(x, y) => HasJob(x, y)'
  BY DEF HasJob, Restated
<1>3. \A job \in jobs : JobInv(f[job])'
  BY <1>1 DEF JobsInv, JobInv, Restated
<1>4. \A job \in jobs' : JobInv(job)'
  BY <1>3
<1>5. \A i, k \in jobs' : i.owner = k.owner /\ i.key = k.key => i = k
  BY <1>1 DEF JobsInv, Restated
<1> QED BY <1>2, <1>4, <1>5 DEF JobsInv, Restated

\* A restarted daemon has no request it answered before it died.
LEMMA RestartInv ==
  ASSUME SessionInv, NEW allowed \in BOOLEAN, Restart(allowed)
  PROVE  SessionInv'
<1> DEFINE f == [job \in jobs |-> [job EXCEPT !.state = IF @ = "live" THEN "failed" ELSE @]]
<1>1. /\ daemon = "down" /\ daemon' = "up"
      /\ jobs' = {[job EXCEPT !.state = IF @ = "live" THEN "failed" ELSE @] : job \in jobs}
      /\ UNCHANGED <<clock, fresh, faults, others, sessions, conns, open, calls, client>>
  BY DEF Restart
<1>2. /\ SessionTypes /\ fresh \in 1 .. MaxFresh + 1 /\ fresh \in Nat /\ faults \in Nat
      /\ open \subseteq Drawn /\ 0 \notin Drawn
  BY DEF SessionInv, SessionTypes, DownInv, Drawn
<1>3. jobs' = {f[job] : job \in jobs} /\ \A job \in jobs : Restated(job, f[job])
  <2>1. \A job \in jobs : f[job] = [job EXCEPT !.state = IF @ = "live" THEN "failed" ELSE @]
    OBVIOUS
  <2>2. jobs' = {f[job] : job \in jobs}
    BY <1>1, <2>1
  <2>3. ASSUME NEW job \in jobs PROVE Restated(job, f[job])
    <3>1. job \in JobRecord
      BY <1>2 DEF SessionTypes
    <3> QED BY <2>1, <3>1 DEF Restated, JobRecord
  <2> QED BY <2>2, <2>3
<1> HIDE DEF f
<1>4. (\A x, y : HasJob(x, y) => HasJob(x, y)') /\ JobsInv' /\ jobs' \subseteq JobRecord
  BY <1>1, <1>3, RestatedJobs
<1>5. Kept /\ \A x : HeldKept(x)
  <2>1. fresh' \in 1 .. MaxFresh + 1 /\ fresh <= fresh' /\ open' \cap Drawn \subseteq open /\ 0 \notin open'
    BY <1>1, <1>2
  <2> QED BY <1>1, <1>4, <2>1, StoresKept
<1>6. StoreTypes'
  BY <1>1, <1>2, <1>4 DEF StoreTypes, SessionTypes
<1>7. \A q \in calls : q.reply = "none"
  BY <1>1 DEF SessionInv, DownInv, CallInv
<1> QED BY <1>1, <1>4, <1>5, <1>6, <1>7, WorldInv

LEMMA JobEndsInv ==
  ASSUME SessionInv, NEW job \in jobs, JobEnds(job)
  PROVE  SessionInv'
<1> DEFINE f == [x \in jobs |-> IF x = job THEN [job EXCEPT !.state = "completed"] ELSE x]
<1>1. /\ jobs' = (jobs \ {job}) \cup {[job EXCEPT !.state = "completed"]}
      /\ UNCHANGED <<clock, fresh, faults, others, daemon, allows, sessions, conns, open, calls, client>>
  BY DEF JobEnds
<1>2. /\ SessionTypes /\ fresh \in 1 .. MaxFresh + 1 /\ fresh \in Nat /\ faults \in Nat
      /\ open \subseteq Drawn /\ 0 \notin Drawn
  BY DEF SessionInv, SessionTypes, DownInv, Drawn
<1>3. jobs' = {f[x] : x \in jobs} /\ \A x \in jobs : Restated(x, f[x])
  <2>1. jobs' = {f[x] : x \in jobs}
    BY <1>1
  <2>2. ASSUME NEW x \in jobs PROVE Restated(x, f[x])
    <3>1. x \in JobRecord
      BY <1>2 DEF SessionTypes
    <3> QED BY <3>1 DEF Restated, JobRecord
  <2> QED BY <2>1, <2>2
<1> HIDE DEF f
<1>4. (\A x, y : HasJob(x, y) => HasJob(x, y)') /\ JobsInv' /\ jobs' \subseteq JobRecord
  BY <1>1, <1>3, RestatedJobs
<1>5. Kept /\ \A x : HeldKept(x)
  <2>1. fresh' \in 1 .. MaxFresh + 1 /\ fresh <= fresh' /\ open' \cap Drawn \subseteq open /\ 0 \notin open'
    BY <1>1, <1>2
  <2> QED BY <1>1, <1>4, <2>1, StoresKept
<1>6. StoreTypes'
  BY <1>1, <1>2, <1>4 DEF StoreTypes, SessionTypes
<1> QED BY <1>1, <1>4, <1>5, <1>6, WorldInv DEF SessionInv, DownInv

LEMMA TickInv ==
  ASSUME SessionInv, Tick
  PROVE  SessionInv'
<1>1. /\ clock' = clock + 1
      /\ UNCHANGED <<fresh, faults, others, daemon, allows, sessions, conns, jobs, open, calls, client>>
  BY DEF Tick, daemonVars
<1>2. /\ SessionTypes /\ clock \in Nat /\ fresh \in 1 .. MaxFresh + 1 /\ fresh \in Nat
      /\ open \subseteq Drawn /\ 0 \notin Drawn
  BY DEF SessionInv, SessionTypes, DownInv, Drawn
<1>3. \A x, y : HasJob(x, y) => HasJob(x, y)'
  BY <1>1 DEF HasJob
<1>4. \A x, t, e : (Exact(x, t, e) => Exact(x, t, e)') /\ (Served(x, t, e) => Served(x, t, e)')
  BY <1>1 DEF Exact, Served
<1>5. ASSUME NEW x, NEW t, NEW e \in Nat, Held(x, t, e) PROVE Held(x, t, e)'
  <2>1. e <= clock => e <= clock'
    BY <1>1, <1>2
  <2> QED BY <1>1, <1>5, <2>1 DEF Held
<1>6. clock' \in Nat /\ clock <= clock' /\ fresh' \in 1 .. MaxFresh + 1 /\ fresh <= fresh' /\ 0 \notin open'
  BY <1>1, <1>2
<1>7. Kept /\ \A x : HeldKept(x)
  BY <1>1, <1>3, <1>4, <1>5, <1>6 DEF Kept, HeldKept
<1>8. StoreTypes' /\ JobsInv'
  BY <1>1, <1>2, JobsKept DEF StoreTypes, SessionTypes
<1> QED BY <1>1, <1>7, <1>8, WorldInv DEF SessionInv, DownInv

LEMMA StutterInv ==
  ASSUME SessionInv, UNCHANGED vars
  PROVE  SessionInv'
<1>1. UNCHANGED <<clock, fresh, faults, others, daemon, allows, sessions, conns, jobs, open, calls, client>>
  BY DEF vars, daemonVars
<1>2. Kept /\ \A x : HeldKept(x)
  BY <1>1, OpenKept
<1>3. StoreTypes' /\ JobsInv'
  BY <1>1, JobsKept DEF StoreTypes, SessionInv, SessionTypes
<1> QED BY <1>1, <1>2, <1>3, WorldInv DEF SessionInv, DownInv

-----------------------------------------------------------------------------
(* Steps of a client c, which becomes r and may send the requests in N.    *)

Moves(c, r, N) ==
    /\ client' = [client EXCEPT ![c] = r]
    /\ calls' \subseteq calls \cup N
    /\ UNCHANGED <<clock, others, daemon, allows, sessions, conns, jobs>>
    /\ faults' \in Nat /\ fresh' \in 1 .. MaxFresh + 1 /\ fresh <= fresh'
    /\ open' \cap Drawn \subseteq open /\ open' \subseteq Drawn'
    /\ daemon = "down" => open' \subseteq open

\* r's session and connection are nobody else's.
Own(c, r) ==
    /\ client[c].session = None \/ r.session = client[c].session
    /\ \A d \in Clients \ {c} : client[d].session # r.session \/ r.session = None
    /\ \A d \in Clients \ {c} : client[d].conn # r.conn \/ r.conn = None
    /\ \A a \in conns : a.conn = r.conn => a.session = r.session
    /\ \A q \in calls \cap calls' : q.conn = r.conn => q.kind \in JobKinds /\ q.client = c
    /\ \A q \in calls \cap calls' : q.kind = "create" /\ q.reply = "ok" => q.session # r.session

\* A new request is alone on its connection.
Sent(c, r, n) ==
    /\ CallInv(n)' /\ n.client = c /\ n.reply = "none" /\ n.step = "sent"
    /\ \A q \in calls \cap calls' : q.conn # n.conn
    /\ \A a \in conns : a.conn = n.conn => a.session = n.session /\ n.kind \notin SessionKinds
    /\ \A d \in Clients \ {c} : client[d].conn # n.conn
    /\ n.conn = r.conn => n.kind \in JobKinds

LEMMA MovesKept ==
  ASSUME SessionInv, NEW c, NEW r, NEW N, Moves(c, r, N)
  PROVE  Kept /\ \A x : HeldKept(x)
<1>1. \A x, y : HasJob(x, y) => HasJob(x, y)'
  BY DEF HasJob, Moves
<1>2. 0 \notin open'
  <2>1. \A f \in Int : 0 \notin 1 .. f
    OBVIOUS
  <2>2. fresh' - 1 \in Int
    BY ClientSessionAssumption DEF Moves
  <2> QED BY <2>1, <2>2 DEF Moves, Drawn
<1> QED BY <1>1, <1>2, StoresKept DEF Moves

LEMMA MovesInv ==
  ASSUME SessionInv, NEW c \in Clients, NEW r \in ClientRecord, NEW N \in SUBSET CallRecord,
         Moves(c, r, N), ClientInv(c)', Own(c, r), \A p, n \in N : p = n, \A n \in N : Sent(c, r, n),
         \A q \in calls \cap calls' : q.client = c => CallInv(q)'
  PROVE  SessionInv'
<1>1. Kept /\ \A x : HeldKept(x)
  BY MovesKept
<1>2. /\ SessionTypes /\ client \in [Clients -> ClientRecord]
      /\ client'[c] = r /\ \A d \in Clients \ {c} : client'[d] = client[d]
  BY DEF SessionInv, SessionTypes, Moves
<1>3. calls' \subseteq CallRecord
  BY <1>2 DEF Moves, SessionTypes
<1>4. SessionTypes'
  <2>1. client' \in [Clients -> ClientRecord]
    BY <1>2 DEF Moves
  <2>2. clock' \in Nat /\ others' \in Nat
    BY <1>2 DEF Moves, SessionTypes
  <2>3. (\A s \in sessions : (s.session < fresh /\ s.token < fresh) \/ s.session > MaxFresh)'
    BY <1>2 DEF Moves, SessionTypes
  <2> QED BY <1>2, <1>3, <2>1, <2>2, <2>3 DEF SessionTypes, Moves
<1>5. \A d \in Clients : ClientInv(d)'
  <2> SUFFICES ASSUME NEW d \in Clients, d # c PROVE ClientInv(d)'
    OBVIOUS
  <2> QED BY <1>1, <1>2, KeptClient DEF SessionInv
<1>6. \A q \in calls' : q \in calls \cap calls' \/ q \in N
  BY DEF Moves
<1>7. ASSUME NEW q \in calls' PROVE CallInv(q)'
  <2>1. CASE q \in N
    BY <2>1 DEF Sent
  <2>2. CASE q \notin N
    <3>1. q \in calls /\ q \in CallRecord /\ CallInv(q) /\ q.client \in Clients /\ q \in calls \cap calls'
      BY <1>2, <1>6, <2>2 DEF SessionInv, SessionTypes, CallRecord
    <3>2. CASE q.client = c
      BY <3>1, <3>2
    <3>3. CASE q.client # c
      <4>1. client'[q.client] = client[q.client]
        BY <1>2, <3>1, <3>3
      <4>2. ASSUME q.kind = "create", q.reply = "ok", NEW d \in Clients PROVE client'[d].session # q.session
        <5>1. CASE d = c
          BY <1>2, <3>1, <4>2, <5>1 DEF Own
        <5>2. CASE d # c
          BY <1>2, <3>1, <4>2, <5>2 DEF CallInv, SessionCall, SessionKinds
        <5> QED BY <5>1, <5>2
      <4>3. allows' = allows /\ (daemon' = "up" => daemon = "up")
        BY DEF Moves
      <4> QED BY <1>1, <1>2, <3>1, <4>1, <4>2, <4>3, KeptCall
    <3> QED BY <3>2, <3>3
  <2> QED BY <2>1, <2>2
<1>8. ASSUME NEW a \in conns' PROVE ConnInv(a)'
  <2>1. a \in conns /\ ConnInv(a)
    BY DEF Moves, SessionInv
  <2>2. a.conn \in Drawn'
    BY <1>1, <1>2, <2>1, DrawnGrows DEF ConnInv
  <2>3. ASSUME NEW q \in calls', a.conn = q.conn
        PROVE  a.session = q.session /\ (q.kind \in SessionKinds => q.reply = "ok")
    <3>1. CASE q \in N
      BY <2>1, <2>3, <3>1 DEF Sent
    <3>2. CASE q \in calls
      BY <2>1, <2>3, <3>2 DEF ConnInv
    <3> QED BY <1>6, <3>1, <3>2
  <2>4. ASSUME NEW d \in Clients, a.conn = client'[d].conn PROVE a.session = client'[d].session
    <3>1. CASE d = c
      BY <1>2, <2>1, <2>4, <3>1 DEF Own
    <3>2. CASE d # c
      BY <1>2, <2>1, <2>4, <3>2 DEF ConnInv
    <3> QED BY <3>1, <3>2
  <2> QED BY <2>2, <2>3, <2>4 DEF ConnInv
<1>9. ASSUME NEW job \in jobs' PROVE JobInv(job)'
  <2>1. job \in jobs /\ JobInv(job) /\ job \in JobRecord /\ job.by[1] \in Clients
    BY <1>2 DEF Moves, SessionInv, SessionTypes, JobRecord
  <2>2. client'[job.by[1]].session = client[job.by[1]].session
    BY <1>2, <2>1 DEF JobInv, Own
  <2> QED BY <2>1, <2>2 DEF JobInv
<1>10. ApartInv'
  <2>1. \A p, q \in calls' : p.conn = q.conn => p = q
    <3>1. \A p, q \in calls : p.conn = q.conn => p = q
      BY DEF SessionInv, ApartInv
    <3> QED BY <1>6, <3>1 DEF Sent
  <2>2. \A p, q \in calls' : p.kind = "create" /\ q.kind = "create" /\ p.reply = "ok" /\ q.reply = "ok"
                              /\ p.session = q.session => p = q
    <3>1. \A q \in calls' : q.reply = "ok" => q \in calls
      BY <1>6 DEF Sent
    <3> QED BY <3>1 DEF SessionInv, ApartInv
  <2>3. ASSUME NEW q \in calls', NEW d \in Clients, q.conn = client'[d].conn
        PROVE  q.kind \in JobKinds /\ q.client = d
    <3>1. CASE q \in N
      BY <1>2, <2>3, <3>1 DEF Sent
    <3>2. CASE q \in calls \cap calls' /\ d = c
      BY <1>2, <2>3, <3>2 DEF Own
    <3>3. CASE q \in calls \cap calls' /\ d # c
      BY <1>2, <2>3, <3>3 DEF SessionInv, ApartInv
    <3> QED BY <1>6, <3>1, <3>2, <3>3
  <2>4. \A b, d \in Clients :
              client'[b].session = client'[d].session /\ client'[b].session # None => b = d
    <3>1. \A b, d \in Clients : client[b].session = client[d].session /\ client[b].session # None => b = d
      BY DEF SessionInv, ApartInv
    <3> QED BY <1>2, <3>1 DEF Own
  <2>5. \A b, d \in Clients : client'[b].conn = client'[d].conn /\ client'[b].conn # None => b = d
    <3>1. \A b, d \in Clients : client[b].conn = client[d].conn /\ client[b].conn # None => b = d
      BY DEF SessionInv, ApartInv
    <3> QED BY <1>2, <3>1 DEF Own
  <2>6. \A i, k \in jobs' : i.owner = k.owner /\ i.key = k.key => i = k
    BY DEF SessionInv, ApartInv, Moves
  <2> QED BY <2>1, <2>2, <2>3, <2>4, <2>5, <2>6 DEF ApartInv
<1>11. DownInv'
  <2>1. daemon' = "down" => open' = {} /\ conns' = {}
    BY DEF Moves, SessionInv, DownInv
  <2>2. daemon' = "down" => \A q \in calls' : q.step = "sent"
    BY <1>6 DEF Moves, SessionInv, DownInv, Sent
  <2> QED BY <2>1, <2>2 DEF DownInv, Moves
<1> QED BY <1>4, <1>5, <1>7, <1>8, <1>9, <1>10, <1>11 DEF SessionInv

\* A client that keeps its session and its connection: what its step must respect.
Keeps(c, r) ==
    /\ r.session = client[c].session /\ r.conn = client[c].conn /\ r.cap = client[c].cap
    /\ r.token = client[c].token /\ r.expires = client[c].expires
    /\ r.pc \in {"start", "opening"} => client[c].session = None
    /\ r.pc \in {"idle", "ready", "waiting", "reconnect", "resuming", "ok"} => client[c].session # None
    /\ r.pc \in Resumable => client[c].pc \in Resumable
    /\ r.session = None \/ r.pc = "idle" => ~r.job
    /\ r.pc \in {"ready", "waiting", "reconnect", "resuming"} \/ r.job =>
          r.key = [session |-> r.session, number |-> r.command]
    /\ r.job => HasJob(r.session, r.key)
    /\ r.pc \in {"reconnect", "resuming"} \/ (r.pc \in {"ready", "waiting"} /\ r.retry) =>
          r.errors >= 1 \/ r.expires <= clock

\* The requests of its own that stay: one that opens a session is still waited for, or
\* the client has stopped.
Leaves(c, r, q) ==
    /\ q.kind \in SessionKinds => /\ r.pc \in {"opening", "resuming", "error"}
                                  /\ r.next = client[c].next /\ r.errors >= client[c].errors
    /\ q.kind \in JobKinds =>
          /\ q.conn = r.conn => r.pc \notin {"idle", "ready"} /\ r.command = client[c].command
          /\ r.pc \in {"opening", "resuming"} => q.conn # r.next

LEMMA KeepsClient ==
  ASSUME SessionInv, NEW c \in Clients, NEW r \in ClientRecord, NEW N, Moves(c, r, N), Keeps(c, r)
  PROVE  ClientInv(c)'
<1>1. Kept /\ \A x : HeldKept(x)
  BY MovesKept
<1>2. SessionTypes /\ client'[c] = r /\ ClientInv(c) /\ client[c] \in ClientRecord /\ clock' = clock
  BY DEF SessionInv, SessionTypes, Moves
<1>3. PICK k \in ClientRecord : k = client[c]
  BY <1>2
<1>4. /\ k.session \in Nat /\ k.conn \in Nat /\ k.token \in Nat /\ k.expires \in Nat
      /\ fresh \in Nat /\ fresh' \in Nat /\ fresh <= fresh'
  BY <1>2, ClientSessionAssumption DEF ClientRecord, SessionTypes, Moves
<1>5. /\ k.session = None <=> k.conn = None
      /\ k.conn < fresh /\ k.session < fresh /\ k.token < fresh
      /\ k.pc \in Resumable => Held(k.session, k.token, k.expires)
      /\ k.session # None => Exact(k.session, k.token, k.expires)
      /\ k.conn \in open => Served(k.conn, k.cap, k.expires)
  BY <1>2, <1>3 DEF ClientInv, Resumable
<1>6. /\ r.session = k.session /\ r.conn = k.conn /\ r.cap = k.cap /\ r.token = k.token /\ r.expires = k.expires
      /\ r.pc \in Resumable => k.pc \in Resumable
  BY <1>3 DEF Keeps
<1>7. r.conn < fresh' /\ r.session < fresh' /\ r.token < fresh'
  BY <1>4, <1>5, <1>6
<1>8. r.pc \in Resumable => Held(r.session, r.token, r.expires)'
  BY <1>1, <1>4, <1>5, <1>6 DEF HeldKept
<1>9. r.session # None => Exact(r.session, r.token, r.expires)'
  BY <1>1, <1>4, <1>5, <1>6 DEF Kept
<1>10. r.conn \in open' => Served(r.conn, r.cap, r.expires)'
  <2>1. r.conn \in open' => k.conn \in open
    <3>1. k.conn # 0 => k.conn \in Drawn
      BY <1>4, <1>5 DEF Drawn
    <3> QED BY <1>1, <1>6, <3>1 DEF Kept
  <2> QED BY <1>1, <1>5, <1>6, <2>1 DEF Kept
<1>11. r.job => HasJob(r.session, r.key)'
  BY <1>1 DEF Keeps, Kept
<1> QED BY <1>2, <1>3, <1>5, <1>6, <1>7, <1>8, <1>9, <1>10, <1>11 DEF ClientInv, Keeps, Resumable

LEMMA KeepsCall ==
  ASSUME SessionInv, NEW c \in Clients, NEW r \in ClientRecord, NEW N, Moves(c, r, N), Keeps(c, r),
         NEW q \in calls, q.client = c, Leaves(c, r, q)
  PROVE  CallInv(q)'
<1>1. Kept /\ \A x : HeldKept(x)
  BY MovesKept
<1>2. /\ SessionTypes /\ client'[c] = r /\ CallInv(q) /\ clock' = clock /\ q \in CallRecord
      /\ daemon' = daemon /\ allows' = allows /\ \A d \in Clients \ {c} : client'[d] = client[d]
  BY DEF SessionInv, SessionTypes, Moves
<1>3. PICK k \in ClientRecord : k = client[c]
  BY <1>2 DEF SessionTypes
<1>4. /\ r.session = k.session /\ r.conn = k.conn /\ r.cap = k.cap /\ r.token = k.token /\ r.expires = k.expires
  BY <1>3 DEF Keeps
<1>5. /\ q.expires \in Nat /\ q.session \in Nat /\ q.token \in Nat /\ q.conn \in Nat
      /\ k.errors \in Nat /\ r.errors \in Nat /\ k.expires \in Nat
      /\ fresh \in Nat /\ fresh' \in Nat /\ fresh <= fresh'
  BY <1>2, ClientSessionAssumption DEF ClientRecord, CallRecord, SessionTypes, Moves
<1>6. q.conn \in Drawn /\ q.conn \in Drawn' /\ (q.conn \in open' => q.conn \in open)
  BY <1>1, <1>2, DrawnGrows DEF CallInv, Kept
<1>7. ASSUME q.kind \in SessionKinds PROVE SessionCall(q)'
  <2>1. /\ r.pc \in {"opening", "resuming", "error"} /\ r.next = k.next /\ r.errors >= k.errors
    BY <1>3, <1>7 DEF Leaves
  <2>2. SessionCall(q) /\ q.client = c
    BY <1>2, <1>7 DEF CallInv
  <2>3. /\ q.conn = k.next /\ (q.kind = "resume" <=> k.session # None)
        /\ q.reply = "ok" =>
              /\ q.session \in Drawn /\ q.token < fresh
              /\ Held(q.session, q.token, q.expires) /\ Exact(q.session, q.token, q.expires)
              /\ q.conn \in open => Served(q.conn, q.cap, q.expires)
              /\ q.kind = "create" => \A d \in Clients : client[d].session # q.session
              /\ q.kind = "resume" => k.errors >= 1
        /\ q.kind = "resume" =>
              /\ q.session = k.session
              /\ q.reply \in {"none", "ok", "denied", "internal", "limit"}
              /\ q.reply = "none" => q.token = k.token /\ Held(k.session, k.token, k.expires)
              /\ k.errors >= 1 \/ k.expires <= clock
              /\ q.step = "started" => k.errors >= 1 \/ k.expires <= q.now
              /\ q.reply = "denied" => ~allows \/ k.expires <= clock
    BY <1>3, <2>2 DEF SessionCall
  <2>4. q.reply = "ok" =>
              /\ q.session \in Drawn' /\ q.token < fresh'
              /\ Held(q.session, q.token, q.expires)' /\ Exact(q.session, q.token, q.expires)'
              /\ q.conn \in open' => Served(q.conn, q.cap, q.expires)'
              /\ q.kind = "create" => \A d \in Clients : client'[d].session # q.session
              /\ q.kind = "resume" => r.errors >= 1
    <3> SUFFICES ASSUME q.reply = "ok"
                 PROVE  /\ q.session \in Drawn' /\ q.token < fresh'
                        /\ Held(q.session, q.token, q.expires)' /\ Exact(q.session, q.token, q.expires)'
                        /\ q.conn \in open' => Served(q.conn, q.cap, q.expires)'
                        /\ q.kind = "create" => \A d \in Clients : client'[d].session # q.session
                        /\ q.kind = "resume" => r.errors >= 1
      OBVIOUS
    <3>1. q.session < fresh /\ q.session \in Drawn' /\ q.token < fresh'
      BY <1>1, <1>2, <1>5, <2>3, DrawnGrows DEF Drawn
    <3>2. Held(q.session, q.token, q.expires)' /\ Exact(q.session, q.token, q.expires)'
      BY <1>1, <1>5, <2>3, <3>1 DEF HeldKept, Kept
    <3>3. q.conn \in open' => Served(q.conn, q.cap, q.expires)'
      BY <1>1, <1>6, <2>3 DEF Kept
    <3>4. q.kind = "create" => \A d \in Clients : client'[d].session # q.session
      <4>1. q.kind = "create" => \A d \in Clients : client[d].session # q.session
        BY <2>3
      <4>2. \A d \in Clients : client'[d].session = client[d].session
        BY <1>2, <1>3, <1>4
      <4> QED BY <4>1, <4>2
    <3>5. q.kind = "resume" => r.errors >= 1
      BY <1>5, <2>1, <2>3
    <3> QED BY <3>1, <3>2, <3>3, <3>4, <3>5
  <2>5. q.kind = "resume" =>
              /\ q.session = r.session
              /\ q.reply \in {"none", "ok", "denied", "internal", "limit"}
              /\ q.reply = "none" => q.token = r.token /\ Held(r.session, r.token, r.expires)'
              /\ r.errors >= 1 \/ r.expires <= clock'
              /\ q.step = "started" => r.errors >= 1 \/ r.expires <= q.now
              /\ q.reply = "denied" => ~allows' \/ r.expires <= clock'
    <3>1. Held(k.session, k.token, k.expires) => Held(r.session, r.token, r.expires)'
      BY <1>1, <1>4, <1>5 DEF HeldKept
    <3>2. k.errors >= 1 => r.errors >= 1
      BY <1>5, <2>1
    <3> QED BY <1>2, <1>4, <2>3, <3>1, <3>2
  <2> QED BY <1>2, <1>4, <2>1, <2>3, <2>4, <2>5 DEF SessionCall
<1>8. ASSUME q.kind \in JobKinds PROVE JobCall(q)'
  <2>1. JobCall(q)
    BY <1>2, <1>8 DEF CallInv
  <2>2. /\ k.session # None /\ q.session = k.session
        /\ q.key = [session |-> k.session, number |-> q.by[2]]
        /\ q.kind = "status" \/ q.reply = "ok" => HasJob(q.session, q.key)
        /\ q.reply # "not_found"
        /\ q.conn = k.conn => /\ q.by[2] = k.command /\ q.cap = k.cap
                              /\ q.reply = "denied" => k.expires <= clock
    BY <1>3, <2>1 DEF JobCall
  <2>3. /\ q.conn = r.conn => r.pc \notin {"idle", "ready"} /\ r.command = k.command
        /\ r.pc \in {"opening", "resuming"} => q.conn # r.next
    BY <1>3, <1>8 DEF Leaves
  <2>4. q.kind = "status" \/ q.reply = "ok" => HasJob(q.session, q.key)'
    BY <1>1, <2>2 DEF Kept
  <2> QED BY <1>2, <1>4, <2>2, <2>3, <2>4 DEF JobCall
<1> QED BY <1>2, <1>6, <1>7, <1>8 DEF CallInv

LEMMA KeepsInv ==
  ASSUME SessionInv, NEW c \in Clients, NEW r \in ClientRecord, NEW N \in SUBSET CallRecord,
         Moves(c, r, N), Keeps(c, r), \A p, n \in N : p = n, \A n \in N : Sent(c, r, n),
         \A q \in calls \cap calls' : q.client = c => Leaves(c, r, q)
  PROVE  SessionInv'
<1>1. r.session = client[c].session /\ r.conn = client[c].conn
  BY DEF Keeps
<1>2. Own(c, r)
  <2>1. /\ \A d \in Clients \ {c} : client[d].session # r.session \/ r.session = None
        /\ \A d \in Clients \ {c} : client[d].conn # r.conn \/ r.conn = None
        /\ \A q \in calls \cap calls' : q.conn = r.conn => q.kind \in JobKinds /\ q.client = c
    BY <1>1 DEF SessionInv, ApartInv
  <2>2. \A a \in conns : a.conn = r.conn => a.session = r.session
    BY <1>1 DEF SessionInv, ConnInv
  <2>3. \A q \in calls \cap calls' : q.kind = "create" /\ q.reply = "ok" => q.session # r.session
    BY <1>1 DEF SessionInv, CallInv, SessionCall, SessionKinds
  <2> QED BY <1>1, <2>1, <2>2, <2>3 DEF Own
<1>3. ClientInv(c)'
  BY KeepsClient
<1>4. \A q \in calls \cap calls' : q.client = c => CallInv(q)'
  BY KeepsCall
<1> QED BY <1>2, <1>3, <1>4, MovesInv

\* A new connection is the last identity drawn; the other steps draw none.
LEMMA DrawsOne ==
  ASSUME SessionInv, Draw(1), open' = open \cup {fresh}
  PROVE  /\ fresh' \in 1 .. MaxFresh + 1 /\ fresh <= fresh' /\ fresh \in Nat
         /\ open' \cap Drawn \subseteq open /\ open' \subseteq Drawn'
         /\ fresh \in Drawn' /\ fresh \notin Drawn /\ fresh # 0
<1>1. fresh \in 1 .. MaxFresh + 1 /\ MaxFresh \in Nat /\ open \subseteq Drawn
  BY ClientSessionAssumption DEF SessionInv, SessionTypes, DownInv
<1>2. fresh + 1 - 1 <= MaxFresh /\ fresh' = fresh + 1
  BY DEF Draw
<1>3. /\ fresh' \in 1 .. MaxFresh + 1 /\ fresh <= fresh' /\ fresh \in Nat /\ fresh # 0
      /\ fresh \in 1 .. fresh' - 1 /\ fresh \notin 1 .. fresh - 1 /\ 1 .. fresh - 1 \subseteq 1 .. fresh' - 1
  BY <1>1, <1>2
<1> QED BY <1>1, <1>3 DEF Drawn

LEMMA DrawsNone ==
  ASSUME SessionInv, fresh' = fresh, open' \subseteq open
  PROVE  /\ fresh' \in 1 .. MaxFresh + 1 /\ fresh <= fresh'
         /\ open' \cap Drawn \subseteq open /\ open' \subseteq Drawn'
<1>1. fresh \in 1 .. MaxFresh + 1 /\ MaxFresh \in Nat /\ open \subseteq Drawn
  BY ClientSessionAssumption DEF SessionInv, SessionTypes, DownInv
<1> QED BY <1>1 DEF Drawn

\* What is known of a client and of its own requests.
LEMMA OwnFacts ==
  ASSUME SessionInv, NEW c \in Clients
  PROVE  /\ ClientInv(c) /\ client[c] \in ClientRecord
         /\ \A q \in calls : q.client = c /\ q.kind \in SessionKinds =>
               client[c].pc \in {"opening", "resuming", "error"} /\ q.conn = client[c].next
         /\ \A q \in calls : q.client = c /\ q.kind \in JobKinds =>
               /\ client[c].session # None
               /\ q.conn = client[c].conn => client[c].pc \notin {"idle", "ready"}
               /\ client[c].pc \in {"opening", "resuming"} => q.conn # client[c].next
         /\ \A q \in calls : q.kind \in SessionKinds \/ q.kind \in JobKinds
         /\ \A q \in calls : q.conn \in Drawn
         /\ \A p, q \in calls : p.conn = q.conn => p = q
<1>1. ClientInv(c) /\ client[c] \in ClientRecord /\ calls \subseteq CallRecord
  BY DEF SessionInv, SessionTypes
<1>2. \A q \in calls : CallInv(q)
  BY DEF SessionInv
<1>3. \A q \in calls : q.kind \in SessionKinds \/ q.kind \in JobKinds
  BY <1>1 DEF CallRecord
<1>4. \A q \in calls : q.client = c /\ q.kind \in SessionKinds =>
               client[c].pc \in {"opening", "resuming", "error"} /\ q.conn = client[c].next
  BY <1>2 DEF CallInv, SessionCall
<1>5. \A q \in calls : q.client = c /\ q.kind \in JobKinds =>
               /\ client[c].session # None
               /\ q.conn = client[c].conn => client[c].pc \notin {"idle", "ready"}
               /\ client[c].pc \in {"opening", "resuming"} => q.conn # client[c].next
  BY <1>2 DEF CallInv, JobCall
<1>6. (\A q \in calls : q.conn \in Drawn) /\ \A p, q \in calls : p.conn = q.conn => p = q
  BY <1>2 DEF CallInv, SessionInv, ApartInv
<1> QED BY <1>1, <1>3, <1>4, <1>5, <1>6

\* The first connect: a client without a session has no other request.
LEMMA ConnectInv ==
  ASSUME SessionInv, NEW c \in Clients, Connect(c)
  PROVE  SessionInv'
<1>1. /\ client[c].pc = "start" /\ daemon # "down" /\ Draw(1) /\ open' = open \cup {fresh}
      /\ calls' = calls \cup {Call(c, fresh, "create")}
      /\ client' = [client EXCEPT ![c].pc = "opening", ![c].next = fresh]
      /\ UNCHANGED <<clock, faults, others, daemon, allows, sessions, conns, jobs>>
  BY DEF Connect, daemonVars
<1>2. /\ fresh' \in 1 .. MaxFresh + 1 /\ fresh <= fresh' /\ fresh \in Nat
      /\ open' \cap Drawn \subseteq open /\ open' \subseteq Drawn'
      /\ fresh \in Drawn' /\ fresh \notin Drawn /\ fresh # 0
  BY <1>1, DrawsOne
<1>3. PICK k \in ClientRecord : k = client[c]
  BY OwnFacts
<1>4. PICK r \in ClientRecord : r = [k EXCEPT !.pc = "opening", !.next = fresh]
  BY <1>2 DEF ClientRecord, ClientSteps
<1>5. client' = [client EXCEPT ![c] = r] /\ client'[c] = r
  BY <1>1, <1>3, <1>4 DEF SessionInv, SessionTypes
<1>6. PICK n \in CallRecord : n = Call(c, fresh, "create")
  BY <1>2, <1>3 DEF Call, CallRecord, ClientRecord, SessionKinds, Replies, Errors
<1>7. /\ n.client = c /\ n.conn = fresh /\ n.kind = "create" /\ n.step = "sent" /\ n.now = 0
      /\ n.by[1] = c /\ n.reply = "none"
  BY <1>6 DEF Call
<1>8. /\ r.pc = "opening" /\ r.next = fresh /\ r.session = k.session /\ r.conn = k.conn /\ r.cap = k.cap
      /\ r.token = k.token /\ r.expires = k.expires /\ r.job = k.job /\ r.key = k.key /\ r.command = k.command
  BY <1>4 DEF ClientRecord
<1>9. k.session = None /\ ~k.job
  BY <1>1, <1>3, OwnFacts DEF ClientInv
<1>10. Moves(c, r, {n})
  BY <1>1, <1>2, <1>5, <1>6 DEF Moves, SessionInv, SessionTypes
<1>11. Keeps(c, r)
  BY <1>3, <1>8, <1>9 DEF Keeps, Resumable
<1>12. SessionCall(n)'
  BY <1>5, <1>7, <1>8, <1>9 DEF SessionCall
<1>13. CallInv(n)'
  BY <1>1, <1>2, <1>7, <1>12 DEF CallInv, JobKinds, SessionInv, SessionTypes
<1>14. Sent(c, r, n)
  <2>1. \A q \in calls : q.conn # n.conn
    BY <1>2, <1>7, OwnFacts
  <2>2. \A a \in conns : a.conn # n.conn
    BY <1>2, <1>7 DEF SessionInv, ConnInv
  <2>3. \A d \in Clients : client[d].conn # n.conn
    <3> SUFFICES ASSUME NEW d \in Clients PROVE client[d].conn # n.conn
      OBVIOUS
    <3>1. client[d].conn < fresh /\ client[d].conn \in Nat
      BY OwnFacts DEF ClientInv, ClientRecord
    <3> QED BY <1>2, <1>7, <3>1
  <2> QED BY <1>3, <1>7, <1>8, <1>13, <2>1, <2>2, <2>3 DEF Sent
<1>15. \A q \in calls : q.client # c
  BY <1>1, <1>3, <1>9, OwnFacts
<1>16. \A q \in calls \cap calls' : q.client = c => Leaves(c, r, q)
  BY <1>15
<1>17. \A p, x \in {n} : p = x
  OBVIOUS
<1>18. \A x \in {n} : Sent(c, r, x)
  BY <1>14
<1>19. {n} \in SUBSET CallRecord
  OBVIOUS
<1> QED BY <1>10, <1>11, <1>16, <1>17, <1>18, <1>19, KeepsInv

\* reconnect: the request carries the token the client holds.
LEMMA ReconnectInv ==
  ASSUME SessionInv, NEW c \in Clients, Reconnect(c)
  PROVE  SessionInv'
<1>1. /\ client[c].pc = "reconnect" /\ daemon # "down" /\ Draw(1) /\ open' = open \cup {fresh}
      /\ calls' = calls \cup {Call(c, fresh, "resume")}
      /\ client' = [client EXCEPT ![c].pc = "resuming", ![c].next = fresh]
      /\ UNCHANGED <<clock, faults, others, daemon, allows, sessions, conns, jobs>>
  BY DEF Reconnect, daemonVars
<1>2. /\ fresh' \in 1 .. MaxFresh + 1 /\ fresh <= fresh' /\ fresh \in Nat
      /\ open' \cap Drawn \subseteq open /\ open' \subseteq Drawn'
      /\ fresh \in Drawn' /\ fresh \notin Drawn /\ fresh # 0
  BY <1>1, DrawsOne
<1>3. PICK k \in ClientRecord : k = client[c]
  BY OwnFacts
<1>4. PICK r \in ClientRecord : r = [k EXCEPT !.pc = "resuming", !.next = fresh]
  BY <1>2 DEF ClientRecord, ClientSteps
<1>5. client' = [client EXCEPT ![c] = r] /\ client'[c] = r
  BY <1>1, <1>3, <1>4 DEF SessionInv, SessionTypes
<1>6. PICK n \in CallRecord : n = Call(c, fresh, "resume")
  BY <1>2, <1>3 DEF Call, CallRecord, ClientRecord, SessionKinds, Replies, Errors
<1>7. /\ n.client = c /\ n.conn = fresh /\ n.kind = "resume" /\ n.step = "sent" /\ n.now = 0
      /\ n.by[1] = c /\ n.reply = "none" /\ n.session = k.session /\ n.token = k.token
  BY <1>3, <1>6 DEF Call
<1>8. /\ r.pc = "resuming" /\ r.next = fresh /\ r.session = k.session /\ r.conn = k.conn /\ r.cap = k.cap
      /\ r.token = k.token /\ r.expires = k.expires /\ r.job = k.job /\ r.key = k.key /\ r.command = k.command
      /\ r.errors = k.errors
  BY <1>4 DEF ClientRecord
<1>9. /\ k.pc = "reconnect" /\ k.session # None /\ k.key = [session |-> k.session, number |-> k.command]
      /\ k.job => HasJob(k.session, k.key)
      /\ Held(k.session, k.token, k.expires)
      /\ k.errors >= 1 \/ k.expires <= clock
  BY <1>1, <1>3, OwnFacts DEF ClientInv
<1>10. Moves(c, r, {n})
  BY <1>1, <1>2, <1>5, <1>6 DEF Moves, SessionInv, SessionTypes
<1>11. Keeps(c, r)
  BY <1>3, <1>8, <1>9 DEF Keeps, Resumable
<1>12. SessionCall(n)'
  <2>1. Held(k.session, k.token, k.expires)'
    BY <1>1, <1>9 DEF Held
  <2> QED BY <1>1, <1>5, <1>7, <1>8, <1>9, <2>1 DEF SessionCall
<1>13. CallInv(n)'
  BY <1>1, <1>2, <1>7, <1>12 DEF CallInv, JobKinds, SessionInv, SessionTypes
<1>14. Sent(c, r, n)
  <2>1. \A q \in calls : q.conn # n.conn
    BY <1>2, <1>7, OwnFacts
  <2>2. \A a \in conns : a.conn # n.conn
    BY <1>2, <1>7 DEF SessionInv, ConnInv
  <2>3. \A d \in Clients : client[d].conn # n.conn
    <3> SUFFICES ASSUME NEW d \in Clients PROVE client[d].conn # n.conn
      OBVIOUS
    <3>1. client[d].conn < fresh /\ client[d].conn \in Nat
      BY OwnFacts DEF ClientInv, ClientRecord
    <3> QED BY <1>2, <1>7, <3>1
  <2> QED BY <1>3, <1>7, <1>8, <1>13, <2>1, <2>2, <2>3 DEF Sent
<1>15. \A q \in calls \cap calls' : q.client = c => Leaves(c, r, q)
  <2> SUFFICES ASSUME NEW q \in calls, q.client = c PROVE Leaves(c, r, q)
    OBVIOUS
  <2>1. q.kind \notin SessionKinds
    BY <1>1, OwnFacts
  <2>2. q.conn # fresh
    BY <1>2, OwnFacts
  <2> QED BY <1>3, <1>8, <2>1, <2>2 DEF Leaves
<1>16. \A p, x \in {n} : p = x
  OBVIOUS
<1>17. \A x \in {n} : Sent(c, r, x)
  BY <1>14
<1>18. {n} \in SUBSET CallRecord
  OBVIOUS
<1> QED BY <1>10, <1>11, <1>15, <1>16, <1>17, <1>18, KeepsInv

\* connect_with_retry gives up.
LEMMA ConnectFailsInv ==
  ASSUME SessionInv, NEW c \in Clients, ConnectFails(c)
  PROVE  SessionInv'
<1>1. /\ client[c].pc \in {"start", "reconnect"} /\ client' = [client EXCEPT ![c].pc = "error"]
      /\ UNCHANGED <<clock, fresh, faults, others, daemon, allows, sessions, conns, jobs, open, calls>>
  BY DEF ConnectFails, Goes, daemonVars
<1>2. PICK k \in ClientRecord : k = client[c]
  BY OwnFacts
<1>3. PICK r \in ClientRecord : r = [k EXCEPT !.pc = "error"]
  BY DEF ClientRecord, ClientSteps
<1>4. client' = [client EXCEPT ![c] = r]
  BY <1>1, <1>2, <1>3 DEF SessionInv, SessionTypes
<1>5. /\ r.pc = "error" /\ r.session = k.session /\ r.conn = k.conn /\ r.cap = k.cap
      /\ r.token = k.token /\ r.expires = k.expires /\ r.job = k.job /\ r.key = k.key /\ r.command = k.command
  BY <1>3 DEF ClientRecord
<1>6. Moves(c, r, {})
  BY <1>1, <1>4, DrawsNone DEF Moves, SessionInv, SessionTypes
<1>7. Keeps(c, r)
  BY <1>2, <1>5, OwnFacts DEF Keeps, Resumable, ClientInv
<1>8. \A q \in calls \cap calls' : q.client = c => Leaves(c, r, q)
  BY <1>1, <1>2, <1>5, OwnFacts DEF Leaves
<1> QED BY <1>6, <1>7, <1>8, KeepsInv

LEMMA StartCommandInv ==
  ASSUME SessionInv, NEW c \in Clients, StartCommand(c)
  PROVE  SessionInv'
<1>1. /\ client[c].pc = "idle"
      /\ client' = [client EXCEPT ![c].pc = "ready", ![c].key = NextKey(c),
                                  ![c].retry = FALSE, ![c].errors = 0]
      /\ UNCHANGED <<clock, fresh, faults, others, daemon, allows, sessions, conns, jobs, open, calls>>
  BY DEF StartCommand, daemonVars
<1>2. PICK k \in ClientRecord : k = client[c]
  BY OwnFacts
<1>3. NextKey(c) = [session |-> k.session, number |-> k.command] /\ NextKey(c) \in KeyRecord
  BY <1>2 DEF NextKey, ClientRecord, KeyRecord
<1>4. PICK r \in ClientRecord : r = [k EXCEPT !.pc = "ready", !.key = NextKey(c), !.retry = FALSE, !.errors = 0]
  BY <1>3 DEF ClientRecord, ClientSteps
<1>5. client' = [client EXCEPT ![c] = r]
  BY <1>1, <1>2, <1>4 DEF SessionInv, SessionTypes
<1>6. /\ r.pc = "ready" /\ r.session = k.session /\ r.conn = k.conn /\ r.cap = k.cap
      /\ r.token = k.token /\ r.expires = k.expires /\ r.job = k.job /\ r.key = NextKey(c)
      /\ r.command = k.command /\ r.retry = FALSE
  BY <1>4 DEF ClientRecord
<1>7. Moves(c, r, {})
  BY <1>1, <1>5, DrawsNone DEF Moves, SessionInv, SessionTypes
<1>8. k.session # None /\ ~k.job
  BY <1>1, <1>2, OwnFacts DEF ClientInv
<1>9. Keeps(c, r)
  BY <1>1, <1>2, <1>3, <1>6, <1>8 DEF Keeps, Resumable
<1>10. \A q \in calls \cap calls' : q.client = c => Leaves(c, r, q)
  BY <1>1, <1>2, <1>6, OwnFacts DEF Leaves
<1> QED BY <1>7, <1>9, <1>10, KeepsInv

\* authenticated_request: the request goes over the client's connection, where it has
\* no other.
LEMMA FirstAttemptInv ==
  ASSUME SessionInv, NEW c \in Clients, FirstAttempt(c)
  PROVE  SessionInv'
<1>1. /\ client[c].pc = "ready"
      /\ UNCHANGED <<clock, fresh, faults, others, daemon, allows, sessions, conns, jobs, open>>
  BY DEF FirstAttempt, daemonVars
<1>2. PICK k \in ClientRecord : k = client[c]
  BY OwnFacts
<1>3. /\ k.pc = "ready" /\ k.session # None /\ k.conn # None
      /\ k.key = [session |-> k.session, number |-> k.command]
      /\ k.job => HasJob(k.session, k.key)
      /\ k.retry => k.errors >= 1 \/ k.expires <= clock
      /\ k.conn < fresh /\ k.conn \in Nat /\ k.expires \in Nat /\ clock \in Nat /\ fresh \in Nat
  <2>1. ClientInv(c) /\ clock \in Nat /\ fresh \in Nat
    BY OwnFacts, ClientSessionAssumption DEF SessionInv, SessionTypes
  <2>2. k.conn \in Nat /\ k.expires \in Nat
    BY DEF ClientRecord
  <2> QED BY <1>1, <1>2, <2>1, <2>2 DEF ClientInv
<1>4. ASSUME NEW q \in calls, q.client = c PROVE q.kind \in JobKinds /\ q.conn # k.conn
  <2>1. q.kind \notin SessionKinds
    BY <1>1, <1>4, OwnFacts
  <2>2. q.kind \in JobKinds
    BY <2>1, OwnFacts
  <2>3. q.conn = client[c].conn => client[c].pc \notin {"idle", "ready"}
    BY <1>4, <2>2, OwnFacts
  <2> QED BY <1>1, <1>2, <2>2, <2>3
<1>5. CASE Expired(c)
  <2>1. client' = [client EXCEPT ![c].pc = "reconnect", ![c].retry = FALSE] /\ calls' = calls
    BY <1>5 DEF FirstAttempt
  <2>2. PICK r \in ClientRecord : r = [k EXCEPT !.pc = "reconnect", !.retry = FALSE]
    BY DEF ClientRecord, ClientSteps
  <2>3. client' = [client EXCEPT ![c] = r]
    BY <1>2, <2>1, <2>2 DEF SessionInv, SessionTypes
  <2>4. /\ r.pc = "reconnect" /\ r.session = k.session /\ r.conn = k.conn /\ r.cap = k.cap
        /\ r.token = k.token /\ r.expires = k.expires /\ r.job = k.job /\ r.key = k.key
        /\ r.command = k.command
    BY <2>2 DEF ClientRecord
  <2>5. Moves(c, r, {})
    BY <1>1, <2>1, <2>3, DrawsNone DEF Moves, SessionInv, SessionTypes
  <2>6. k.expires <= clock
    BY <1>2, <1>3, <1>5 DEF Expired
  <2>7. Keeps(c, r)
    BY <1>2, <1>3, <2>4, <2>6 DEF Keeps, Resumable
  <2>8. \A q \in calls \cap calls' : q.client = c => Leaves(c, r, q)
    BY <1>4, <2>4 DEF Leaves, SessionKinds, JobKinds
  <2> QED BY <2>5, <2>7, <2>8, KeepsInv
<1>6. CASE ~Expired(c)
  <2>1. /\ client' = [client EXCEPT ![c].pc = "waiting"]
        /\ calls' = calls \cup {Call(c, client[c].conn, Method(c))}
    BY <1>6 DEF FirstAttempt, Goes
  <2>2. PICK r \in ClientRecord : r = [k EXCEPT !.pc = "waiting"]
    BY DEF ClientRecord, ClientSteps
  <2>3. client' = [client EXCEPT ![c] = r] /\ client'[c] = r
    BY <1>2, <2>1, <2>2 DEF SessionInv, SessionTypes
  <2>4. /\ r.pc = "waiting" /\ r.session = k.session /\ r.conn = k.conn /\ r.cap = k.cap
        /\ r.token = k.token /\ r.expires = k.expires /\ r.job = k.job /\ r.key = k.key
        /\ r.command = k.command /\ r.retry = k.retry /\ r.errors = k.errors
    BY <2>2 DEF ClientRecord
  <2>5. /\ Method(c) \in JobKinds /\ (Method(c) = "status" => k.job)
    BY <1>2 DEF Method, JobKinds
  <2>6. PICK n \in CallRecord : n = Call(c, k.conn, Method(c))
    BY <1>2, <2>5 DEF Call, CallRecord, ClientRecord, Replies, Errors
  <2>7. /\ n.client = c /\ n.conn = k.conn /\ n.kind = Method(c) /\ n.step = "sent" /\ n.now = 0
        /\ n.by[1] = c /\ n.by[2] = k.command /\ n.reply = "none" /\ n.session = k.session
        /\ n.key = k.key /\ n.cap = k.cap
    BY <1>2, <2>6 DEF Call
  <2>8. Moves(c, r, {n})
    BY <1>1, <1>2, <2>1, <2>3, <2>6, DrawsNone DEF Moves, SessionInv, SessionTypes
  <2>9. Keeps(c, r)
    BY <1>2, <1>3, <2>4 DEF Keeps, Resumable
  <2>10. JobCall(n)'
    <3>1. k.job => HasJob(k.session, k.key)'
      BY <1>1, <1>3 DEF HasJob
    <3> QED BY <1>3, <2>3, <2>4, <2>5, <2>7, <3>1 DEF JobCall
  <2>11. n.conn \in Drawn'
    <3>1. k.conn \in 1 .. fresh - 1
      BY <1>3 DEF None
    <3> QED BY <1>1, <2>7, <3>1 DEF Drawn
  <2>12. n.kind \in JobKinds /\ n.kind \notin SessionKinds
    BY <2>5, <2>7 DEF JobKinds, SessionKinds
  <2>13. CallInv(n)'
    BY <1>1, <1>3, <2>7, <2>10, <2>11, <2>12 DEF CallInv
  <2>14. Sent(c, r, n)
    <3>1. \A q \in calls : q.conn # n.conn
      BY <1>2, <1>4, <2>7 DEF SessionInv, ApartInv
    <3>2. \A a \in conns : a.conn = n.conn => a.session = n.session
      BY <1>2, <2>7 DEF SessionInv, ConnInv
    <3>3. \A d \in Clients \ {c} : client[d].conn # n.conn
      BY <1>2, <1>3, <2>7 DEF SessionInv, ApartInv
    <3> QED BY <2>7, <2>12, <2>13, <3>1, <3>2, <3>3 DEF Sent
  <2>15. \A q \in calls \cap calls' : q.client = c => Leaves(c, r, q)
    BY <1>4, <2>4 DEF Leaves, SessionKinds, JobKinds
  <2>16. \A p, x \in {n} : p = x
    OBVIOUS
  <2>17. \A x \in {n} : Sent(c, r, x)
    BY <2>14
  <2>18. {n} \in SUBSET CallRecord
    OBVIOUS
  <2> QED BY <2>8, <2>9, <2>15, <2>16, <2>17, <2>18, KeepsInv
<1> QED BY <1>5, <1>6

\* An I/O error: one that leads to a reconnect is counted.
LEMMA IoErrorInv ==
  ASSUME SessionInv, NEW c \in Clients, Waits(c), IoError(c), faults' \in Nat,
         UNCHANGED <<clock, fresh, others, daemon, allows, sessions, conns, jobs, calls>>
  PROVE  SessionInv'
<1>1. PICK k \in ClientRecord : k = client[c]
  BY OwnFacts
<1>2. PICK again \in BOOLEAN : again <=> (k.pc = "waiting" /\ ~k.retry)
  OBVIOUS
<1>3. /\ client' = [client EXCEPT ![c].pc = IF again THEN "reconnect" ELSE "error",
                                  ![c].errors = @ + 1, ![c].retry = again]
      /\ open' \subseteq open
  <2>1. again = (client[c].pc = "waiting" /\ ~client[c].retry)
    BY <1>1, <1>2
  <2> QED BY <2>1 DEF IoError
<1>4. again \in BOOLEAN /\ (again => k.pc = "waiting") /\ k.errors \in Nat
      /\ k.pc \in {"opening", "resuming", "waiting"}
  BY <1>1, <1>2 DEF ClientRecord, Waits
<1>5. PICK e \in Nat, p \in {"reconnect", "error"} :
           e = k.errors + 1 /\ p = IF again THEN "reconnect" ELSE "error"
  BY <1>4
<1>6. PICK r \in ClientRecord : r = [k EXCEPT !.pc = p, !.errors = e, !.retry = again]
  BY DEF ClientRecord, ClientSteps
<1>7. client' = [client EXCEPT ![c] = r]
  BY <1>1, <1>2, <1>3, <1>6, <1>5 DEF SessionInv, SessionTypes
<1>8. /\ r.session = k.session /\ r.conn = k.conn /\ r.cap = k.cap /\ r.next = k.next
      /\ r.token = k.token /\ r.expires = k.expires /\ r.job = k.job /\ r.key = k.key
      /\ r.command = k.command /\ r.errors = k.errors + 1
  BY <1>6, <1>5 DEF ClientRecord
<1>9. r.pc \in {"reconnect", "error"} /\ (r.pc = "reconnect" => k.pc = "waiting")
  <2>1. r.pc = p
    BY <1>6 DEF ClientRecord
  <2>2. p = "reconnect" => k.pc = "waiting"
    BY <1>4, <1>5
  <2> QED BY <1>5, <2>1, <2>2
<1>10. Moves(c, r, {})
  BY <1>2, <1>3, <1>7, DrawsNone DEF Moves, SessionInv, SessionTypes
<1>11. /\ k.pc = "waiting" => k.session # None
       /\ k.session = None => ~k.job
       /\ k.pc = "waiting" \/ k.job => k.key = [session |-> k.session, number |-> k.command]
       /\ k.job => HasJob(k.session, k.key)
  BY <1>1, OwnFacts DEF ClientInv
<1>12. r.errors >= 1 /\ r.errors >= k.errors
  BY <1>4, <1>8
<1>13. Keeps(c, r)
  BY <1>1, <1>8, <1>11, <1>12, <1>9 DEF Keeps, Resumable
<1>14. \A q \in calls \cap calls' : q.client = c => Leaves(c, r, q)
  <2> SUFFICES ASSUME NEW q \in calls, q.client = c PROVE Leaves(c, r, q)
    OBVIOUS
  <2>1. q.kind \in SessionKinds => r.pc = "error"
    BY <1>1, <1>9, OwnFacts
  <2> QED BY <1>1, <1>8, <1>12, <1>9, <2>1 DEF Leaves
<1> QED BY <1>10, <1>13, <1>14, KeepsInv

LEMMA NoticeBrokenInv ==
  ASSUME SessionInv, NEW c \in Clients, NoticeBroken(c)
  PROVE  SessionInv'
<1>1. /\ Waits(c) /\ IoError(c)
      /\ UNCHANGED <<clock, fresh, faults, others, daemon, allows, sessions, conns, jobs, calls>>
  BY DEF NoticeBroken, daemonVars
<1>2. faults' \in Nat
  BY <1>1 DEF SessionInv, SessionTypes
<1> QED BY <1>1, <1>2, IoErrorInv

LEMMA TimeoutInv ==
  ASSUME SessionInv, NEW c \in Clients, Timeout(c)
  PROVE  SessionInv'
<1>1. /\ Waits(c) /\ IoError(c) /\ faults' = faults + 1
      /\ UNCHANGED <<clock, fresh, others, daemon, allows, sessions, conns, jobs, calls>>
  BY DEF Timeout, CountFault, daemonVars
<1>2. faults' \in Nat
  BY <1>1 DEF SessionInv, SessionTypes
<1> QED BY <1>1, <1>2, IoErrorInv

\* The answer the client waits for over its own connection is to the request of its
\* command.
LEMMA JobAnswer ==
  ASSUME SessionInv, NEW c \in Clients, NEW m \in calls, Arrives(c, m)
  PROVE  /\ client[c].pc \in {"opening", "resuming", "waiting"} /\ m.client = c /\ m.conn \in open
         /\ m \in CallRecord /\ CallInv(m)
         /\ client[c].pc = "waiting" =>
               /\ m.conn = client[c].conn /\ m.kind \in JobKinds /\ JobCall(m)
               /\ m.key = client[c].key /\ m.session = client[c].session
         /\ client[c].pc # "waiting" =>
               /\ m.conn = client[c].next /\ m.kind \in SessionKinds /\ SessionCall(m)
               /\ client[c].pc = "opening" => m.kind = "create"
               /\ client[c].pc = "resuming" => m.kind = "resume"
         /\ \A q \in calls \ {m} : q.conn # m.conn
<1>1. /\ client[c].pc \in {"opening", "resuming", "waiting"} /\ m.client = c /\ m.conn \in open
      /\ m \in CallRecord /\ CallInv(m) /\ \A q \in calls \ {m} : q.conn # m.conn
  BY DEF Arrives, Waits, SessionInv, SessionTypes, ApartInv
<1>2. m.kind \in SessionKinds \/ m.kind \in JobKinds
  BY OwnFacts
<1>3. ASSUME client[c].pc = "waiting"
      PROVE  /\ m.conn = client[c].conn /\ m.kind \in JobKinds /\ JobCall(m)
             /\ m.key = client[c].key /\ m.session = client[c].session
  <2>1. m.conn = client[c].conn
    BY <1>3 DEF Arrives, Waiting
  <2>2. m.kind \in JobKinds
    BY <1>1, <1>2, <1>3, OwnFacts
  <2>3. JobCall(m)
    BY <1>1, <2>2 DEF CallInv
  <2>4. client[c].key = [session |-> client[c].session, number |-> client[c].command]
    BY <1>3, OwnFacts DEF ClientInv
  <2> QED BY <1>1, <2>1, <2>2, <2>3, <2>4 DEF JobCall
<1>4. ASSUME client[c].pc # "waiting"
      PROVE  /\ m.conn = client[c].next /\ m.kind \in SessionKinds /\ SessionCall(m)
             /\ client[c].pc = "opening" => m.kind = "create"
             /\ client[c].pc = "resuming" => m.kind = "resume"
  <2>1. m.conn = client[c].next
    BY <1>4 DEF Arrives, Waiting
  <2>2. m.kind \in SessionKinds
    BY <1>1, <1>2, <1>4, <2>1, OwnFacts
  <2>3. SessionCall(m)
    BY <1>1, <2>2 DEF CallInv
  <2>4. /\ client[c].pc = "opening" => client[c].session = None
        /\ client[c].pc = "resuming" => client[c].session # None
    BY OwnFacts DEF ClientInv
  <2> QED BY <1>1, <2>1, <2>2, <2>3, <2>4 DEF SessionCall, SessionKinds
<1> QED BY <1>1, <1>3, <1>4

\* After the answer over its own connection, a client has no request there.
LEMMA OwnLeft ==
  ASSUME SessionInv, NEW c \in Clients, NEW m \in calls, Arrives(c, m), client[c].pc = "waiting",
         NEW r \in ClientRecord, r.conn = client[c].conn, r.pc \notin {"opening", "resuming"},
         calls' = calls \ {m}
  PROVE  \A q \in calls \cap calls' : q.client = c => Leaves(c, r, q)
<1> SUFFICES ASSUME NEW q \in calls \cap calls', q.client = c PROVE Leaves(c, r, q)
  OBVIOUS
<1>1. q \in calls /\ q # m
  OBVIOUS
<1>2. q.kind \notin SessionKinds
  BY <1>1, OwnFacts
<1>3. q.conn # r.conn
  BY <1>1, JobAnswer
<1> QED BY <1>2, <1>3 DEF Leaves

\* submit_and_wait got its job's number: the job of the command is in the registry.
LEMMA SubmittedInv ==
  ASSUME SessionInv, NEW c \in Clients, NEW m \in calls, Submitted(c, m)
  PROVE  SessionInv'
<1>1. /\ client[c].pc = "waiting" /\ m.kind = "submit" /\ m.reply = "ok" /\ Arrives(c, m)
      /\ calls' = calls \ {m}
      /\ client' = [client EXCEPT ![c].pc = "ready", ![c].job = TRUE, ![c].retry = FALSE, ![c].errors = 0]
      /\ UNCHANGED <<clock, fresh, faults, others, daemon, allows, sessions, conns, jobs, open>>
  BY DEF Submitted, Answer, daemonVars
<1>2. PICK k \in ClientRecord : k = client[c]
  BY OwnFacts
<1>3. PICK r \in ClientRecord : r = [k EXCEPT !.pc = "ready", !.job = TRUE, !.retry = FALSE, !.errors = 0]
  BY DEF ClientRecord, ClientSteps
<1>4. client' = [client EXCEPT ![c] = r]
  BY <1>1, <1>2, <1>3 DEF SessionInv, SessionTypes
<1>5. /\ r.pc = "ready" /\ r.session = k.session /\ r.conn = k.conn /\ r.cap = k.cap
      /\ r.token = k.token /\ r.expires = k.expires /\ r.key = k.key
      /\ r.command = k.command /\ r.retry = FALSE
  BY <1>3 DEF ClientRecord
<1>6. Moves(c, r, {})
  BY <1>1, <1>4, DrawsNone DEF Moves, SessionInv, SessionTypes
<1>7. k.session # None /\ k.key = [session |-> k.session, number |-> k.command] /\ k.pc = "waiting"
  BY <1>1, <1>2, OwnFacts DEF ClientInv
<1>8. HasJob(k.session, k.key)
  BY <1>1, <1>2, JobAnswer DEF JobCall
<1>9. Keeps(c, r)
  BY <1>2, <1>5, <1>7, <1>8 DEF Keeps, Resumable
<1>10. \A q \in calls \cap calls' : q.client = c => Leaves(c, r, q)
  BY <1>1, <1>2, <1>5, OwnLeft
<1> QED BY <1>6, <1>9, <1>10, KeepsInv

\* A snapshot arrived.
LEMMA PolledInv ==
  ASSUME SessionInv, NEW c \in Clients, NEW m \in calls, Polled(c, m)
  PROVE  SessionInv'
<1>1. /\ client[c].pc = "waiting" /\ Arrives(c, m) /\ calls' = calls \ {m}
      /\ UNCHANGED <<clock, fresh, faults, others, daemon, allows, sessions, conns, jobs>>
  BY DEF Polled, Answer, daemonVars
<1>2. PICK k \in ClientRecord : k = client[c]
  BY OwnFacts
<1>3. /\ k.session # None /\ k.key = [session |-> k.session, number |-> k.command] /\ k.pc = "waiting"
      /\ k.job => HasJob(k.session, k.key)
  BY <1>1, <1>2, OwnFacts DEF ClientInv
<1>4. ASSUME NEW r \in ClientRecord, client' = [client EXCEPT ![c] = r], open' \subseteq open,
             r.pc \in {"ok", "idle", "ready"}, r.session = k.session, r.conn = k.conn, r.cap = k.cap,
             r.token = k.token, r.expires = k.expires,
             r.pc = "idle" => ~r.job,
             r.pc # "idle" => r.job = k.job /\ r.key = k.key /\ r.command = k.command,
             r.pc = "ready" => ~r.retry
      PROVE  SessionInv'
  <2>1. Moves(c, r, {})
    BY <1>1, <1>4, DrawsNone DEF Moves, SessionInv, SessionTypes
  <2>2. Keeps(c, r)
    BY <1>2, <1>3, <1>4 DEF Keeps, Resumable
  <2>3. \A q \in calls \cap calls' : q.client = c => Leaves(c, r, q)
    BY <1>1, <1>2, <1>4, OwnLeft
  <2> QED BY <2>1, <2>2, <2>3, KeepsInv
<1>5. CASE m.reply \in EndStates /\ client[c].command = NumCommands
  <2>1. client' = [client EXCEPT ![c].pc = "ok"] /\ open' \subseteq open
    BY <1>5 DEF Polled, Goes
  <2>2. PICK r \in ClientRecord : r = [k EXCEPT !.pc = "ok"]
    BY DEF ClientRecord, ClientSteps
  <2>3. client' = [client EXCEPT ![c] = r]
    BY <1>2, <2>1, <2>2 DEF SessionInv, SessionTypes
  <2>4. /\ r.pc = "ok" /\ r.session = k.session /\ r.conn = k.conn /\ r.cap = k.cap
        /\ r.token = k.token /\ r.expires = k.expires /\ r.key = k.key /\ r.job = k.job
        /\ r.command = k.command
    BY <2>2 DEF ClientRecord
  <2> QED BY <1>4, <2>1, <2>3, <2>4
<1>6. CASE m.reply \in EndStates /\ client[c].command # NumCommands
  <2>1. /\ client' = [client EXCEPT ![c].pc = "idle", ![c].command = @ + 1, ![c].job = FALSE]
        /\ open' \subseteq open
    BY <1>6 DEF Polled
  <2>2. PICK n \in Nat : n = k.command + 1
    BY DEF ClientRecord
  <2>3. PICK r \in ClientRecord : r = [k EXCEPT !.pc = "idle", !.command = n, !.job = FALSE]
    BY DEF ClientRecord, ClientSteps
  <2>4. client' = [client EXCEPT ![c] = r]
    BY <1>2, <2>1, <2>2, <2>3 DEF SessionInv, SessionTypes
  <2>5. /\ r.pc = "idle" /\ r.session = k.session /\ r.conn = k.conn /\ r.cap = k.cap
        /\ r.token = k.token /\ r.expires = k.expires /\ r.job = FALSE
    BY <2>3 DEF ClientRecord
  <2> QED BY <1>4, <2>1, <2>4, <2>5
<1>7. CASE m.reply \notin EndStates
  <2>1. /\ client' = [client EXCEPT ![c].pc = "ready", ![c].retry = FALSE, ![c].errors = 0]
        /\ open' \subseteq open
    BY <1>7 DEF Polled
  <2>2. PICK r \in ClientRecord : r = [k EXCEPT !.pc = "ready", !.retry = FALSE, !.errors = 0]
    BY DEF ClientRecord, ClientSteps
  <2>3. client' = [client EXCEPT ![c] = r]
    BY <1>2, <2>1, <2>2 DEF SessionInv, SessionTypes
  <2>4. /\ r.pc = "ready" /\ r.session = k.session /\ r.conn = k.conn /\ r.cap = k.cap
        /\ r.token = k.token /\ r.expires = k.expires /\ r.key = k.key /\ r.job = k.job
        /\ r.command = k.command /\ r.retry = FALSE
    BY <2>2 DEF ClientRecord
  <2> QED BY <1>4, <2>1, <2>3, <2>4
<1> QED BY <1>5, <1>6, <1>7

\* An error was answered.
LEMMA RefusedClientInv ==
  ASSUME SessionInv, NEW c \in Clients, NEW m \in calls, Refused(c, m)
  PROVE  SessionInv'
<1>1. /\ Arrives(c, m) /\ calls' = calls \ {m}
      /\ UNCHANGED <<clock, fresh, faults, others, daemon, allows, sessions, conns, jobs>>
  BY DEF Refused, Answer, daemonVars
<1>2. PICK k \in ClientRecord : k = client[c]
  BY OwnFacts
<1>3. /\ k.session = None => ~k.job
      /\ k.pc = "waiting" => k.session # None
      /\ k.pc = "waiting" \/ k.job => k.key = [session |-> k.session, number |-> k.command]
      /\ k.job => HasJob(k.session, k.key)
  BY <1>1, <1>2, OwnFacts DEF ClientInv
<1>4. CASE client[c].pc = "waiting" /\ ~client[c].retry /\ m.reply \in PermissionDenied /\ Expired(c)
  <2>1. client' = [client EXCEPT ![c].pc = "reconnect", ![c].retry = TRUE] /\ open' = open
    BY <1>4 DEF Refused
  <2>2. PICK r \in ClientRecord : r = [k EXCEPT !.pc = "reconnect", !.retry = TRUE]
    BY DEF ClientRecord, ClientSteps
  <2>3. client' = [client EXCEPT ![c] = r]
    BY <1>2, <2>1, <2>2 DEF SessionInv, SessionTypes
  <2>4. /\ r.pc = "reconnect" /\ r.session = k.session /\ r.conn = k.conn /\ r.cap = k.cap
        /\ r.token = k.token /\ r.expires = k.expires /\ r.key = k.key /\ r.job = k.job
        /\ r.command = k.command
    BY <2>2 DEF ClientRecord
  <2>5. Moves(c, r, {})
    BY <1>1, <2>1, <2>3, DrawsNone DEF Moves, SessionInv, SessionTypes
  <2>6. k.expires <= clock
    <3>1. k.expires \in Nat /\ clock \in Nat
      BY DEF ClientRecord, SessionInv, SessionTypes
    <3> QED BY <1>2, <1>4, <3>1 DEF Expired
  <2>7. Keeps(c, r)
    BY <1>2, <1>3, <1>4, <2>4, <2>6 DEF Keeps, Resumable
  <2>8. \A q \in calls \cap calls' : q.client = c => Leaves(c, r, q)
    BY <1>1, <1>2, <1>4, <2>4, OwnLeft
  <2> QED BY <2>5, <2>7, <2>8, KeepsInv
<1>5. CASE ~(client[c].pc = "waiting" /\ ~client[c].retry /\ m.reply \in PermissionDenied /\ Expired(c))
  <2>1. client' = [client EXCEPT ![c].pc = "error"] /\ open' \subseteq open
    BY <1>5 DEF Refused, Goes
  <2>2. PICK r \in ClientRecord : r = [k EXCEPT !.pc = "error"]
    BY DEF ClientRecord, ClientSteps
  <2>3. client' = [client EXCEPT ![c] = r]
    BY <1>2, <2>1, <2>2 DEF SessionInv, SessionTypes
  <2>4. /\ r.pc = "error" /\ r.session = k.session /\ r.conn = k.conn /\ r.cap = k.cap /\ r.next = k.next
        /\ r.token = k.token /\ r.expires = k.expires /\ r.key = k.key /\ r.job = k.job
        /\ r.command = k.command /\ r.errors = k.errors /\ k.errors \in Nat
    BY <2>2 DEF ClientRecord
  <2>5. Moves(c, r, {})
    BY <1>1, <2>1, <2>3, DrawsNone DEF Moves, SessionInv, SessionTypes
  <2>6. Keeps(c, r)
    BY <1>2, <1>3, <2>4 DEF Keeps, Resumable
  <2>7. r.errors >= k.errors
    BY <2>4
  <2>8. \A q \in calls \cap calls' : q.client = c => Leaves(c, r, q)
    BY <1>2, <2>4, <2>7 DEF Leaves
  <2> QED BY <2>5, <2>6, <2>8, KeepsInv
<1> QED BY <1>4, <1>5

\* Capabilities were granted to a client that had no session.
LEMMA OpenedInv ==
  ASSUME SessionInv, NEW c \in Clients, NEW m \in calls, Opened(c, m)
  PROVE  SessionInv'
<1>1. /\ client[c].pc = "opening" /\ m.reply = "ok" /\ Arrives(c, m) /\ calls' = calls \ {m}
      /\ client' = [client EXCEPT ![c] = Granted(c, m, "idle")]
      /\ UNCHANGED <<clock, fresh, faults, others, daemon, allows, sessions, conns, jobs, open>>
  BY DEF Opened, Answer, daemonVars
<1>2. PICK k \in ClientRecord : k = client[c]
  BY OwnFacts
<1>3. /\ m \in CallRecord /\ m.client = c /\ m.kind = "create" /\ m.kind \in SessionKinds
      /\ m.conn = k.next /\ SessionCall(m) /\ m.conn \in open /\ m.conn \in Drawn
      /\ \A q \in calls \ {m} : q.conn # m.conn
  BY <1>1, <1>2, JobAnswer, OwnFacts
<1>4. PICK r \in ClientRecord : r = Granted(c, m, "idle")
  BY <1>2, <1>3 DEF Granted, ClientRecord, CallRecord, ClientSteps, None
<1>5. /\ r.pc = "idle" /\ r.conn = m.conn /\ r.session = m.session /\ r.cap = m.cap /\ r.token = m.token
      /\ r.expires = m.expires /\ r.job = k.job /\ r.key = k.key /\ r.command = k.command
  BY <1>2, <1>4 DEF Granted, ClientRecord
<1>6. client' = [client EXCEPT ![c] = r] /\ client'[c] = r
  BY <1>1, <1>4 DEF SessionInv, SessionTypes
<1>7. /\ m.session \in Drawn /\ m.token < fresh
      /\ Held(m.session, m.token, m.expires) /\ Exact(m.session, m.token, m.expires)
      /\ Served(m.conn, m.cap, m.expires)
      /\ \A d \in Clients : client[d].session # m.session
  BY <1>1, <1>3 DEF SessionCall
<1>8. k.session = None /\ ~k.job
  BY <1>1, <1>2, OwnFacts DEF ClientInv
<1>9. Moves(c, r, {})
  BY <1>1, <1>6, DrawsNone DEF Moves, SessionInv, SessionTypes
<1>10. m.session < fresh /\ m.conn < fresh /\ m.session # None /\ m.conn # None
  BY <1>3, <1>7 DEF Drawn, None, SessionInv, SessionTypes
<1>11. ClientInv(c)'
  <2>1. Held(m.session, m.token, m.expires)' /\ Exact(m.session, m.token, m.expires)'
        /\ Served(m.conn, m.cap, m.expires)'
    BY <1>1, <1>7 DEF Held, Exact, Served
  <2>2. fresh' = fresh
    BY <1>1
  <2> QED BY <1>5, <1>6, <1>7, <1>8, <1>10, <2>1, <2>2 DEF ClientInv
<1>12. Own(c, r)
  <2>1. \A d \in Clients : client[d].conn # m.conn
    BY <1>3 DEF SessionInv, ApartInv, SessionKinds, JobKinds
  <2>2. \A a \in conns : a.conn = m.conn => a.session = m.session
    BY DEF SessionInv, ConnInv
  <2>3. \A q \in calls \cap calls' : q # m
    BY <1>1
  <2>4. \A q \in calls \cap calls' : q.kind = "create" /\ q.reply = "ok" => q.session # m.session
    BY <1>1, <1>3, <2>3 DEF SessionInv, ApartInv
  <2> QED BY <1>2, <1>3, <1>5, <1>7, <1>8, <2>1, <2>2, <2>3, <2>4 DEF Own
<1>13. \A q \in calls \cap calls' : q.client # c
  <2> SUFFICES ASSUME NEW q \in calls, q # m, q.client = c PROVE FALSE
    BY <1>1
  <2>1. q.kind \in SessionKinds
    BY <1>2, <1>8, OwnFacts
  <2>2. q.conn = m.conn
    BY <1>2, <1>3, <2>1, OwnFacts
  <2> QED BY <1>3, <2>2
<1> QED BY <1>9, <1>11, <1>12, <1>13, MovesInv

\* The session was resumed: it is the one the client had, and the request goes out again
\* over the new connection.
LEMMA ResumedInv ==
  ASSUME SessionInv, NEW c \in Clients, NEW m \in calls, Resumed(c, m)
  PROVE  ResumedSessionKept(c, m) /\ SessionInv'
<1>1. /\ client[c].pc = "resuming" /\ m.reply = "ok" /\ Arrives(c, m)
      /\ UNCHANGED <<clock, fresh, faults, others, daemon, allows, sessions, conns, jobs>>
  BY DEF Resumed, daemonVars
<1>2. PICK k \in ClientRecord : k = client[c]
  BY OwnFacts
<1>3. /\ m \in CallRecord /\ m.client = c /\ m.kind = "resume" /\ m.kind \in SessionKinds
      /\ m.conn = k.next /\ SessionCall(m) /\ m.conn \in open /\ m.conn \in Drawn
      /\ \A q \in calls \ {m} : q.conn # m.conn
  BY <1>1, <1>2, JobAnswer, OwnFacts
<1>4. /\ m.session = k.session /\ m.session \in Drawn /\ m.token < fresh
      /\ Held(m.session, m.token, m.expires) /\ Exact(m.session, m.token, m.expires)
      /\ Served(m.conn, m.cap, m.expires) /\ k.errors >= 1
  BY <1>1, <1>2, <1>3 DEF SessionCall
<1>5. ResumedSessionKept(c, m)
  BY <1>2, <1>4 DEF ResumedSessionKept
<1>6. /\ client' = [client EXCEPT ![c] = Granted(c, m, "waiting")]
      /\ calls' = (calls \ {m}) \cup {[Call(c, m.conn, Method(c)) EXCEPT !.cap = m.cap, !.token = m.token]}
      /\ open' \subseteq open
  BY <1>5 DEF Resumed, Resent
<1>7. PICK r \in ClientRecord : r = Granted(c, m, "waiting")
  BY <1>2, <1>3 DEF Granted, ClientRecord, CallRecord, ClientSteps, None
<1>8. /\ r.pc = "waiting" /\ r.conn = m.conn /\ r.session = m.session /\ r.cap = m.cap /\ r.token = m.token
      /\ r.expires = m.expires /\ r.job = k.job /\ r.key = k.key /\ r.command = k.command
      /\ r.errors = k.errors /\ r.retry = k.retry
  BY <1>2, <1>7 DEF Granted, ClientRecord
<1>9. client' = [client EXCEPT ![c] = r] /\ client'[c] = r
  BY <1>6, <1>7 DEF SessionInv, SessionTypes
<1>10. /\ k.session # None /\ k.key = [session |-> k.session, number |-> k.command]
       /\ k.job => HasJob(k.session, k.key)
  BY <1>1, <1>2, OwnFacts DEF ClientInv
<1>11. Method(c) \in JobKinds /\ Method(c) \notin SessionKinds /\ (Method(c) = "status" => k.job)
  BY <1>2 DEF Method, JobKinds, SessionKinds
<1>12. Call(c, m.conn, Method(c)) \in CallRecord
  BY <1>2, <1>3, <1>11 DEF Call, CallRecord, ClientRecord, Replies, Errors
<1>13. PICK n \in CallRecord : n = [Call(c, m.conn, Method(c)) EXCEPT !.cap = m.cap, !.token = m.token]
  BY <1>3, <1>12 DEF CallRecord
<1>14. /\ n.client = c /\ n.conn = m.conn /\ n.kind = Method(c) /\ n.step = "sent" /\ n.now = 0
       /\ n.by[1] = c /\ n.by[2] = k.command /\ n.reply = "none" /\ n.session = k.session
       /\ n.key = k.key /\ n.cap = m.cap
  BY <1>2, <1>13 DEF Call
<1>15. Moves(c, r, {n})
  BY <1>1, <1>6, <1>9, <1>13, DrawsNone DEF Moves, SessionInv, SessionTypes
<1>16. m.session < fresh /\ m.conn < fresh /\ m.session # None /\ m.conn # None
  BY <1>3, <1>4 DEF Drawn, None, SessionInv, SessionTypes
<1>17. /\ Held(m.session, m.token, m.expires)' /\ Exact(m.session, m.token, m.expires)'
       /\ Served(m.conn, m.cap, m.expires)' /\ fresh' = fresh /\ clock' = clock
       /\ k.job => HasJob(k.session, k.key)'
  BY <1>1, <1>4, <1>10 DEF Held, Exact, Served, HasJob
<1>18. ClientInv(c)'
  BY <1>4, <1>8, <1>9, <1>10, <1>16, <1>17 DEF ClientInv
<1>19. \A d \in Clients : client[d].conn # m.conn
  BY <1>3 DEF SessionInv, ApartInv, SessionKinds, JobKinds
<1>20. \A a \in conns : a.conn = m.conn => a.session = m.session
  BY DEF SessionInv, ConnInv
<1>21. \A q \in calls \cap calls' : q.conn # m.conn
  <2>1. \A q \in calls \cap calls' : q = n \/ q \in calls \ {m}
    BY <1>6, <1>13
  <2>2. n # m
    BY <1>3, <1>11, <1>14
  <2> QED BY <1>3, <1>14, <2>1, <2>2
<1>22. Own(c, r)
  <2>1. \A d \in Clients \ {c} : client[d].session # k.session
    BY <1>2, <1>10 DEF SessionInv, ApartInv
  <2>2. \A q \in calls \cap calls' : q.kind = "create" /\ q.reply = "ok" => q.session # k.session
    BY <1>2 DEF SessionInv, CallInv, SessionCall, SessionKinds
  <2> QED BY <1>2, <1>4, <1>8, <1>19, <1>20, <1>21, <2>1, <2>2 DEF Own
<1>23. JobCall(n)'
  BY <1>4, <1>8, <1>9, <1>10, <1>11, <1>14, <1>17 DEF JobCall
<1>24. CallInv(n)'
  <2>1. n.conn \in Drawn' /\ n.now <= clock'
    BY <1>3, <1>14, <1>17 DEF Drawn, SessionInv, SessionTypes
  <2> QED BY <1>11, <1>14, <1>23, <2>1 DEF CallInv
<1>25. Sent(c, r, n)
  BY <1>4, <1>11, <1>14, <1>19, <1>20, <1>21, <1>24 DEF Sent
<1>26. ASSUME NEW q \in calls \cap calls', q.client = c PROVE CallInv(q)'
  <2>1. q \in calls /\ CallInv(q) /\ q \in CallRecord /\ q.conn # m.conn
    BY <1>21 DEF SessionInv, SessionTypes
  <2>2. q.kind \in JobKinds /\ q.kind \notin SessionKinds
    BY <1>2, <1>3, <1>26, <2>1, OwnFacts
  <2>3. JobCall(q)
    BY <2>1, <2>2 DEF CallInv
  <2>4. HasJob(q.session, q.key) => HasJob(q.session, q.key)'
    BY <1>1 DEF HasJob
  <2>5. /\ k.session # None /\ q.session = k.session
        /\ q.key = [session |-> k.session, number |-> q.by[2]]
        /\ q.kind = "status" \/ q.reply = "ok" => HasJob(q.session, q.key)
        /\ q.reply # "not_found"
    BY <1>2, <1>26, <2>3 DEF JobCall
  <2>6. JobCall(q)'
    BY <1>4, <1>8, <1>9, <1>26, <2>1, <2>4, <2>5 DEF JobCall
  <2>7. q.conn \in Drawn' /\ q.now <= clock' /\ daemon' = daemon
    BY <1>1, <2>1 DEF CallInv, Drawn
  <2> QED BY <2>1, <2>2, <2>6, <2>7 DEF CallInv
<1>27. \A p, x \in {n} : p = x
  OBVIOUS
<1>28. \A x \in {n} : Sent(c, r, x)
  BY <1>25
<1>29. {n} \in SUBSET CallRecord
  OBVIOUS
<1>30. SessionInv'
  BY <1>15, <1>18, <1>22, <1>26, <1>27, <1>28, <1>29, MovesInv
<1> QED BY <1>5, <1>30

-----------------------------------------------------------------------------
(* The theorems.                                                           *)

LEMMA InitInv == Init => SessionInv
<1> SUFFICES ASSUME Init PROVE SessionInv
  OBVIOUS
<1> DEFINE k == [pc |-> "start", conn |-> None, next |-> None, session |-> None, cap |-> None,
                 token |-> None, expires |-> 0, command |-> 1, key |-> [session |-> None, number |-> 0],
                 job |-> FALSE, retry |-> FALSE, errors |-> 0]
<1>1. /\ clock = 1 /\ fresh = 1 /\ faults = 0 /\ others = 0 /\ daemon = "up"
      /\ sessions = {} /\ conns = {} /\ open = {} /\ calls = {} /\ jobs = {}
      /\ client = [c \in Clients |-> k]
  BY DEF Init
<1>2. k \in ClientRecord
  BY DEF ClientRecord, KeyRecord, ClientSteps, None
<1>3. /\ k.pc = "start" /\ k.session = None /\ k.conn = None /\ k.token = None /\ k.job = FALSE
  OBVIOUS
<1> HIDE DEF k
<1>4. \A c \in Clients : client[c] = k
  BY <1>1
<1>5. SessionTypes
  BY <1>1, <1>2, ClientSessionAssumption DEF SessionTypes
<1>6. \A c \in Clients : ClientInv(c)
  BY <1>1, <1>3, <1>4 DEF ClientInv, None
<1>7. ApartInv /\ DownInv
  BY <1>1, <1>3, <1>4 DEF ApartInv, DownInv
<1> QED BY <1>1, <1>5, <1>6, <1>7 DEF SessionInv

LEMMA NextInv == SessionInv /\ [Next]_vars => SessionInv'
<1> SUFFICES ASSUME SessionInv, [Next]_vars PROVE SessionInv'
  OBVIOUS
<1>1. ASSUME NEW c \in Clients, ClientStep(c) PROVE SessionInv'
  BY <1>1, ConnectInv, ConnectFailsInv, StartCommandInv, FirstAttemptInv, ReconnectInv, NoticeBrokenInv,
     OpenedInv, ResumedInv, SubmittedInv, PolledInv, RefusedClientInv DEF ClientStep
<1>2. ASSUME NEW c \in Clients, Timeout(c) PROVE SessionInv'
  BY <1>2, TimeoutInv
<1>3. CASE DaemonStep
  BY <1>3, RefusalsInv, OpenSessionInv, DenyInv, AdmitInv, ReplayInv, SubmitInv, StatusInv, CreateInv, ResumeInv
     DEF DaemonStep
<1>4. CASE OtherCreates
  BY <1>4, OtherCreatesInv
<1>5. CASE \E a \in conns : Disconnect(a)
  BY <1>5, DisconnectInv
<1>6. CASE \E conn \in open : Break(conn)
  BY <1>6, BreakInv
<1>7. CASE Crash
  BY <1>7, CrashInv
<1>8. CASE \E allowed \in BOOLEAN : Restart(allowed)
  BY <1>8, RestartInv
<1>9. CASE \E job \in jobs : JobEnds(job)
  BY <1>9, JobEndsInv
<1>10. CASE Tick
  BY <1>10, TickInv
<1>11. CASE UNCHANGED vars
  BY <1>11, StutterInv
<1> QED BY <1>1, <1>2, <1>3, <1>4, <1>5, <1>6, <1>7, <1>8, <1>9, <1>10, <1>11 DEF Next

\* The inductive invariant: what clients, requests, connections, stored sessions and jobs
\* know of each other.
THEOREM SessionInvariant == Spec => []SessionInv
<1>1. Init => SessionInv
  BY InitInv
<1>2. SessionInv /\ [Next]_vars => SessionInv'
  BY NextInv
<1> QED BY <1>1, <1>2, PTL DEF Spec

\* Repeating a submission over other connections, after late answers, crashes and restarts
\* makes no second job for a command, and a client polls the job of its own command: the
\* idempotency key names the session, which reconnect keeps, and a counter of the client.
THEOREM OneJobEach == Spec => []OneJobPerCommand
<1>1. SessionInv => OneJobPerCommand
  <2> SUFFICES ASSUME SessionInv PROVE OneJobPerCommand
    OBVIOUS
  <2>1. ASSUME NEW i \in jobs, NEW j \in jobs, i.by = j.by PROVE i = j
    <3>1. JobInv(i) /\ JobInv(j)
      BY DEF SessionInv
    <3>2. i.owner = j.owner /\ i.key = j.key
      BY <2>1, <3>1 DEF JobInv
    <3> QED BY <3>2 DEF SessionInv, ApartInv
  <2>2. ASSUME NEW c \in Clients, client[c].job
        PROVE  \E job \in jobs : /\ job.by = <<c, client[c].command>>
                                 /\ job.owner = client[c].session /\ job.key = client[c].key
    <3>1. /\ client[c].session # None /\ client[c] \in ClientRecord
          /\ client[c].key = [session |-> client[c].session, number |-> client[c].command]
          /\ HasJob(client[c].session, client[c].key)
      BY <2>2, OwnFacts DEF ClientInv
    <3>2. PICK job \in jobs : job.owner = client[c].session /\ job.key = client[c].key
      BY <3>1 DEF HasJob
    <3>3. JobInv(job) /\ job \in JobRecord
      BY DEF SessionInv, SessionTypes
    <3>4. job.by \in Clients \X Nat
      BY <3>3 DEF JobRecord
    <3>5. PICK d \in Clients, n \in Nat : job.by = <<d, n>>
      BY <3>4
    <3>6. client[d].session = client[c].session
      BY <3>2, <3>3, <3>5 DEF JobInv
    <3>7. d = c
      BY <3>1, <3>6 DEF SessionInv, ApartInv
    <3>8. job.key = [session |-> client[c].session, number |-> n]
      BY <3>3, <3>5, <3>7 DEF JobInv
    <3>9. job.key.number = n /\ client[c].key.number = client[c].command
      BY <3>1, <3>8
    <3> QED BY <3>2, <3>5, <3>7, <3>9
  <2> QED BY <2>1, <2>2 DEF OneJobPerCommand
<1> QED BY <1>1, SessionInvariant, PTL

\* Between two connects a client whose session has not expired holds the token the
\* registry has, whatever answers were lost and whichever sessions were pruned.
THEOREM TokenResumes == Spec => []CanResume
<1>1. SessionInv => CanResume
  <2> SUFFICES ASSUME SessionInv, NEW c \in Clients,
                      client[c].pc \in {"idle", "ready", "waiting", "reconnect"}, ~Expired(c)
               PROVE  \E s \in sessions : s.session = client[c].session /\ s.token = client[c].token
    BY DEF CanResume
  <2>1. Held(client[c].session, client[c].token, client[c].expires)
    BY OwnFacts DEF ClientInv
  <2>2. client[c].expires \in Nat /\ clock \in Nat
    BY OwnFacts DEF ClientRecord, SessionInv, SessionTypes
  <2>3. ~(client[c].expires <= clock)
    BY <2>2 DEF Expired
  <2> QED BY <2>1, <2>3 DEF Held
<1> QED BY <1>1, SessionInvariant, PTL

-----------------------------------------------------------------------------
(* Why a client fails.                                                     *)

\* The other clients do not move.
LEMMA OthersStay ==
  ASSUME SessionInv, NEW c \in Clients, NEW d \in Clients, c # d, ClientStep(d) \/ Timeout(d)
  PROVE  client'[c] = client[c]
<1>1. client \in [Clients -> ClientRecord]
  BY DEF SessionInv, SessionTypes
<1>2. CASE \/ Connect(d) \/ ConnectFails(d) \/ StartCommand(d) \/ FirstAttempt(d) \/ Reconnect(d)
  BY <1>1, <1>2 DEF Connect, ConnectFails, StartCommand, FirstAttempt, Reconnect, Goes
<1>3. CASE NoticeBroken(d) \/ Timeout(d)
  BY <1>1, <1>3 DEF NoticeBroken, Timeout, IoError
<1>4. ASSUME NEW m \in calls, \/ Opened(d, m) \/ Resumed(d, m) \/ Submitted(d, m) \/ Polled(d, m) \/ Refused(d, m)
      PROVE  client'[c] = client[c]
  BY <1>1, <1>4 DEF Opened, Resumed, Submitted, Polled, Refused, Goes
<1> QED BY <1>2, <1>3, <1>4 DEF ClientStep

\* The causes the code has for giving up.
Cause(c) ==
    client'[c].errors >= 2 \/ Expired(c) \/ daemon # "up" \/ ~allows \/ TurnedAway(c)

LEMMA IoErrorCause ==
  ASSUME SessionInv, NEW c \in Clients, Waits(c), IoError(c), client'[c].pc = "error",
         client[c].session # None
  PROVE  Cause(c)
<1>1. PICK k \in ClientRecord : k = client[c]
  BY OwnFacts
<1>2. /\ k.pc \in {"opening", "resuming", "waiting"} /\ k.errors \in Nat /\ k.expires \in Nat
      /\ clock \in Nat /\ k.retry \in BOOLEAN
  BY <1>1 DEF Waits, ClientRecord, SessionInv, SessionTypes
<1>3. client'[c].errors = k.errors + 1
  BY <1>1 DEF IoError, SessionInv, SessionTypes, ClientRecord
<1>4. k.pc = "waiting" => k.retry
  <2>1. ASSUME k.pc = "waiting", ~k.retry PROVE FALSE
    <3>1. client'[c].pc = "reconnect"
      BY <1>1, <2>1 DEF IoError, SessionInv, SessionTypes, ClientRecord
    <3> QED BY <3>1
  <2> QED BY <1>2, <2>1
<1>5. k.pc # "opening"
  BY <1>1, OwnFacts DEF ClientInv
<1>6. k.errors >= 1 \/ k.expires <= clock
  BY <1>1, <1>2, <1>4, <1>5, OwnFacts DEF ClientInv
<1>7. k.errors + 1 >= 2 \/ clock >= k.expires
  BY <1>2, <1>6
<1> QED BY <1>1, <1>3, <1>7 DEF Cause, Expired

LEMMA RefusedCause ==
  ASSUME SessionInv, NEW c \in Clients, NEW m \in calls, Refused(c, m), client[c].session # None
  PROVE  Cause(c)
<1>1. Arrives(c, m) /\ m.reply \in Errors
  BY DEF Refused, Answer
<1>2. /\ client[c].pc \in {"opening", "resuming", "waiting"} /\ CallInv(m) /\ m.client = c
      /\ client[c].pc = "waiting" => m.conn = client[c].conn /\ m.kind \in JobKinds /\ JobCall(m)
      /\ client[c].pc # "waiting" => SessionCall(m) /\ (client[c].pc = "resuming" => m.kind = "resume")
  BY <1>1, JobAnswer
<1>3. client[c].pc # "opening"
  BY OwnFacts DEF ClientInv
<1>4. m.reply # "not_found"
  BY <1>1, <1>2, <1>3 DEF JobCall, SessionCall
<1>5. /\ m.reply = "internal" => daemon # "up"
      /\ m.reply \in {"limit", "forbidden", "invalid", "conflict"} => TurnedAway(c)
  BY <1>1, <1>2 DEF CallInv, TurnedAway
<1>6. m.reply = "denied" => ~allows \/ client[c].expires <= clock
  BY <1>2, <1>3 DEF JobCall, SessionCall
<1>7. client[c].expires <= clock => Expired(c)
  <2>1. client[c].expires \in Nat /\ clock \in Nat
    BY OwnFacts DEF ClientRecord, SessionInv, SessionTypes
  <2> QED BY <2>1 DEF Expired
<1> QED BY <1>1, <1>4, <1>5, <1>6, <1>7 DEF Cause, Errors

LEMMA NextCause ==
  ASSUME SessionInv, [Next]_vars, NEW c \in Clients,
         client[c].pc # "error", client'[c].pc = "error", client[c].session # None
  PROVE  Cause(c)
<1>1. client \in [Clients -> ClientRecord]
  BY DEF SessionInv, SessionTypes
<1>2. \E d \in Clients : ClientStep(d) \/ Timeout(d)
  <2>1. client' # client
    OBVIOUS
  <2>2. ~DaemonStep
    BY <2>1 DEF DaemonStep, RefuseDegraded, RefuseRate, OpenSession, Deny, Admit, TurnAway, Replay, Conflict,
        Submit, SubmitTooLate, Status, Create, Resume
  <2>3. ~OtherCreates /\ ~Crash /\ ~Tick /\ ~UNCHANGED vars
    BY <2>1 DEF OtherCreates, Crash, Tick, vars
  <2>4. /\ ~\E a \in conns : Disconnect(a)
        /\ ~\E conn \in open : Break(conn)
        /\ ~\E allowed \in BOOLEAN : Restart(allowed)
        /\ ~\E job \in jobs : JobEnds(job)
    BY <2>1 DEF Disconnect, Break, Restart, JobEnds
  <2> QED BY <2>2, <2>3, <2>4 DEF Next
<1>3. ClientStep(c) \/ Timeout(c)
  BY <1>2, OthersStay
<1>4. CASE NoticeBroken(c) \/ Timeout(c)
  BY <1>4, IoErrorCause DEF NoticeBroken, Timeout
<1>5. CASE ConnectFails(c)
  BY <1>5 DEF ConnectFails, Cause
<1>6. CASE \/ Connect(c) \/ StartCommand(c) \/ FirstAttempt(c) \/ Reconnect(c)
  <2>1. client'[c].pc \in {"opening", "ready", "waiting", "reconnect", "resuming"}
    <3>1. CASE Connect(c) \/ Reconnect(c)
      BY <1>1, <3>1 DEF Connect, Reconnect, ClientRecord
    <3>2. CASE StartCommand(c)
      BY <1>1, <3>2 DEF StartCommand, ClientRecord
    <3>3. CASE FirstAttempt(c)
      <4>1. CASE Expired(c)
        BY <1>1, <3>3, <4>1 DEF FirstAttempt, ClientRecord
      <4>2. CASE ~Expired(c)
        BY <1>1, <3>3, <4>2 DEF FirstAttempt, Goes, ClientRecord
      <4> QED BY <4>1, <4>2
    <3> QED BY <1>6, <3>1, <3>2, <3>3
  <2> QED BY <2>1
<1>7. ASSUME NEW m \in calls, Opened(c, m) \/ Submitted(c, m) PROVE Cause(c)
  <2>1. client'[c].pc \in {"idle", "ready"}
    <3>1. CASE Submitted(c, m)
      BY <1>1, <3>1 DEF Submitted, ClientRecord
    <3>2. CASE Opened(c, m)
      <4>1. client'[c] = Granted(c, m, "idle")
        BY <1>1, <3>2 DEF Opened
      <4> QED BY <1>1, <4>1 DEF Granted, ClientRecord
    <3> QED BY <1>7, <3>1, <3>2
  <2> QED BY <2>1
<1>8. ASSUME NEW m \in calls, Resumed(c, m) PROVE Cause(c)
  <2>1. client'[c] = Granted(c, m, "waiting")
    BY <1>1, <1>8, ResumedInv DEF Resumed
  <2>2. client'[c].pc = "waiting"
    BY <1>1, <2>1 DEF Granted, ClientRecord
  <2> QED BY <2>2
<1>9. ASSUME NEW m \in calls, Polled(c, m) PROVE Cause(c)
  <2>1. client'[c].pc \in {"ok", "idle", "ready"}
    BY <1>1, <1>9 DEF Polled, Goes, ClientRecord
  <2> QED BY <2>1
<1>10. ASSUME NEW m \in calls, Refused(c, m) PROVE Cause(c)
  BY <1>10, RefusedCause
<1> QED BY <1>3, <1>4, <1>5, <1>6, <1>7, <1>8, <1>9, <1>10 DEF ClientStep

\* A request survives one broken connection or one restart: a client that has a session
\* gives up only after two transport errors of one request, with an expired session,
\* when the daemon is down, has failed closed or no longer admits its scope, or when the
\* daemon answers that it cannot take the request.
THEOREM FailuresHaveCauses == Spec => FailsWithCause
<1>1. SessionInv /\ [Next]_vars =>
        [\A c \in Clients :
           client[c].pc # "error" /\ client'[c].pc = "error" /\ client[c].session # None =>
              \/ client'[c].errors >= 2 \/ Expired(c)
              \/ daemon # "up" \/ ~allows
              \/ TurnedAway(c)]_vars
  BY NextCause DEF Cause
<1> QED BY <1>1, SessionInvariant, PTL DEF Spec, FailsWithCause
-----------------------------------------------------------------------------
(* The limit of the session registry.                                      *)

RegistryBounded == IsFiniteSet(sessions) /\ Cardinality(sessions) <= MaxSessions

\* Every set of sessions a step may store.
Within(next) == IsFiniteSet(next) /\ Cardinality(next) <= MaxSessions

LEMMA FewerWithin ==
  ASSUME RegistryBounded, NEW T \in SUBSET sessions
  PROVE  Within(T)
<1>1. IsFiniteSet(T) /\ Cardinality(T) <= Cardinality(sessions)
  BY FS_Subset DEF RegistryBounded
<1>2. Cardinality(T) \in Nat /\ Cardinality(sessions) \in Nat
  BY <1>1, FS_CardinalityType DEF RegistryBounded
<1> QED BY <1>1, <1>2, ClientSessionAssumption DEF RegistryBounded, Within

\* What is left after pruning is below the limit, so one more session fits.
LEMMA CreatedWithin ==
  ASSUME RegistryBounded, NEW now, ~Full(now), NEW s
  PROVE  Within(Pruned(now) \cup {s})
<1> DEFINE P == Pruned(now)
<1>1. P \in SUBSET sessions
  BY DEF Pruned
<1>2. Within(P)
  BY <1>1, FewerWithin
<1>3. ~(Cardinality(P) >= MaxSessions)
  BY DEF Full
<1> HIDE DEF P
<1>4. IsFiniteSet(P) /\ Cardinality(P) \in Nat
  BY <1>2, FS_CardinalityType DEF Within
<1>5. /\ IsFiniteSet(P \cup {s})
      /\ Cardinality(P \cup {s}) = IF s \in P THEN Cardinality(P) ELSE Cardinality(P) + 1
  BY <1>4, FS_AddElement
<1>6. Cardinality(P \cup {s}) <= MaxSessions
  BY <1>3, <1>4, <1>5, ClientSessionAssumption
<1> QED BY <1>5, <1>6 DEF Within, P

\* Rotating tokens replaces sessions one by one.
LEMMA RotatedWithin ==
  ASSUME RegistryBounded, NEW m, NEW R \in SUBSET sessions
  PROVE  Within((sessions \ R) \cup {Rotated(s, m) : s \in R})
<1> DEFINE T == (sessions \ R) \cup {Rotated(s, m) : s \in R}
           f == [s \in sessions |-> IF s \in R THEN Rotated(s, m) ELSE s]
<1>1. f \in [sessions -> T]
  OBVIOUS
<1>2. ASSUME NEW t \in T PROVE \E s \in sessions : f[s] = t
  <2>1. CASE t \in sessions \ R
    BY <2>1
  <2>2. CASE t \in {Rotated(s, m) : s \in R}
    <3>1. PICK s \in R : t = Rotated(s, m)
      BY <2>2
    <3>2. f[s] = t
      BY <3>1
    <3> QED BY <3>2
  <2> QED BY <2>1, <2>2
<1> HIDE DEF T, f
<1>3. f \in Surjection(sessions, T)
  BY <1>1, <1>2 DEF Surjection
<1>4. IsFiniteSet(T) /\ Cardinality(T) <= Cardinality(sessions)
  BY <1>3, FS_Surjection DEF RegistryBounded
<1>5. Cardinality(T) \in Nat /\ Cardinality(sessions) \in Nat
  BY <1>4, FS_CardinalityType DEF RegistryBounded
<1>6. Cardinality(T) <= MaxSessions
  BY <1>4, <1>5, ClientSessionAssumption DEF RegistryBounded
<1> QED BY <1>4, <1>6 DEF Within, T

\* A commit leaves the registry as it was or stores the set it was given.
LEMMA CommitBounded ==
  ASSUME RegistryBounded, NEW next, NEW io, Within(next), Commit(next, io)
  PROVE  RegistryBounded'
<1>1. sessions' = sessions \/ sessions' = next
  BY DEF Commit
<1> QED BY <1>1 DEF RegistryBounded, Within

LEMMA KeptBounded ==
  ASSUME RegistryBounded, sessions' = sessions
  PROVE  RegistryBounded'
BY DEF RegistryBounded

LEMMA CreateBounded ==
  ASSUME RegistryBounded, NEW m, NEW io, Create(m, io)
  PROVE  RegistryBounded'
<1>1. CASE ~allows \/ Full(m.now)
  BY <1>1, KeptBounded DEF Create, NoCommit
<1>2. CASE ~(~allows \/ Full(m.now))
  <2> DEFINE s == [session |-> fresh, token |-> fresh + 1, expires |-> m.expires]
  <2>1. Commit(Pruned(m.now) \cup {s}, io)
    BY <1>2 DEF Create
  <2> HIDE DEF s
  <2>2. Within(Pruned(m.now) \cup {s})
    BY <1>2, CreatedWithin
  <2> QED BY <2>1, <2>2, CommitBounded
<1> QED BY <1>1, <1>2

LEMMA ResumeBounded ==
  ASSUME RegistryBounded, NEW m, NEW io, Resume(m, io)
  PROVE  RegistryBounded'
<1> DEFINE found == {s \in sessions : s.session = m.session}
           dead  == {s \in found : s.expires <= m.now}
           match == {s \in found \ dead : s.token = m.token}
           T     == (sessions \ match) \cup {Rotated(s, m) : s \in match}
<1>1. IF match = {} THEN IF dead # {} THEN Commit(sessions \ dead, io) ELSE NoCommit(io)
      ELSE Commit(T, io)
  BY DEF Resume
<1>2. match \in SUBSET sessions
  OBVIOUS
<1> HIDE DEF found, dead, match
<1>3. Within(T)
  BY <1>2, RotatedWithin
<1>4. Within(sessions \ dead)
  BY FewerWithin
<1> HIDE DEF T
<1>5. NoCommit(io) => RegistryBounded'
  BY KeptBounded DEF NoCommit
<1> QED BY <1>1, <1>3, <1>4, <1>5, CommitBounded

LEMMA NextBounded ==
  ASSUME RegistryBounded, [Next]_vars
  PROVE  RegistryBounded'
<1>1. ASSUME NEW c \in Clients, ClientStep(c) \/ Timeout(c) PROVE RegistryBounded'
  <2>1. sessions' = sessions
    BY <1>1 DEF ClientStep, Timeout, Connect, ConnectFails, StartCommand, FirstAttempt, Reconnect,
        NoticeBroken, Opened, Resumed, Submitted, Polled, Refused, daemonVars
  <2> QED BY <2>1, KeptBounded, Zenon
<1>2. ASSUME NEW m \in calls,
             \/ RefuseDegraded(m) \/ RefuseRate(m) \/ OpenSession(m) \/ Deny(m) \/ Admit(m)
             \/ Replay(m) \/ Conflict(m) \/ Status(m)
             \/ \E error : TurnAway(m, error) \/ SubmitTooLate(m, error)
             \/ \E io : Submit(m, io)
      PROVE  RegistryBounded'
  <2>1. sessions' = sessions
    BY <1>2 DEF RefuseDegraded, RefuseRate, OpenSession, Deny, Admit, TurnAway, Replay, Conflict, Submit,
        SubmitTooLate, Status, daemonVars
  <2> QED BY <2>1, KeptBounded
<1>3. DaemonStep => RegistryBounded'
  BY <1>2, CreateBounded, ResumeBounded DEF DaemonStep
<1>4. ASSUME OtherCreates PROVE RegistryBounded'
  <2> DEFINE s == [session |-> MaxFresh + others', token |-> MaxFresh + others', expires |-> clock + Ttl]
  <2>1. ~Full(clock) /\ sessions' = Pruned(clock) \cup {s}
    BY <1>4 DEF OtherCreates
  <2> HIDE DEF s
  <2>2. Within(Pruned(clock) \cup {s})
    BY <2>1, CreatedWithin
  <2> QED BY <2>1, <2>2 DEF Within, RegistryBounded
<1>5. ASSUME \/ \E a \in conns : Disconnect(a)
             \/ \E conn \in open : Break(conn)
             \/ Crash
             \/ \E allowed \in BOOLEAN : Restart(allowed)
             \/ \E job \in jobs : JobEnds(job)
             \/ Tick
             \/ UNCHANGED vars
      PROVE  RegistryBounded'
  <2>1. sessions' = sessions
    BY <1>5 DEF Disconnect, Break, Crash, Restart, JobEnds, Tick, vars, daemonVars
  <2> QED BY <2>1, KeptBounded
<1> QED BY <1>1, <1>3, <1>4, <1>5 DEF Next

\* The session registry never holds more than MAX_SESSIONS sessions, whoever creates and
\* resumes them: create counts what is left after pruning, and resume replaces a session
\* by itself with another token.
THEOREM RegistryStaysBounded == Spec => []RegistryBounded
<1>1. Init => RegistryBounded
  BY FS_EmptySet, ClientSessionAssumption DEF Init, RegistryBounded
<1>2. RegistryBounded /\ [Next]_vars => RegistryBounded'
  BY NextBounded
<1> QED BY <1>1, <1>2, PTL DEF Spec
=============================================================================
