-------------------------- MODULE PinnedDriverProofs --------------------------
(***************************************************************************)
(* What holds of the pinned drivers for any number of callers, connections *)
(* and calls: no reservation is lost, a statement is sent on a connection  *)
(* the driver holds, and a transaction stays on the connection of its      *)
(* BEGIN.                                                                  *)
(***************************************************************************)
EXTENDS PinnedDriver, TLAPS

States == {"queued", "granted", "failing", "rejected", "released"}
Places == {"idle", "lock", "await", "sent"}
Doing(n) == [op : Ops, at : Places, r : 0..n]

Typed ==
    /\ impl \in {"postgres.js", "go"}
    /\ res \in Seq(Reservation) /\ tracked \in 0..Len(res)
    /\ waiters \in Seq(Seq(Callers)) /\ Len(waiters) = Len(res)
    /\ queue \in Seq(1..Len(res))
    /\ free \subseteq Conns /\ mu \in Callers \cup {NoCaller}
    /\ call \in [Callers -> Doing(Len(res))]
    /\ stage \in Stages /\ txConn \in Conns \cup {NoConn}

\* The pool has yet to answer what is in its queue, and has it there once.
QueueOK ==
    /\ \A i \in 1..Len(queue) : res[queue[i]].state = "queued"
    /\ \A i, k \in 1..Len(queue) : queue[i] = queue[k] => i = k

\* Somebody will release or track a reservation.
Minded(r) == \/ tracked = r
             \/ \E c \in Callers : /\ call[c].r = r /\ call[c].at = "await"
                                   /\ call[c].op = "close" \/ impl = "go"
Accounted ==
    /\ \A r \in 1..Len(res) :
          /\ res[r].state \in {"queued", "granted"} => Minded(r)
          /\ res[r].state = "granted" => res[r].conn \in Conns
    /\ \A x \in Conns \ free : \E r \in 1..Len(res) :
           res[r].state = "granted" /\ res[r].conn = x

\* The mutex is held from the lock to the answer, and by then nobody else
\* tracks a reservation.
GoOK ==
    impl = "go" =>
        /\ tracked # 0 => res[tracked].state = "granted"
        /\ \A c \in Callers :
              /\ call[c].at = "await" => mu = c /\ tracked = 0 /\ call[c].r # 0
              /\ call[c].at = "sent" => mu = c /\ tracked = call[c].r /\ tracked # 0

\* Those who await a reservation are its waiters, each once; a close() is the
\* last of them, and the reservation is no longer tracked.
CallerOK(c) ==
    /\ call[c].at # "lock"
    /\ call[c].at \in {"await", "sent"} => call[c].r # 0
    /\ call[c].at = "await" =>
          \E i \in 1..Len(waiters[call[c].r]) : waiters[call[c].r][i] = c
WaitersOK(r) ==
    /\ \A i \in 1..Len(waiters[r]) :
          /\ call[waiters[r][i]].at = "await" /\ call[waiters[r][i]].r = r
          /\ call[waiters[r][i]].op = "close" => i = Len(waiters[r]) /\ tracked # r
    /\ \A i, k \in 1..Len(waiters[r]) : waiters[r][i] = waiters[r][k] => i = k
    /\ res[r].state = "released" => Len(waiters[r]) = 0
JsOK ==
    impl = "postgres.js" =>
        /\ tracked # 0 => res[tracked].state \in {"queued", "granted", "failing"}
        /\ \A c \in Callers : CallerOK(c)
        /\ \A r \in 1..Len(res) : WaitersOK(r)

DriverInv == Typed /\ QueueOK /\ Accounted /\ GoOK /\ JsOK
-------------------------------------------------------------------------------
\* A reservation changes its state and nothing else.
LEMMA SetState ==
    ASSUME NEW q \in Seq(Reservation), NEW i \in 1..Len(q), NEW s \in States
    PROVE  LET p == [q EXCEPT ![i].state = s] IN
           /\ p \in Seq(Reservation) /\ Len(p) = Len(q)
           /\ p[i].state = s /\ p[i].conn = q[i].conn
           /\ \A k \in 1..Len(q) : k # i => p[k] = q[k]
<1> DEFINE p == [q EXCEPT ![i].state = s]
<1>1. q \in [1..Len(q) -> Reservation] /\ q[i] \in Reservation
  OBVIOUS
<1>2. p = [q EXCEPT ![i] = [q[i] EXCEPT !.state = s]]
  OBVIOUS
<1>3. /\ [q[i] EXCEPT !.state = s] \in Reservation
      /\ [q[i] EXCEPT !.state = s].state = s
      /\ [q[i] EXCEPT !.state = s].conn = q[i].conn
  BY <1>1 DEF Reservation, States
<1>4. p \in Seq(Reservation) /\ Len(p) = Len(q)
  BY <1>2, <1>3
<1>5. p[i] = [q[i] EXCEPT !.state = s] /\ \A k \in 1..Len(q) : k # i => p[k] = q[k]
  BY <1>1, <1>2
<1> QED
  BY <1>3, <1>4, <1>5

\* A new reservation comes last, and is queued.
LEMMA Reserve ==
    ASSUME NEW q \in Seq(Reservation)
    PROVE  LET p == Append(q, [state |-> "queued", conn |-> NoConn]) IN
           /\ p \in Seq(Reservation) /\ Len(p) = Len(q) + 1
           /\ p[Len(q) + 1].state = "queued" /\ p[Len(q) + 1].conn = NoConn
           /\ \A k \in 1..Len(q) : p[k] = q[k]
<1>1. [state |-> "queued", conn |-> NoConn] \in Reservation
  BY DEF Reservation
<1> QED
  BY <1>1

\* A caller goes on to another place in its call.
LEMMA SetPlace ==
    ASSUME NEW n \in Nat, NEW f \in [Callers -> Doing(n)], NEW c \in Callers, NEW s \in Places
    PROVE  LET g == [f EXCEPT ![c].at = s] IN
           /\ g \in [Callers -> Doing(n)]
           /\ g[c].at = s /\ g[c].op = f[c].op /\ g[c].r = f[c].r
           /\ \A d \in Callers : d # c => g[d] = f[d]
<1> DEFINE g == [f EXCEPT ![c].at = s]
<1>1. f[c] \in Doing(n)
  OBVIOUS
<1>2. g = [f EXCEPT ![c] = [f[c] EXCEPT !.at = s]]
  OBVIOUS
<1>3. /\ [f[c] EXCEPT !.at = s] \in Doing(n)
      /\ [f[c] EXCEPT !.at = s].at = s
      /\ [f[c] EXCEPT !.at = s].op = f[c].op
      /\ [f[c] EXCEPT !.at = s].r = f[c].r
  BY <1>1 DEF Doing
<1>4. g[c] = [f[c] EXCEPT !.at = s] /\ \A d \in Callers : d # c => g[d] = f[d]
  BY <1>2
<1>5. g \in [Callers -> Doing(n)]
  BY <1>2, <1>3
<1> QED
  BY <1>3, <1>4, <1>5

\* A call begins or returns.
LEMMA SetCall ==
    ASSUME NEW n \in Nat, NEW f \in [Callers -> Doing(n)], NEW c \in Callers,
           NEW m \in Nat, n <= m, NEW d \in Doing(m)
    PROVE  LET g == [f EXCEPT ![c] = d] IN
           /\ g \in [Callers -> Doing(m)] /\ g[c] = d
           /\ \A e \in Callers : e # c => g[e] = f[e]
<1>1. \A e \in Callers : f[e] \in Doing(m)
  BY DEF Doing
<1> QED
  BY <1>1

\* The stages of transaction().
LEMMA StagesKnown ==
    ASSUME Typed, NEW c \in Callers, NEW op \in Ops, NEW ok \in BOOLEAN
    PROVE  Staged(op) \in Stages /\ After(c, ok) \in Stages /\ Idle \in Doing(Len(res))
BY DEF Typed, Staged, After, Stages, Idle, Doing, Ops, Places

\* What a call that returns leaves behind.
LEMMA ReturnsTyped ==
    ASSUME Typed, NEW c \in Callers, NEW ok \in BOOLEAN, Returns(c, ok),
           call[c].op = "begin" /\ ok => call[c].r # 0
    PROVE  /\ stage' \in Stages /\ txConn' \in Conns \cup {NoConn}
           /\ call' \in [Callers -> Doing(Len(res))] /\ call'[c] = Idle
           /\ \A e \in Callers : e # c => call'[e] = call[e]
<1>1. stage' \in Stages /\ Idle \in Doing(Len(res))
  BY StagesKnown DEF Returns, Ops
<1>2. /\ call' \in [Callers -> Doing(Len(res))] /\ call'[c] = Idle
      /\ \A e \in Callers : e # c => call'[e] = call[e]
  BY <1>1, SetCall DEF Typed, Returns
<1>3. txConn' \in Conns \cup {NoConn}
  <2>1. CASE call[c].op = "begin" /\ ok
    <3>1. call[c] \in Doing(Len(res))
      BY DEF Typed
    <3>2. call[c].r \in 1..Len(res)
      BY <2>1, <3>1 DEF Doing, Typed
    <3>3. res[call[c].r] \in Reservation
      BY <3>2 DEF Typed
    <3>4. res[call[c].r].conn \in Conns \cup {NoConn}
      BY <3>3 DEF Reservation
    <3> QED
      BY <3>4 DEF Returns, Typed
  <2>2. CASE ~(call[c].op = "begin" /\ ok)
    BY <2>2 DEF Returns, Typed
  <2> QED
    BY <2>1, <2>2
<1> QED
  BY <1>1, <1>2, <1>3

\* The waiters of a reservation stay in order if they, and their calls, do.
LEMMA WaitersKept ==
    ASSUME NEW k, WaitersOK(k), waiters'[k] = waiters[k],
           \A i \in 1..Len(waiters[k]) : call'[waiters[k][i]] = call[waiters[k][i]],
           res'[k].state = "released" => res[k].state = "released",
           tracked' = k => tracked = k
    PROVE  WaitersOK(k)'
<1> DEFINE w == waiters[k]
<1>1. \A i \in 1..Len(w) : /\ call'[w[i]].at = "await" /\ call'[w[i]].r = k
                           /\ call'[w[i]].op = "close" => i = Len(w) /\ tracked' # k
  BY DEF WaitersOK
<1>2. \A i, j \in 1..Len(w) : w[i] = w[j] => i = j
  BY DEF WaitersOK
<1>3. res'[k].state = "released" => Len(w) = 0
  BY DEF WaitersOK
<1> QED
  BY <1>1, <1>2, <1>3 DEF WaitersOK

\* A caller stays among the waiters if it, and they, stay.
LEMMA CallerKept ==
    ASSUME NEW c, CallerOK(c), call'[c] = call[c],
           call[c].at = "await" => waiters'[call[c].r] = waiters[call[c].r]
    PROVE  CallerOK(c)'
BY DEF CallerOK

\* What Append makes of the waiters.
LEMMA OneMore ==
    ASSUME NEW w \in Seq(Callers), NEW c \in Callers
    PROVE  LET v == Append(w, c) IN
           /\ v \in Seq(Callers) /\ Len(w) \in Nat /\ Len(v) = Len(w) + 1 /\ v[Len(w) + 1] = c
           /\ \A i \in 1..Len(w) : v[i] = w[i] /\ w[i] \in Callers
OBVIOUS

\* The queue of the pool grows by the new reservation.
LEMMA QueueGrows ==
    ASSUME NEW n \in Nat, NEW q \in Seq(1..n)
    PROVE  LET p == Append(q, n + 1) IN
           /\ p \in Seq(1..(n + 1)) /\ Len(p) = Len(q) + 1 /\ p[Len(q) + 1] = n + 1
           /\ \A i \in 1..Len(q) : p[i] = q[i] /\ q[i] \in 1..n
<1>1. \A i \in 1..Len(q) : q[i] \in 1..(n + 1)
  OBVIOUS
<1>2. q \in Seq(1..(n + 1))
  BY <1>1
<1> QED
  BY <1>2

\* A new reservation is the last in the queue, and queued.
LEMMA QueueKept ==
    ASSUME QueueOK, Typed, NEW n \in Nat, n = Len(res),
           res'[n + 1].state = "queued", \A k \in 1..n : res'[k] = res[k],
           Len(queue') = Len(queue) + 1, queue'[Len(queue) + 1] = n + 1,
           \A i \in 1..Len(queue) : queue'[i] = queue[i] /\ queue[i] \in 1..n
    PROVE  QueueOK'
<1>1. Len(queue) \in Nat
  BY DEF Typed
<1>2. ASSUME NEW i \in 1..Len(queue)
      PROVE  res'[queue'[i]].state = "queued" /\ queue'[i] # n + 1
  <2>1. queue'[i] = queue[i] /\ queue[i] \in 1..n /\ res[queue[i]].state = "queued"
    BY DEF QueueOK
  <2> QED
    BY <2>1
<1>3. \A i \in 1..(Len(queue) + 1) : res'[queue'[i]].state = "queued"
  BY <1>1, <1>2
<1>4. \A i, k \in 1..(Len(queue) + 1) : queue'[i] = queue'[k] => i = k
  <2>1. \A i, k \in 1..Len(queue) : queue'[i] = queue'[k] => i = k
    BY DEF QueueOK
  <2> QED
    BY <2>1, <1>1, <1>2
<1> QED
  BY <1>3, <1>4 DEF QueueOK

\* The first call of postgres.js reserves, and awaits what it reserves.
LEMMA QueryJsReserves ==
    ASSUME DriverInv, NEW c \in Callers, NEW op \in Ops, QueryJs(c, op), tracked = 0
    PROVE  DriverInv'
<1> DEFINE n == Len(res)
<1>1. /\ Typed /\ QueueOK /\ Accounted /\ JsOK /\ n \in Nat
      /\ impl = "postgres.js" /\ impl' = impl /\ op # "close" /\ call[c].at = "idle"
  BY DEF DriverInv, Typed, QueryJs, MayCall
<1>2. tracked' = n + 1 /\ free' = free /\ mu' = mu /\ txConn' = txConn /\ stage' \in Stages
  BY <1>1, StagesKnown DEF QueryJs, Fresh, Called
<1>3. /\ res' \in Seq(Reservation) /\ Len(res') = n + 1
      /\ res'[n + 1].state = "queued" /\ res'[n + 1].conn = NoConn
      /\ \A k \in 1..n : res'[k] = res[k]
  BY <1>1, Reserve DEF QueryJs, Reserved, Typed
<1>4. /\ call' \in [Callers -> Doing(n + 1)]
      /\ call'[c] = [op |-> op, at |-> "await", r |-> n + 1]
      /\ \A e \in Callers : e # c => call'[e] = call[e]
  <2>1. [op |-> op, at |-> "await", r |-> n + 1] \in Doing(n + 1)
    BY <1>1 DEF Doing, Places
  <2>2. call' = [call EXCEPT ![c] = [op |-> op, at |-> "await", r |-> n + 1]]
    BY DEF QueryJs, Fresh
  <2> QED
    BY <1>1, <2>1, <2>2, SetCall DEF Typed
<1>5. /\ queue' \in Seq(1..(n + 1)) /\ Len(queue') = Len(queue) + 1
      /\ queue'[Len(queue) + 1] = n + 1
      /\ \A i \in 1..Len(queue) : queue'[i] = queue[i] /\ queue[i] \in 1..n
  <2>1. queue' = Append(queue, n + 1)
    BY DEF QueryJs, Fresh
  <2> QED
    BY <1>1, <2>1, QueueGrows DEF Typed
<1>6. /\ waiters' \in Seq(Seq(Callers)) /\ Len(waiters') = n + 1
      /\ waiters'[n + 1] = <<c>>
      /\ \A k \in 1..n : waiters'[k] = waiters[k] /\ waiters[k] \in Seq(Callers)
  <2>1. waiters' = Append(waiters, <<c>>)
    BY DEF QueryJs
  <2>2. <<c>> \in Seq(Callers)
    OBVIOUS
  <2> QED
    BY <1>1, <2>1, <2>2 DEF Typed
<1>7. Typed'
  BY <1>1, <1>2, <1>3, <1>4, <1>5, <1>6 DEF Typed
<1>8. QueueOK'
  BY <1>1, <1>3, <1>5, QueueKept
<1>9. Accounted'
  <2>1. ASSUME NEW k \in 1..n, Minded(k) PROVE Minded(k)'
    BY <2>1, <1>1, <1>4 DEF Minded
  <2>2. ASSUME NEW k \in 1..(n + 1), k = n + 1 PROVE Minded(k)'
    BY <2>2, <1>2 DEF Minded
  <2>3. ASSUME NEW k \in 1..(n + 1)
        PROVE  /\ res'[k].state \in {"queued", "granted"} => Minded(k)'
               /\ res'[k].state = "granted" => res'[k].conn \in Conns
    <3>1. CASE k = n + 1
      BY <3>1, <2>2, <1>3
    <3>2. CASE k # n + 1
      <4>1. k \in 1..n /\ res'[k] = res[k]
        BY <3>2, <1>1, <1>3
      <4> QED
        BY <4>1, <2>1, <1>1 DEF Accounted
    <3> QED
      BY <3>1, <3>2
  <2>4. \A x \in Conns \ free' : \E k \in 1..(n + 1) : res'[k].state = "granted" /\ res'[k].conn = x
    BY <1>1, <1>2, <1>3 DEF Accounted
  <2> QED
    BY <2>3, <2>4, <1>3 DEF Accounted
<1>10. GoOK'
  BY <1>1 DEF GoOK
<1>11. JsOK'
  <2>1. ASSUME NEW d \in Callers PROVE CallerOK(d)'
    <3>1. CASE d = c
      <4>1. call'[d].at = "await" /\ call'[d].r = n + 1 /\ Len(<<c>>) = 1 /\ <<c>>[1] = d
        BY <3>1, <1>4
      <4>2. waiters'[call'[d].r] = <<c>>
        BY <4>1, <1>6
      <4> QED
        BY <4>1, <4>2, <1>1 DEF CallerOK
    <3>2. CASE d # c
      <4>1. call'[d] = call[d] /\ CallerOK(d) /\ call[d].r \in 0..n
        BY <3>2, <1>1, <1>4 DEF JsOK, Typed, Doing
      <4> QED
        BY SMTT(60), <4>1, <1>6 DEF CallerOK
    <3> QED
      BY <3>1, <3>2
  <2>2. ASSUME NEW k \in 1..n PROVE WaitersOK(k)'
    <3>1. /\ WaitersOK(k) /\ waiters'[k] = waiters[k] /\ waiters[k] \in Seq(Callers)
          /\ res'[k] = res[k]
      BY <1>1, <1>3, <1>6 DEF JsOK
    <3>2. \A i \in 1..Len(waiters[k]) : waiters[k][i] \in Callers /\ waiters[k][i] # c
      BY <3>1, <1>1 DEF WaitersOK
    <3>3. \A i \in 1..Len(waiters[k]) : call'[waiters[k][i]] = call[waiters[k][i]]
      BY <3>2, <1>4
    <3>4. tracked' = k => tracked = k
      BY <1>1, <1>2
    <3>5. res'[k].state = "released" => res[k].state = "released"
      BY <3>1
    <3> QED
      BY <3>1, <3>3, <3>4, <3>5, WaitersKept
  <2>3. ASSUME NEW k \in 1..(n + 1), k = n + 1 PROVE WaitersOK(k)'
    <3>1. waiters'[k] = <<c>> /\ Len(<<c>>) = 1 /\ \A i \in 1..1 : <<c>>[i] = c
      BY <2>3, <1>6
    <3>2. /\ call'[c].at = "await" /\ call'[c].r = k /\ call'[c].op # "close"
          /\ res'[k].state = "queued"
      BY <2>3, <1>1, <1>3, <1>4
    <3> QED
      BY <3>1, <3>2 DEF WaitersOK
  <2>4. \A k \in 1..(n + 1) : WaitersOK(k)'
    <3>1. ASSUME NEW k \in 1..(n + 1), k # n + 1 PROVE k \in 1..n
      BY <3>1, <1>1
    <3> QED
      BY <3>1, <2>2, <2>3
  <2> QED
    BY <2>1, <2>4, <1>1, <1>2, <1>3 DEF JsOK
<1> QED
  BY <1>7, <1>8, <1>9, <1>10, <1>11 DEF DriverInv

\* A caller that comes to await a reservation is the last of its waiters, unless
\* it is one already; a close() must have forgotten the reservation.
LEMMA Joins ==
    ASSUME Typed, JsOK, impl = "postgres.js", impl' = impl, res' = res,
           NEW c \in Callers, NEW op \in Ops, tracked # 0, call[c].at = "idle",
           waiters' = [waiters EXCEPT ![tracked] = Append(@, c)],
           call' = [call EXCEPT ![c] = [op |-> op, at |-> "await", r |-> tracked]],
           IF op = "close" THEN tracked' = 0 ELSE tracked' = tracked
    PROVE  /\ JsOK'
           /\ call' \in [Callers -> Doing(Len(res))]
           /\ call'[c] = [op |-> op, at |-> "await", r |-> tracked]
           /\ \A e \in Callers : e # c => call'[e] = call[e]
           /\ waiters' \in Seq(Seq(Callers)) /\ Len(waiters') = Len(res)
<1> DEFINE n == Len(res)
<1>1. n \in Nat /\ tracked \in 1..n /\ waiters \in Seq(Seq(Callers)) /\ Len(waiters) = n
  BY DEF Typed
<1>2. /\ call' \in [Callers -> Doing(n)]
      /\ call'[c] = [op |-> op, at |-> "await", r |-> tracked]
      /\ \A e \in Callers : e # c => call'[e] = call[e]
  <2>1. [op |-> op, at |-> "await", r |-> tracked] \in Doing(n)
    BY <1>1 DEF Doing, Places
  <2> QED
    BY <1>1, <2>1, SetCall DEF Typed
<1>3. Append(waiters[tracked], c) \in Seq(Callers)
  BY <1>1
<1>4. /\ waiters' \in Seq(Seq(Callers)) /\ Len(waiters') = n
      /\ waiters'[tracked] = Append(waiters[tracked], c)
      /\ \A k \in 1..n : k # tracked => waiters'[k] = waiters[k]
      /\ \A k \in 1..n : waiters[k] \in Seq(Callers)
  BY <1>1, <1>3
<1>5. ASSUME NEW k \in 1..n
      PROVE  \A i \in 1..Len(waiters[k]) : /\ waiters'[k][i] = waiters[k][i]
                                           /\ waiters[k][i] \in Callers
                                           /\ waiters[k][i] # c
  <2>1. WaitersOK(k) /\ waiters[k] \in Seq(Callers)
    BY <1>4 DEF JsOK
  <2>2. \A i \in 1..Len(waiters[k]) : waiters[k][i] \in Callers /\ waiters[k][i] # c
    BY <2>1 DEF WaitersOK
  <2>3. waiters'[k] = waiters[k] \/ waiters'[k] = Append(waiters[k], c)
    BY <1>4
  <2>4. \A i \in 1..Len(waiters[k]) : waiters'[k][i] = waiters[k][i]
    BY <2>1, <2>3, OneMore
  <2> QED
    BY <2>2, <2>4
<1>6. ASSUME NEW d \in Callers PROVE CallerOK(d)'
  <2>1. CASE d = c
    <3>1. /\ Len(waiters'[tracked]) = Len(waiters[tracked]) + 1 /\ Len(waiters[tracked]) \in Nat
          /\ waiters'[tracked][Len(waiters[tracked]) + 1] = c
      BY <1>1, <1>4
    <3> QED
      BY <2>1, <3>1, <1>1, <1>2 DEF CallerOK
  <2>2. CASE d # c
    <3>1. call'[d] = call[d] /\ CallerOK(d) /\ call[d].r \in 0..n
      BY <2>2, <1>2 DEF JsOK, Typed, Doing
    <3>2. \A k \in 1..n : Len(waiters'[k]) >= Len(waiters[k]) /\ Len(waiters'[k]) \in Nat
                          /\ Len(waiters[k]) \in Nat
      BY <1>4
    <3> QED
      BY <3>1, <3>2, <1>5 DEF CallerOK
  <2> QED
    BY <2>1, <2>2
<1>7. ASSUME NEW k \in 1..n, k # tracked PROVE WaitersOK(k)'
  <2>1. WaitersOK(k) /\ waiters'[k] = waiters[k] /\ waiters[k] \in Seq(Callers)
    BY <1>4, <1>7 DEF JsOK
  <2>2. tracked' # k
    BY <1>7
  <2>3. \A i \in 1..Len(waiters[k]) : call'[waiters[k][i]] = call[waiters[k][i]]
    BY <1>2, <1>5
  <2> QED
    BY <2>1, <2>2, <2>3, WaitersKept
<1>8. ASSUME NEW k \in 1..n, k = tracked PROVE WaitersOK(k)'
  <2> DEFINE w == waiters[tracked]  w1 == Append(w, c)
  <2>1. /\ w \in Seq(Callers) /\ Len(w) \in Nat /\ Len(w1) = Len(w) + 1 /\ w1[Len(w) + 1] = c
        /\ \A i \in 1..Len(w) : w1[i] = w[i] /\ w[i] \in Callers /\ w[i] # c
    <3>1. w \in Seq(Callers)
      BY <1>1
    <3> QED
      BY <3>1, <1>1, <1>5, OneMore
  <2>2. WaitersOK(tracked) /\ waiters'[tracked] = w1
    BY <1>1, <1>4 DEF JsOK
  <2>3. res[tracked].state # "released"
    BY DEF JsOK
  <2>4. \A i \in 1..Len(w) : call'[w[i]] = call[w[i]] /\ call[w[i]].op # "close"
                             /\ call[w[i]].at = "await" /\ call[w[i]].r = tracked
    BY <2>1, <2>2, <1>2 DEF WaitersOK
  <2>5. \A i \in 1..Len(w1) : /\ call'[w1[i]].at = "await" /\ call'[w1[i]].r = tracked
                              /\ call'[w1[i]].op = "close" => i = Len(w1) /\ tracked' # tracked
    BY <2>1, <2>4, <1>1, <1>2
  <2>6. \A i, j \in 1..Len(w1) : w1[i] = w1[j] => i = j
    BY <2>1, <2>2 DEF WaitersOK
  <2>7. waiters'[k] = w1 /\ res'[k].state # "released"
    BY <2>2, <2>3, <1>8
  <2> QED
    BY <2>5, <2>6, <2>7, <1>8 DEF WaitersOK
<1>9. \A k \in 1..n : WaitersOK(k)'
  BY <1>7, <1>8
<1>10. tracked' # 0 => res'[tracked'].state \in {"queued", "granted", "failing"}
  BY DEF JsOK
<1> QED
  BY <1>1, <1>2, <1>4, <1>6, <1>9, <1>10 DEF JsOK

\* Later calls of postgres.js await the reservation that is tracked.
LEMMA QueryJsShares ==
    ASSUME DriverInv, NEW c \in Callers, NEW op \in Ops, QueryJs(c, op), tracked # 0
    PROVE  DriverInv'
<1>1. /\ Typed /\ QueueOK /\ Accounted /\ JsOK
      /\ impl = "postgres.js" /\ impl' = impl /\ op # "close" /\ call[c].at = "idle"
  BY DEF DriverInv, QueryJs, MayCall
<1>2. /\ tracked' = tracked /\ res' = res /\ queue' = queue /\ free' = free /\ mu' = mu
      /\ txConn' = txConn /\ stage' \in Stages
      /\ waiters' = [waiters EXCEPT ![tracked] = Append(@, c)]
      /\ call' = [call EXCEPT ![c] = [op |-> op, at |-> "await", r |-> tracked]]
  BY <1>1, StagesKnown DEF QueryJs, Called
<1>3. /\ JsOK' /\ call' \in [Callers -> Doing(Len(res))]
      /\ \A e \in Callers : e # c => call'[e] = call[e]
      /\ waiters' \in Seq(Seq(Callers)) /\ Len(waiters') = Len(res)
  BY <1>1, <1>2, Joins
<1>4. Typed' /\ QueueOK' /\ GoOK'
  BY <1>1, <1>2, <1>3 DEF Typed, QueueOK, GoOK
<1>5. ASSUME NEW k \in 1..Len(res), Minded(k) PROVE Minded(k)'
  BY <1>5, <1>1, <1>2, <1>3 DEF Minded
<1>6. Accounted'
  BY <1>1, <1>2, <1>5 DEF Accounted
<1> QED
  BY <1>3, <1>4, <1>6 DEF DriverInv

\* A close() awaits the reservation it takes, and is the one to release it.
LEMMA CloseJsInv ==
    ASSUME DriverInv, NEW c \in Callers, CloseJs(c)
    PROVE  DriverInv'
<1>1. /\ Typed /\ QueueOK /\ Accounted /\ JsOK
      /\ impl = "postgres.js" /\ impl' = impl /\ call[c].at = "idle"
  BY DEF DriverInv, CloseJs, MayCall
<1>2. /\ tracked' = 0 /\ res' = res /\ queue' = queue /\ free' = free /\ mu' = mu
      /\ txConn' = txConn /\ stage' \in Stages /\ "close" \in Ops
  BY <1>1, StagesKnown DEF CloseJs, Called, Ops
<1>3. CASE tracked # 0
  <2>1. /\ JsOK' /\ call' \in [Callers -> Doing(Len(res))]
        /\ call'[c] = [op |-> "close", at |-> "await", r |-> tracked]
        /\ \A e \in Callers : e # c => call'[e] = call[e]
        /\ waiters' \in Seq(Seq(Callers)) /\ Len(waiters') = Len(res)
    BY <1>1, <1>2, <1>3, Joins DEF CloseJs
  <2>2. Typed' /\ QueueOK' /\ GoOK'
    BY <1>1, <1>2, <2>1 DEF Typed, QueueOK, GoOK
  <2>3. ASSUME NEW k \in 1..Len(res), Minded(k) PROVE Minded(k)'
    <3>1. CASE tracked = k
      <4>1. call'[c].r = k /\ call'[c].at = "await" /\ call'[c].op = "close"
        BY <3>1, <2>1
      <4> QED
        BY <4>1 DEF Minded
    <3>2. CASE tracked # k
      BY <2>3, <3>2, <1>1, <2>1 DEF Minded
    <3> QED
      BY <3>1, <3>2
  <2>4. Accounted'
    BY <1>1, <1>2, <2>3 DEF Accounted
  <2> QED
    BY <2>1, <2>2, <2>4 DEF DriverInv
<1>4. CASE tracked = 0
  <2>1. call' = call /\ waiters' = waiters
    BY <1>4 DEF CloseJs
  <2>2. Typed' /\ QueueOK' /\ GoOK'
    BY <1>1, <1>2, <2>1 DEF Typed, QueueOK, GoOK
  <2>3. Accounted' /\ JsOK'
    BY <1>1, <1>2, <1>4, <2>1 DEF Accounted, Minded, JsOK, CallerOK, WaitersOK
  <2> QED
    BY <2>2, <2>3 DEF DriverInv
<1> QED
  BY <1>3, <1>4

\* What is known of who has a call, and of the reservations, when no call moves
\* and one reservation changes its state.
LEMMA JsFramed ==
    ASSUME JsOK, tracked \in 0..Len(res), impl' = impl, call' = call, waiters' = waiters,
           Len(res') = Len(res),
           NEW i \in 1..Len(res), \A k \in 1..Len(res) : k # i => res'[k] = res[k],
           res'[i].state # "released",
           \/ /\ tracked' = tracked
              /\ tracked = i => res'[i].state \in {"queued", "granted", "failing"}
           \/ tracked' = 0
    PROVE  JsOK'
<1> SUFFICES ASSUME impl = "postgres.js" PROVE JsOK'
  BY DEF JsOK
<1>1. ASSUME NEW c \in Callers PROVE CallerOK(c)'
  BY DEF JsOK, CallerOK
<1>2. ASSUME NEW k \in 1..Len(res) PROVE WaitersOK(k)'
  <2>1. WaitersOK(k) /\ (res'[k].state = "released" => res[k].state = "released")
    BY DEF JsOK
  <2>2. tracked' = k => tracked = k
    OBVIOUS
  <2> QED
    BY <2>1, <2>2, WaitersKept
<1>3. tracked' # 0 => res'[tracked'].state \in {"queued", "granted", "failing"}
  BY DEF JsOK
<1> QED
  BY <1>1, <1>2, <1>3 DEF JsOK

\* A rejected reservation is forgotten if it is the tracked one; a newer one,
\* made meanwhile, is not.
LEMMA CatchJsInv ==
    ASSUME DriverInv, NEW i \in 1..Len(res), CatchJs(i)
    PROVE  DriverInv'
<1>1. /\ Typed /\ QueueOK /\ Accounted /\ JsOK
      /\ impl = "postgres.js" /\ impl' = impl /\ res[i].state = "failing"
  BY DEF DriverInv, CatchJs
<1>2. /\ res' \in Seq(Reservation) /\ Len(res') = Len(res) /\ res'[i].state = "rejected"
      /\ \A k \in 1..Len(res) : k # i => res'[k] = res[k]
  <2>1. "rejected" \in States /\ res' = [res EXCEPT ![i].state = "rejected"]
    BY DEF States, CatchJs
  <2>2. res \in Seq(Reservation)
    BY <1>1 DEF Typed
  <2> QED
    BY <2>1, <2>2, SetState
<1>3. /\ queue' = queue /\ free' = free /\ mu' = mu /\ txConn' = txConn /\ stage' = stage
      /\ call' = call /\ waiters' = waiters /\ tracked' = IF tracked = i THEN 0 ELSE tracked
  BY DEF CatchJs
<1>4. Typed' /\ GoOK'
  BY <1>1, <1>2, <1>3 DEF Typed, GoOK
<1>5. QueueOK'
  <2>1. \A j \in 1..Len(queue) : queue[j] \in 1..Len(res) /\ queue[j] # i
    BY SMTT(60), <1>1 DEF Typed, QueueOK
  <2> QED
    BY <2>1, <1>1, <1>2, <1>3 DEF QueueOK
<1>6. ASSUME NEW k \in 1..Len(res), k # i, Minded(k) PROVE Minded(k)'
  BY <1>6, <1>1, <1>3 DEF Minded
<1>7. Accounted'
  <2>1. ASSUME NEW k \in 1..Len(res)
        PROVE  /\ res'[k].state \in {"queued", "granted"} => Minded(k)'
               /\ res'[k].state = "granted" => res'[k].conn \in Conns
    BY <1>1, <1>2, <1>6 DEF Accounted
  <2>2. \A x \in Conns \ free' : \E k \in 1..Len(res) :
           res'[k].state = "granted" /\ res'[k].conn = x
    BY <1>1, <1>2, <1>3 DEF Accounted
  <2> QED
    BY <2>1, <2>2, <1>2 DEF Accounted
<1>8. JsOK'
  BY <1>1, <1>2, <1>3, JsFramed DEF Typed
<1> QED
  BY <1>4, <1>5, <1>7, <1>8 DEF DriverInv

\* The first waiter of a reservation goes on.
LEMMA Leaves ==
    ASSUME Typed, JsOK, impl = "postgres.js", impl' = impl, tracked' = tracked,
           NEW c \in Callers, NEW r, r = call[c].r, call[c].at = "await", Head(waiters[r]) = c,
           call'[c].at = "sent" => call'[c].r = r,
           waiters' = [waiters EXCEPT ![r] = Tail(@)], call'[c].at \in {"idle", "sent"},
           \A e \in Callers : e # c => call'[e] = call[e],
           Len(res') = Len(res), \A k \in 1..Len(res) : k # r => res'[k] = res[k],
           res'[r].state = "released" => call[c].op = "close",
           tracked = r => res'[r].state \in {"queued", "granted", "failing"}
    PROVE  /\ r \in 1..Len(res) /\ res[r].state # "released"
           /\ call[c].op = "close" => tracked # r
           /\ waiters' \in Seq(Seq(Callers)) /\ Len(waiters') = Len(res)
           /\ JsOK'
<1> DEFINE w == waiters[r]  t == Tail(w)
<1>1. r \in 1..Len(res) /\ CallerOK(c) /\ WaitersOK(r)
  <2>1. CallerOK(c) /\ call[c].r \in 0..Len(res)
    BY DEF Typed, JsOK, Doing
  <2>2. r \in 1..Len(res)
    BY <2>1 DEF CallerOK, Typed
  <2> QED
    BY <2>1, <2>2 DEF JsOK
<1>2. w \in Seq(Callers) /\ Len(w) \in Nat \ {0} /\ w[1] = c
  <2>1. w \in Seq(Callers)
    BY <1>1 DEF Typed
  <2>2. Len(w) \in Nat \ {0}
    BY <1>1, <2>1 DEF CallerOK
  <2> QED
    BY <2>1, <2>2
<1>3. /\ t \in Seq(Callers) /\ Len(t) = Len(w) - 1
      /\ \A i \in 1..Len(t) : t[i] = w[i + 1] /\ i + 1 \in 1..Len(w)
  BY <1>2
<1>4. /\ waiters' \in Seq(Seq(Callers)) /\ Len(waiters') = Len(res) /\ waiters'[r] = t
      /\ \A k \in 1..Len(res) : k # r => waiters'[k] = waiters[k]
  BY <1>1, <1>3 DEF Typed
<1>5. call[c].op = "close" => Len(w) = 1 /\ tracked # r
  <2>1. 1 \in 1..Len(w) /\ waiters[r][1] = c
    BY <1>2
  <2> QED
    BY <2>1, <1>1 DEF WaitersOK
<1>6. res[r].state # "released"
  BY <1>1, <1>2 DEF WaitersOK
<1>7. \A i \in 1..Len(t) : t[i] # c /\ t[i] \in Callers
  BY SMTT(60), <1>1, <1>2, <1>3 DEF WaitersOK
<1>8. ASSUME NEW d \in Callers PROVE CallerOK(d)'
  <2>1. CASE d = c
    BY <2>1, <1>1 DEF CallerOK
  <2>2. CASE d # c /\ call[d].at # "await"
    BY <2>2 DEF CallerOK, JsOK
  <2>3. CASE d # c /\ call[d].at = "await" /\ call[d].r # r
    <3>1. CallerOK(d) /\ call[d].r \in 1..Len(res)
      <4>1. CallerOK(d) /\ call[d].r \in 0..Len(res)
        BY DEF JsOK, Typed, Doing
      <4> QED
        BY <4>1, <2>3 DEF CallerOK, Typed
    <3> QED
      BY <3>1, <2>3, <1>4, CallerKept
  <2>4. CASE d # c /\ call[d].at = "await" /\ call[d].r = r
    <3>1. PICK i \in 1..Len(w) : w[i] = d
      BY <2>4 DEF JsOK, CallerOK
    <3>2. i - 1 \in 1..Len(t) /\ t[i - 1] = d
      BY <3>1, <2>4, <1>2, <1>3
    <3>3. call'[d] = call[d] /\ waiters'[call'[d].r] = t
      BY <2>4, <1>4
    <3> QED
      BY <3>2, <3>3, <2>4, <1>1 DEF CallerOK
  <2> QED
    BY <2>1, <2>2, <2>3, <2>4
<1>9. ASSUME NEW k \in 1..Len(res), k # r PROVE WaitersOK(k)'
  <2>1. WaitersOK(k) /\ waiters'[k] = waiters[k] /\ waiters[k] \in Seq(Callers)
    BY <1>4, <1>9 DEF JsOK, Typed
  <2>2. \A i \in 1..Len(waiters[k]) : call'[waiters[k][i]] = call[waiters[k][i]]
    BY <2>1, <1>9 DEF WaitersOK
  <2> QED
    BY <2>1, <2>2, <1>9, WaitersKept
<1>10. WaitersOK(r)'
  <2>1. \A i \in 1..Len(t) : call'[t[i]] = call[t[i]]
    BY <1>7
  <2>2. ASSUME NEW i \in 1..Len(t)
        PROVE  /\ call'[t[i]].at = "await" /\ call'[t[i]].r = r
               /\ call'[t[i]].op = "close" => i = Len(t) /\ tracked' # r
    <3>1. t[i] = w[i + 1] /\ i + 1 \in 1..Len(w) /\ call'[t[i]] = call[w[i + 1]]
      BY <1>3, <2>1
    <3>2. /\ call[w[i + 1]].at = "await" /\ call[w[i + 1]].r = r
          /\ call[w[i + 1]].op = "close" => i + 1 = Len(w) /\ tracked # r
      BY <3>1, <1>1 DEF WaitersOK
    <3>3. i \in Nat /\ Len(w) \in Nat /\ Len(t) = Len(w) - 1
      BY <1>2, <1>3
    <3>4. i + 1 = Len(w) => i = Len(t)
      BY <3>3
    <3> QED
      BY <3>1, <3>2, <3>4
  <2>3. ASSUME NEW i \in 1..Len(t), NEW k \in 1..Len(t), t[i] = t[k] PROVE i = k
    <3>1. w[i + 1] = w[k + 1] /\ i + 1 \in 1..Len(w) /\ k + 1 \in 1..Len(w)
      BY <1>3, <2>3
    <3>2. i + 1 = k + 1
      BY <3>1, <1>1 DEF WaitersOK
    <3> QED
      BY <3>2
  <2>4. res'[r].state = "released" => Len(t) = 0
    BY <1>2, <1>3, <1>5
  <2>5. waiters'[r] = t
    BY <1>4
  <2> HIDE DEF w, t
  <2>6. \A i \in 1..Len(waiters'[r]) :
          /\ call'[waiters'[r][i]].at = "await" /\ call'[waiters'[r][i]].r = r
          /\ call'[waiters'[r][i]].op = "close" => i = Len(waiters'[r]) /\ tracked' # r
    BY ONLY <2>2, <2>5
  <2>7. \A i, k \in 1..Len(waiters'[r]) : waiters'[r][i] = waiters'[r][k] => i = k
    BY ONLY <2>3, <2>5
  <2>8. res'[r].state = "released" => Len(waiters'[r]) = 0
    BY ONLY <2>4, <2>5
  <2> QED
    BY ONLY <2>6, <2>7, <2>8 DEF WaitersOK
<1>11. tracked' # 0 => res'[tracked'].state \in {"queued", "granted", "failing"}
  BY DEF JsOK, Typed
<1>12. JsOK'
  BY <1>8, <1>9, <1>10, <1>11 DEF JsOK
<1> QED
  BY <1>1, <1>4, <1>5, <1>6, <1>12

\* A waiter goes on: it sends its statement, its reservation was rejected, or it
\* is the close() that releases.
LEMMA ResumeJsInv ==
    ASSUME DriverInv, NEW c \in Callers, ResumeJs(c)
    PROVE  /\ DriverInv'
           /\ call'[c].at = "sent" =>
                 call'[c].r \in 1..Len(res') /\ res'[call'[c].r].state = "granted"
<1>1. /\ Typed /\ QueueOK /\ Accounted /\ JsOK
      /\ impl = "postgres.js" /\ impl' = impl /\ call[c].at = "await"
  BY DEF DriverInv, ResumeJs
<1>2. PICK r : r = call[c].r
  OBVIOUS
<1>3. /\ tracked' = tracked /\ queue' = queue /\ mu' = mu
      /\ res[r].state \in {"granted", "released", "rejected"} /\ Head(waiters[r]) = c
      /\ waiters' = [waiters EXCEPT ![r] = Tail(@)]
  BY <1>2 DEF ResumeJs
<1>4. r \in 1..Len(res) /\ call[c].op \in Ops
  <2>1. CallerOK(c) /\ call[c].r \in 0..Len(res) /\ call[c].op \in Ops
    BY <1>1 DEF Typed, JsOK, Doing
  <2> QED
    BY <2>1, <1>1, <1>2 DEF CallerOK, Typed
<1>5. tracked = r => res[r].state \in {"queued", "granted", "failing"}
  BY <1>1, <1>4 DEF JsOK
<1>6. \A i \in 1..Len(queue) : queue[i] \in 1..Len(res) /\ queue[i] # r
  <2>1. \A i \in 1..Len(queue) : queue[i] \in 1..Len(res) /\ res[queue[i]].state = "queued"
    BY <1>1 DEF QueueOK, Typed
  <2> QED
    BY <2>1, <1>3
<1>7. CASE res[r].state = "rejected" /\ Returns(c, FALSE) /\ UNCHANGED <<res, free>>
  <2>1. /\ stage' \in Stages /\ txConn' \in Conns \cup {NoConn}
        /\ call' \in [Callers -> Doing(Len(res))] /\ call'[c] = Idle
        /\ \A e \in Callers : e # c => call'[e] = call[e]
    BY <1>1, <1>7, ReturnsTyped
  <2>2. call'[c].at = "idle" /\ res' = res /\ free' = free
    BY <2>1, <1>7 DEF Idle
  <2>3. JsOK' /\ waiters' \in Seq(Seq(Callers)) /\ Len(waiters') = Len(res)
    BY <1>1, <1>2, <1>3, <1>5, <1>7, <2>1, <2>2, Leaves
  <2>4. Typed' /\ QueueOK' /\ GoOK'
    BY <1>1, <1>3, <2>1, <2>2, <2>3 DEF Typed, QueueOK, GoOK
  <2>5. ASSUME NEW k \in 1..Len(res), k # r, Minded(k) PROVE Minded(k)'
    BY <2>5, <1>1, <1>2, <1>3, <2>1 DEF Minded
  <2>6. Accounted'
    BY <1>1, <1>7, <2>2, <2>5 DEF Accounted
  <2> QED
    BY <2>2, <2>3, <2>4, <2>6 DEF DriverInv
<1>8. CASE /\ res[r].state # "rejected" /\ call[c].op # "close"
           /\ Sends(c) /\ UNCHANGED <<calls, stage, txConn, closedIn, res, free>>
  <2>1. /\ call' \in [Callers -> Doing(Len(res))]
        /\ call'[c].at = "sent" /\ call'[c].op = call[c].op /\ call'[c].r = r
        /\ \A e \in Callers : e # c => call'[e] = call[e]
    <3>1. "sent" \in Places /\ call' = [call EXCEPT ![c].at = "sent"]
      BY <1>8 DEF Sends, Places
    <3>2. call \in [Callers -> Doing(Len(res))] /\ Len(res) \in Nat
      BY <1>1 DEF Typed
    <3> QED
      BY <3>1, <3>2, <1>2, SetPlace
  <2>2. res' = res /\ free' = free /\ txConn' = txConn /\ stage' = stage
    BY <1>8
  <2>3. /\ JsOK' /\ waiters' \in Seq(Seq(Callers)) /\ Len(waiters') = Len(res)
        /\ res[r].state # "released"
    <3>1. res'[r].state = "released" => call[c].op = "close"
      <4>1. r \in 1..Len(res) /\ WaitersOK(r) /\ CallerOK(c)
        BY <1>1, <1>4 DEF JsOK
      <4>2. Len(waiters[r]) # 0
        BY <4>1, <1>1, <1>2 DEF CallerOK, Typed
      <4> QED
        BY <4>1, <4>2, <2>2 DEF WaitersOK
    <3> QED
      BY <3>1, <1>1, <1>2, <1>3, <1>5, <2>1, <2>2, Leaves
  <2>4. Typed' /\ QueueOK' /\ GoOK'
    BY <1>1, <1>3, <2>1, <2>2, <2>3 DEF Typed, QueueOK, GoOK
  <2>5. ASSUME NEW k \in 1..Len(res), Minded(k) PROVE Minded(k)'
    BY <2>5, <1>1, <1>3, <1>8, <2>1 DEF Minded
  <2>6. Accounted'
    BY <1>1, <2>2, <2>5 DEF Accounted
  <2>7. res'[call'[c].r].state = "granted" /\ call'[c].r \in 1..Len(res')
    BY <1>3, <1>4, <1>8, <2>1, <2>2, <2>3
  <2> QED
    BY <2>3, <2>4, <2>6, <2>7 DEF DriverInv
<1>9. CASE /\ res[r].state # "rejected" /\ call[c].op = "close"
           /\ Released(r) /\ free' = free \cup {res[r].conn} /\ Returns(c, TRUE)
  <2>1. /\ stage' \in Stages /\ txConn' \in Conns \cup {NoConn}
        /\ call' \in [Callers -> Doing(Len(res))] /\ call'[c] = Idle
        /\ \A e \in Callers : e # c => call'[e] = call[e]
    BY <1>1, <1>9, ReturnsTyped
  <2>2. /\ res' \in Seq(Reservation) /\ Len(res') = Len(res) /\ res'[r].state = "released"
        /\ \A k \in 1..Len(res) : k # r => res'[k] = res[k]
    <3>1. "released" \in States /\ res' = [res EXCEPT ![r].state = "released"]
      BY <1>9 DEF States, Released
    <3>2. res \in Seq(Reservation)
      BY <1>1 DEF Typed
    <3> QED
      BY <3>1, <3>2, <1>4, SetState
  <2>3. call'[c].at = "idle"
    BY <2>1 DEF Idle
  <2>4. tracked # r
    <3>1. WaitersOK(r) /\ CallerOK(c)
      BY <1>1, <1>4 DEF JsOK
    <3>2. PICK i \in 1..Len(waiters[r]) : waiters[r][i] = c
      BY <3>1, <1>1, <1>2 DEF CallerOK
    <3> QED
      BY <3>1, <3>2, <1>9 DEF WaitersOK
  <2>5. /\ JsOK' /\ waiters' \in Seq(Seq(Callers)) /\ Len(waiters') = Len(res)
        /\ res[r].state # "released"
    BY <1>1, <1>2, <1>3, <1>9, <2>1, <2>2, <2>3, <2>4, Leaves
  <2>6. res[r].state = "granted" /\ res[r].conn \in Conns
    BY <1>1, <1>3, <1>4, <1>9, <2>5 DEF Accounted
  <2>7. Typed' /\ GoOK'
    BY <1>1, <1>3, <1>9, <2>1, <2>2, <2>5, <2>6 DEF Typed, GoOK
  <2>8. QueueOK'
    BY <1>1, <1>3, <1>6, <2>2 DEF QueueOK
  <2>9. ASSUME NEW k \in 1..Len(res), k # r, Minded(k) PROVE Minded(k)'
    BY <2>9, <1>1, <1>2, <1>3, <2>1 DEF Minded
  <2>10. ASSUME NEW k \in 1..Len(res)
         PROVE  /\ res'[k].state \in {"queued", "granted"} => Minded(k)'
                /\ res'[k].state = "granted" => res'[k].conn \in Conns
    BY <1>1, <2>2, <2>9 DEF Accounted
  <2>11. ASSUME NEW x \in Conns \ free'
         PROVE  \E k \in 1..Len(res) : res'[k].state = "granted" /\ res'[k].conn = x
    <3>1. x \in Conns \ free /\ x # res[r].conn
      BY <1>9, <2>11
    <3>2. PICK k \in 1..Len(res) : res[k].state = "granted" /\ res[k].conn = x
      BY <3>1, <1>1 DEF Accounted
    <3> QED
      BY <3>1, <3>2, <2>2
  <2>12. Accounted'
    BY <2>2, <2>10, <2>11 DEF Accounted
  <2> QED
    BY <2>3, <2>5, <2>7, <2>8, <2>12 DEF DriverInv
<1> QED
  BY <1>2, <1>7, <1>8, <1>9 DEF ResumeJs
-------------------------------------------------------------------------------
\* A call of Go waits for the mutex.
LEMMA CallGoInv ==
    ASSUME DriverInv, NEW c \in Callers, NEW op \in Ops, CallGo(c, op)
    PROVE  DriverInv'
<1>1. /\ Typed /\ QueueOK /\ Accounted /\ GoOK
      /\ impl = "go" /\ impl' = impl /\ call[c].at = "idle"
  BY DEF DriverInv, CallGo, MayCall
<1>2. /\ tracked' = tracked /\ res' = res /\ queue' = queue /\ free' = free /\ mu' = mu
      /\ txConn' = txConn /\ stage' \in Stages /\ waiters' = waiters
  BY <1>1, StagesKnown DEF CallGo, Called
<1>3. /\ call' \in [Callers -> Doing(Len(res))] /\ call'[c] = [op |-> op, at |-> "lock", r |-> 0]
      /\ \A e \in Callers : e # c => call'[e] = call[e]
  <2>1. [op |-> op, at |-> "lock", r |-> 0] \in Doing(Len(res)) /\ Len(res) \in Nat
    BY <1>1 DEF Doing, Places, Typed
  <2>2. call' = [call EXCEPT ![c] = [op |-> op, at |-> "lock", r |-> 0]]
    BY DEF CallGo
  <2> QED
    BY <1>1, <2>1, <2>2, SetCall DEF Typed
<1>4. Typed' /\ QueueOK' /\ JsOK'
  BY <1>1, <1>2, <1>3 DEF Typed, QueueOK, JsOK
<1>5. ASSUME NEW k \in 1..Len(res), Minded(k) PROVE Minded(k)'
  BY <1>5, <1>1, <1>2, <1>3 DEF Minded
<1>6. Accounted'
  BY <1>1, <1>2, <1>5 DEF Accounted
<1>7. GoOK'
  BY <1>1, <1>2, <1>3 DEF GoOK
<1> QED
  BY <1>4, <1>6, <1>7 DEF DriverInv

\* With the mutex, a call of Go sends its statement or acquires a connection.
LEMMA QueryGoInv ==
    ASSUME DriverInv, NEW c \in Callers, QueryGo(c)
    PROVE  DriverInv'
<1> DEFINE n == Len(res)
<1>1. /\ Typed /\ QueueOK /\ Accounted /\ GoOK /\ n \in Nat
      /\ impl = "go" /\ impl' = impl /\ call[c].at = "lock" /\ mu = NoCaller /\ mu' = c
      /\ tracked' = tracked /\ free' = free /\ txConn' = txConn /\ stage' = stage
  BY DEF DriverInv, QueryGo, Typed
<1>2. \A d \in Callers : call[d].at # "await" /\ call[d].at # "sent"
  BY <1>1, DriverAssumption DEF GoOK
<1>3. call \in [Callers -> Doing(n)] /\ "sent" \in Places /\ "await" \in Places
  BY <1>1 DEF Typed, Places
<1>4. CASE tracked # 0
  <2> tracked \in 0..n
    BY <1>1 DEF Typed
  <2>1. /\ res' = res /\ queue' = queue /\ waiters' = waiters
        /\ call' = [call EXCEPT ![c].at = "sent", ![c].r = tracked]
    BY <1>4 DEF QueryGo
  <2>2. /\ call' \in [Callers -> Doing(n)]
        /\ call'[c].at = "sent" /\ call'[c].r = tracked
        /\ \A d \in Callers : d # c => call'[d] = call[d]
    <3> DEFINE h == [call EXCEPT ![c].at = "sent"]
    <3>1. /\ h \in [Callers -> Doing(n)] /\ h[c].at = "sent"
          /\ \A d \in Callers : d # c => h[d] = call[d]
      BY <1>1, <1>3, SetPlace
    <3>2. call' = [h EXCEPT ![c] = [h[c] EXCEPT !.r = tracked]]
      BY <2>1
    <3>3. /\ [h[c] EXCEPT !.r = tracked] \in Doing(n)
          /\ [h[c] EXCEPT !.r = tracked].at = "sent" /\ [h[c] EXCEPT !.r = tracked].r = tracked
      BY <3>1 DEF Doing
    <3> HIDE DEF h
    <3> QED
      BY <3>1, <3>2, <3>3
  <2>3. Typed' /\ QueueOK' /\ JsOK'
    BY <1>1, <2>1, <2>2 DEF Typed, QueueOK, JsOK
  <2>4. ASSUME NEW k \in 1..n, Minded(k) PROVE Minded(k)'
    BY <2>4, <1>1, <1>2, <2>2 DEF Minded
  <2>5. Accounted'
    BY <1>1, <2>1, <2>4 DEF Accounted
  <2>6. GoOK'
    BY <1>1, <1>2, <1>4, <2>1, <2>2 DEF GoOK
  <2> QED
    BY <2>3, <2>5, <2>6 DEF DriverInv
<1>5. CASE tracked = 0
  <2>1. /\ res' = Append(res, [state |-> "queued", conn |-> NoConn])
        /\ waiters' = Append(waiters, <<c>>) /\ queue' = Append(queue, n + 1)
        /\ call' = [call EXCEPT ![c].at = "await", ![c].r = n + 1]
    BY <1>5 DEF QueryGo, Fresh, Reserved
  <2> call \in [Callers -> Doing(n + 1)] /\ n + 1 \in Nat /\ n + 1 \in 0..(n + 1)
    BY <1>1, <1>3 DEF Doing
  <2>2. /\ res' \in Seq(Reservation) /\ Len(res') = n + 1
        /\ res'[n + 1].state = "queued" /\ res'[n + 1].conn = NoConn
        /\ \A k \in 1..n : res'[k] = res[k]
    BY <1>1, <2>1, Reserve DEF Typed
  <2>3. /\ call' \in [Callers -> Doing(n + 1)]
        /\ call'[c].at = "await" /\ call'[c].r = n + 1
        /\ \A d \in Callers : d # c => call'[d] = call[d]
    <3> DEFINE h == [call EXCEPT ![c].at = "await"]
    <3>1. /\ h \in [Callers -> Doing(n + 1)] /\ h[c].at = "await"
          /\ \A d \in Callers : d # c => h[d] = call[d]
      BY <1>1, <1>3, SetPlace
    <3>2. call' = [h EXCEPT ![c] = [h[c] EXCEPT !.r = n + 1]]
      BY <2>1
    <3>3. /\ [h[c] EXCEPT !.r = n + 1] \in Doing(n + 1)
          /\ [h[c] EXCEPT !.r = n + 1].at = "await" /\ [h[c] EXCEPT !.r = n + 1].r = n + 1
      BY <3>1 DEF Doing
    <3> HIDE DEF h
    <3> QED
      BY <3>1, <3>2, <3>3
  <2>4. /\ queue' \in Seq(1..(n + 1)) /\ Len(queue') = Len(queue) + 1
        /\ queue'[Len(queue) + 1] = n + 1
        /\ \A i \in 1..Len(queue) : queue'[i] = queue[i] /\ queue[i] \in 1..n
    BY <1>1, <2>1, QueueGrows DEF Typed
  <2>5. waiters' \in Seq(Seq(Callers)) /\ Len(waiters') = n + 1
    <3>1. <<c>> \in Seq(Callers)
      OBVIOUS
    <3> QED
      BY <1>1, <2>1, <3>1 DEF Typed
  <2>6. Typed' /\ JsOK'
    BY <1>1, <2>2, <2>3, <2>4, <2>5 DEF Typed, JsOK
  <2>7. QueueOK'
    BY <1>1, <2>2, <2>4, QueueKept
  <2>8. ASSUME NEW k \in 1..n, Minded(k) PROVE Minded(k)'
    BY <2>8, <1>1, <1>2, <2>3 DEF Minded
  <2>9. ASSUME NEW k \in 1..(n + 1)
        PROVE  /\ res'[k].state \in {"queued", "granted"} => Minded(k)'
               /\ res'[k].state = "granted" => res'[k].conn \in Conns
    <3>1. CASE k = n + 1
      BY <3>1, <1>1, <2>2, <2>3 DEF Minded
    <3>2. CASE k # n + 1
      <4>1. k \in 1..n /\ res'[k] = res[k]
        BY <3>2, <1>1, <2>2
      <4> QED
        BY <4>1, <2>8, <1>1 DEF Accounted
    <3> QED
      BY <3>1, <3>2
  <2>10. \A x \in Conns \ free' : \E k \in 1..(n + 1) :
            res'[k].state = "granted" /\ res'[k].conn = x
    BY <1>1, <2>2 DEF Accounted
  <2>11. Accounted'
    BY <2>2, <2>9, <2>10 DEF Accounted
  <2>12. GoOK'
    BY <1>1, <1>2, <1>5, <2>3 DEF GoOK
  <2> QED
    BY <2>6, <2>7, <2>11, <2>12 DEF DriverInv
<1> QED
  BY <1>4, <1>5

\* The pool's answer to Go: the connection is tracked, or the call returns.
LEMMA AcquiredGoInv ==
    ASSUME DriverInv, NEW c \in Callers, AcquiredGo(c)
    PROVE  DriverInv'
<1>1. /\ Typed /\ QueueOK /\ Accounted /\ GoOK /\ Len(res) \in Nat
      /\ impl = "go" /\ impl' = impl /\ call[c].at = "await"
      /\ free' = free /\ queue' = queue
  BY DEF DriverInv, AcquiredGo, Typed
<1>2. PICK r : r = call[c].r
  OBVIOUS
<1>3. /\ mu = c /\ tracked = 0 /\ r \in 1..Len(res)
      /\ \A d \in Callers : d # c => call[d].at # "await" /\ call[d].at # "sent"
  <2>1. call[c].r \in 0..Len(res)
    BY <1>1 DEF Typed, Doing
  <2> QED
    BY <2>1, <1>1, <1>2 DEF GoOK
<1>4. waiters' \in Seq(Seq(Callers)) /\ Len(waiters') = Len(res)
  <2>1. waiters' = [waiters EXCEPT ![r] = <<>>] /\ <<>> \in Seq(Callers)
    BY <1>2 DEF AcquiredGo
  <2> QED
    BY <1>1, <1>3, <2>1 DEF Typed
<1>5. \A k \in 1..Len(res) : res[k].state \in {"queued", "granted"} => k = r
  BY <1>1, <1>2, <1>3 DEF Accounted, Minded
<1>6. CASE /\ res[r].state = "granted" /\ tracked' = r /\ Sends(c)
           /\ UNCHANGED <<res, mu, calls, stage, txConn, closedIn>>
  <2>1. /\ call' \in [Callers -> Doing(Len(res))]
        /\ call'[c].at = "sent" /\ call'[c].op = call[c].op /\ call'[c].r = r
        /\ \A e \in Callers : e # c => call'[e] = call[e]
    <3>1. "sent" \in Places /\ call' = [call EXCEPT ![c].at = "sent"]
      BY <1>6 DEF Sends, Places
    <3>2. call \in [Callers -> Doing(Len(res))]
      BY <1>1 DEF Typed
    <3> QED
      BY <3>1, <3>2, <1>1, <1>2, SetPlace
  <2>2. Typed' /\ QueueOK' /\ JsOK'
    BY <1>1, <1>3, <1>4, <1>6, <2>1 DEF Typed, QueueOK, JsOK
  <2>3. Accounted'
    BY <1>1, <1>5, <1>6 DEF Accounted, Minded
  <2>4. GoOK'
    BY <1>1, <1>3, <1>6, <2>1 DEF GoOK
  <2> QED
    BY <2>2, <2>3, <2>4 DEF DriverInv
<1>7. CASE /\ res[r].state = "failing" /\ res' = [res EXCEPT ![r].state = "rejected"]
           /\ mu' = NoCaller /\ Returns(c, FALSE) /\ UNCHANGED tracked
  <2>1. /\ stage' \in Stages /\ txConn' \in Conns \cup {NoConn}
        /\ call' \in [Callers -> Doing(Len(res))] /\ call'[c] = Idle
        /\ \A e \in Callers : e # c => call'[e] = call[e]
    BY <1>1, <1>7, ReturnsTyped
  <2>2. /\ res' \in Seq(Reservation) /\ Len(res') = Len(res) /\ res'[r].state = "rejected"
        /\ \A k \in 1..Len(res) : k # r => res'[k] = res[k]
    <3>1. "rejected" \in States /\ res \in Seq(Reservation)
      BY <1>1 DEF States, Typed
    <3> QED
      BY <3>1, <1>3, <1>7, SetState
  <2>3. call'[c].at = "idle"
    BY <2>1 DEF Idle
  <2>4. Typed' /\ JsOK'
    BY <1>1, <1>4, <1>7, <2>1, <2>2 DEF Typed, JsOK
  <2>5. QueueOK'
    <3>1. \A i \in 1..Len(queue) : queue[i] \in 1..Len(res) /\ res[queue[i]].state = "queued"
      BY <1>1 DEF QueueOK, Typed
    <3>2. \A i \in 1..Len(queue) : res'[queue[i]].state = "queued"
      BY <3>1, <1>7, <2>2
    <3> QED
      BY <3>2, <1>1 DEF QueueOK
  <2>6. Accounted'
    <3>1. \A k \in 1..Len(res) : res'[k].state \notin {"queued", "granted"}
      BY <1>5, <1>7, <2>2
    <3>2. \A x \in Conns : x \in free
      BY <1>1, <1>5, <1>7 DEF Accounted
    <3> QED
      BY <3>1, <3>2, <1>1, <2>2 DEF Accounted
  <2>7. GoOK'
    BY <1>1, <1>3, <1>7, <2>1, <2>3 DEF GoOK
  <2> QED
    BY <2>4, <2>5, <2>6, <2>7 DEF DriverInv
<1> QED
  BY <1>2, <1>6, <1>7 DEF AcquiredGo

\* A close() of Go holds the mutex: it releases what is tracked, under no
\* statement.
LEMMA CloseGoInv ==
    ASSUME DriverInv, NEW c \in Callers, CloseGo(c)
    PROVE  DriverInv'
<1>1. /\ Typed /\ QueueOK /\ Accounted /\ GoOK
      /\ impl = "go" /\ impl' = impl /\ call[c].at = "lock" /\ call[c].op = "close"
      /\ mu = NoCaller /\ mu' = mu /\ tracked' = 0 /\ queue' = queue /\ waiters' = waiters
  BY DEF DriverInv, CloseGo
<1>2. \A d \in Callers : call[d].at # "await" /\ call[d].at # "sent"
  BY <1>1, DriverAssumption DEF GoOK
<1>3. /\ stage' \in Stages /\ txConn' \in Conns \cup {NoConn}
      /\ call' \in [Callers -> Doing(Len(res))] /\ call'[c] = Idle
      /\ \A e \in Callers : e # c => call'[e] = call[e]
  BY <1>1, ReturnsTyped DEF CloseGo
<1>4. call'[c].at = "idle"
  BY <1>3 DEF Idle
<1>5. GoOK'
  BY <1>1, <1>2, <1>3, <1>4 DEF GoOK
<1>6. \A k \in 1..Len(res) : res[k].state \in {"queued", "granted"} => k = tracked
  BY <1>1, <1>2 DEF Accounted, Minded
<1>7. CASE tracked = 0
  <2>1. res' = res /\ free' = free
    BY <1>7 DEF CloseGo
  <2>2. Typed' /\ QueueOK' /\ JsOK'
    BY <1>1, <1>3, <2>1 DEF Typed, QueueOK, JsOK
  <2>3. \A k \in 1..Len(res) : res[k].state \notin {"queued", "granted"}
    BY <1>6, <1>7
  <2>4. Accounted'
    BY <1>1, <2>1, <2>3 DEF Accounted
  <2> QED
    BY <1>5, <2>2, <2>4 DEF DriverInv
<1>8. CASE tracked # 0
  <2>1. /\ res' = [res EXCEPT ![tracked].state = "released"]
        /\ free' = free \cup {res[tracked].conn}
        /\ tracked \in 1..Len(res)
    BY <1>1, <1>8 DEF CloseGo, Released, Typed
  <2>2. /\ res' \in Seq(Reservation) /\ Len(res') = Len(res) /\ res'[tracked].state = "released"
        /\ \A k \in 1..Len(res) : k # tracked => res'[k] = res[k]
    <3>1. "released" \in States /\ res \in Seq(Reservation)
      BY <1>1 DEF States, Typed
    <3> QED
      BY <2>1, <3>1, SetState
  <2>3. res[tracked].state = "granted" /\ res[tracked].conn \in Conns
    BY <1>1, <1>8, <2>1 DEF GoOK, Accounted
  <2>4. Typed' /\ JsOK'
    BY <1>1, <1>3, <2>1, <2>2, <2>3 DEF Typed, JsOK
  <2>5. QueueOK'
    <3>1. \A i \in 1..Len(queue) : queue[i] \in 1..Len(res) /\ res[queue[i]].state = "queued"
      BY <1>1 DEF QueueOK, Typed
    <3>2. \A i \in 1..Len(queue) : res'[queue[i]].state = "queued"
      BY <3>1, <2>2, <2>3
    <3> QED
      BY <3>2, <1>1 DEF QueueOK
  <2>6. \A k \in 1..Len(res) : res'[k].state \notin {"queued", "granted"}
    BY <1>6, <2>2
  <2>7. ASSUME NEW x \in Conns \ free' PROVE FALSE
    <3>1. x \in Conns \ free /\ x # res[tracked].conn
      BY <2>7, <2>1
    <3>2. PICK k \in 1..Len(res) : res[k].state = "granted" /\ res[k].conn = x
      BY <3>1, <1>1 DEF Accounted
    <3> QED
      BY <3>1, <3>2, <1>6
  <2>8. Accounted'
    BY <2>2, <2>6, <2>7 DEF Accounted
  <2> QED
    BY <1>5, <2>4, <2>5, <2>8 DEF DriverInv
<1> QED
  BY <1>7, <1>8
-------------------------------------------------------------------------------
\* The pool's answer, or refusal, to the first in its queue.
Replaces(i, d) ==
    /\ queue # <<>> /\ i = Head(queue) /\ res' = [res EXCEPT ![i] = d]
    /\ queue' = Tail(queue) /\ free' \subseteq free
    /\ UNCHANGED <<impl, tracked, waiters, mu, call, calls, stage, txConn, closedIn>>

\* It keeps everybody's place, and the first in the queue was queued.
LEMMA Answers ==
    ASSUME DriverInv, NEW i, NEW d \in Reservation, Replaces(i, d),
           d.state \in {"granted", "failing"},
           impl = "go" /\ tracked = i => d.state = "granted"
    PROVE  /\ Typed' /\ QueueOK' /\ GoOK' /\ JsOK'
           /\ i \in 1..Len(res) /\ res[i].state = "queued" /\ Len(res') = Len(res) /\ res'[i] = d
           /\ \A k \in 1..Len(res) : k # i => res'[k] = res[k]
           /\ \A k \in 1..Len(res) : Minded(k) => Minded(k)'
<1> USE DEF Replaces
<1>1. /\ Typed /\ QueueOK /\ Accounted /\ GoOK /\ JsOK
  BY DEF DriverInv
<1>2. /\ queue \in Seq(1..Len(res)) /\ Len(queue) \in Nat \ {0} /\ i = queue[1]
      /\ queue' \in Seq(1..Len(res)) /\ Len(queue') = Len(queue) - 1
      /\ \A j \in 1..Len(queue') : queue'[j] = queue[j + 1] /\ j + 1 \in 1..Len(queue)
  BY <1>1 DEF Typed
<1>3. i \in 1..Len(res) /\ 1 \in 1..Len(queue)
  BY <1>2
<1>4. res[i].state = "queued"
  BY <1>1, <1>2, <1>3 DEF QueueOK
<1>5. /\ res' \in Seq(Reservation) /\ Len(res') = Len(res) /\ res'[i] = d
      /\ \A k \in 1..Len(res) : k # i => res'[k] = res[k]
  BY <1>1, <1>3 DEF Typed
<1>6. Typed'
  BY <1>1, <1>2, <1>5 DEF Typed
<1>7. QueueOK'
  <2>1. ASSUME NEW j \in 1..Len(queue') PROVE res'[queue'[j]].state = "queued"
    <3>1. /\ queue'[j] = queue[j + 1] /\ j + 1 \in 1..Len(queue) /\ j + 1 # 1
          /\ queue[j + 1] \in 1..Len(res)
      BY <1>2
    <3>2. queue[j + 1] # i /\ res[queue[j + 1]].state = "queued"
      BY <3>1, <1>1, <1>2, <1>3 DEF QueueOK
    <3> QED
      BY <3>1, <3>2, <1>5
  <2>2. ASSUME NEW j \in 1..Len(queue'), NEW k \in 1..Len(queue'), queue'[j] = queue'[k]
        PROVE  j = k
    <3>1. queue[j + 1] = queue[k + 1] /\ j + 1 \in 1..Len(queue) /\ k + 1 \in 1..Len(queue)
      BY <2>2, <1>2
    <3>2. j + 1 = k + 1
      BY <3>1, <1>1 DEF QueueOK
    <3> QED
      BY <3>2
  <2> QED
    BY <2>1, <2>2 DEF QueueOK
<1>8. GoOK'
  BY <1>1, <1>5 DEF GoOK, Typed
<1>9. JsOK'
  <2>1. /\ tracked \in 0..Len(res) /\ impl' = impl /\ call' = call /\ waiters' = waiters
        /\ tracked' = tracked
    BY <1>1 DEF Typed
  <2>2. res'[i].state \in {"queued", "granted", "failing"}
    BY <1>5
  <2> QED
    BY <1>1, <1>3, <1>5, <2>1, <2>2, JsFramed
<1>10. \A k \in 1..Len(res) : Minded(k) => Minded(k)'
  BY DEF Minded
<1> QED
  BY <1>3, <1>4, <1>5, <1>6, <1>7, <1>8, <1>9, <1>10

\* The pool grants a connection.
LEMMA GrantInv ==
    ASSUME DriverInv, Grant
    PROVE  DriverInv'
<1>1. PICK x \in free : /\ res' = [res EXCEPT ![Head(queue)] = [state |-> "granted", conn |-> x]]
                        /\ free' = free \ {x}
  BY DEF Grant
<1>2. x \in Conns /\ Accounted /\ free \subseteq Conns
  BY <1>1 DEF DriverInv, Typed
<1>3. PICK i : i = Head(queue)
  OBVIOUS
<1>4. PICK d \in Reservation : d = [state |-> "granted", conn |-> x]
  BY <1>2 DEF Reservation
<1>5. /\ Typed' /\ QueueOK' /\ GoOK' /\ JsOK'
      /\ i \in 1..Len(res) /\ res[i].state = "queued" /\ Len(res') = Len(res) /\ res'[i] = d
      /\ \A k \in 1..Len(res) : k # i => res'[k] = res[k]
      /\ \A k \in 1..Len(res) : Minded(k) => Minded(k)'
  <2>1. Replaces(i, d)
    BY <1>1, <1>3, <1>4 DEF Grant, Replaces
  <2>2. d.state = "granted"
    BY <1>4
  <2> QED
    BY <1>3, <2>1, <2>2, Answers
<1>6. ASSUME NEW k \in 1..Len(res)
      PROVE  /\ res'[k].state \in {"queued", "granted"} => Minded(k)'
             /\ res'[k].state = "granted" => res'[k].conn \in Conns
  BY <1>2, <1>4, <1>5 DEF Accounted
<1>7. ASSUME NEW y \in Conns \ free'
      PROVE  \E k \in 1..Len(res) : res'[k].state = "granted" /\ res'[k].conn = y
  <2>1. CASE y = x
    BY <2>1, <1>4, <1>5
  <2>2. CASE y # x
    <3>1. PICK k \in 1..Len(res) : res[k].state = "granted" /\ res[k].conn = y
      BY <1>1, <1>2, <1>7, <2>2 DEF Accounted
    <3> QED
      BY <3>1, <1>5
  <2> QED
    BY <2>1, <2>2
<1>8. Accounted'
  BY <1>5, <1>6, <1>7 DEF Accounted
<1> QED
  BY <1>5, <1>8 DEF DriverInv

\* The pool refuses a reservation; of Go, nobody tracks it.
LEMMA RefuseInv ==
    ASSUME DriverInv, Refuse
    PROVE  DriverInv'
<1>1. Accounted /\ Typed /\ GoOK /\ QueueOK
  BY DEF DriverInv
<1>2. PICK i : i = Head(queue)
  OBVIOUS
<1>3. i \in 1..Len(res) /\ res[i] \in Reservation /\ res[i].state = "queued"
  <2>1. queue \in Seq(1..Len(res)) /\ Len(queue) \in Nat \ {0} /\ i = queue[1]
    BY <1>1, <1>2 DEF Refuse, Typed
  <2>2. i \in 1..Len(res) /\ 1 \in 1..Len(queue)
    BY <2>1
  <2> QED
    BY <2>1, <2>2, <1>1 DEF QueueOK, Typed
<1>4. PICK d \in Reservation : d = [res[i] EXCEPT !.state = "failing"]
  BY <1>3 DEF Reservation
<1>5. d.state = "failing" /\ d.conn = res[i].conn
  BY <1>3, <1>4 DEF Reservation
<1>6. Replaces(i, d)
  BY <1>2, <1>4 DEF Refuse, Replaces
<1>7. impl = "go" => tracked # i
  BY <1>1, <1>3 DEF GoOK
<1>8. /\ Typed' /\ QueueOK' /\ GoOK' /\ JsOK'
      /\ i \in 1..Len(res) /\ res[i].state = "queued" /\ Len(res') = Len(res) /\ res'[i] = d
      /\ \A k \in 1..Len(res) : k # i => res'[k] = res[k]
      /\ \A k \in 1..Len(res) : Minded(k) => Minded(k)'
  BY <1>5, <1>6, <1>7, Answers
<1>9. ASSUME NEW k \in 1..Len(res)
      PROVE  /\ res'[k].state \in {"queued", "granted"} => Minded(k)'
             /\ res'[k].state = "granted" => res'[k].conn \in Conns
  BY <1>1, <1>5, <1>8 DEF Accounted
<1>10. ASSUME NEW x \in Conns \ free'
       PROVE  \E k \in 1..Len(res) : res'[k].state = "granted" /\ res'[k].conn = x
  <2>1. PICK k \in 1..Len(res) : res[k].state = "granted" /\ res[k].conn = x
    BY <1>1, <1>10 DEF Accounted, Refuse
  <2> QED
    BY <2>1, <1>3, <1>8
<1>11. Accounted'
  BY <1>8, <1>9, <1>10 DEF Accounted
<1> QED
  BY <1>8, <1>11 DEF DriverInv

\* A statement is answered; Go gives up the mutex.
LEMMA AnswerInv ==
    ASSUME DriverInv, NEW c \in Callers, NEW ok \in BOOLEAN, Answer(c, ok)
    PROVE  DriverInv'
<1>1. /\ Typed /\ QueueOK /\ Accounted /\ GoOK /\ JsOK /\ call[c].at = "sent"
      /\ impl' = impl /\ tracked' = tracked /\ res' = res /\ waiters' = waiters
      /\ queue' = queue /\ free' = free /\ mu' = IF impl = "go" THEN NoCaller ELSE mu
  BY DEF DriverInv, Answer
<1>2. call[c].r # 0
  BY <1>1 DEF GoOK, JsOK, CallerOK, Typed
<1>3. /\ stage' \in Stages /\ txConn' \in Conns \cup {NoConn}
      /\ call' \in [Callers -> Doing(Len(res))] /\ call'[c] = Idle
      /\ \A e \in Callers : e # c => call'[e] = call[e]
  BY <1>1, <1>2, ReturnsTyped DEF Answer
<1>4. call'[c].at = "idle"
  BY <1>3 DEF Idle
<1>5. Typed' /\ QueueOK'
  BY <1>1, <1>3 DEF Typed, QueueOK
<1>6. ASSUME NEW k \in 1..Len(res), Minded(k) PROVE Minded(k)'
  BY <1>6, <1>1, <1>3 DEF Minded
<1>7. Accounted'
  BY <1>1, <1>6 DEF Accounted
<1>8. GoOK'
  BY <1>1, <1>3, <1>4, DriverAssumption DEF GoOK
<1>9. ASSUME impl = "postgres.js" PROVE JsOK'
  <2>1. ASSUME NEW d \in Callers PROVE CallerOK(d)'
    <3>1. CASE d = c
      BY <3>1, <1>4 DEF CallerOK
    <3>2. CASE d # c
      BY <3>2, <1>1, <1>3, <1>9, CallerKept DEF JsOK
    <3> QED
      BY <3>1, <3>2
  <2>2. ASSUME NEW k \in 1..Len(res) PROVE WaitersOK(k)'
    <3>1. WaitersOK(k) /\ waiters[k] \in Seq(Callers)
      BY <1>1, <1>9 DEF JsOK, Typed
    <3>2. \A i \in 1..Len(waiters[k]) : call'[waiters[k][i]] = call[waiters[k][i]]
      BY <3>1, <1>1, <1>3 DEF WaitersOK
    <3> QED
      BY <3>1, <3>2, <1>1, WaitersKept
  <2> QED
    BY <2>1, <2>2, <1>1, <1>9 DEF JsOK
<1>10. JsOK'
  BY <1>1, <1>9 DEF JsOK
<1> QED
  BY <1>5, <1>7, <1>8, <1>10 DEF DriverInv
-------------------------------------------------------------------------------
\* At first there is no reservation and no call.
LEMMA InitInv == Init => DriverInv
<1> SUFFICES ASSUME Init PROVE DriverInv
  OBVIOUS
<1>1. Len(res) = 0 /\ Len(queue) = 0 /\ Len(waiters) = 0
  BY DEF Init
<1>2. Idle \in Doing(0) /\ Idle.at = "idle"
  BY DEF Idle, Doing, Ops, Places
<1>3. call \in [Callers -> Doing(0)] /\ \A c \in Callers : call[c].at = "idle"
  BY <1>2 DEF Init
<1>4. Typed
  BY <1>1, <1>3 DEF Init, Typed, Stages
<1>5. QueueOK /\ Accounted
  BY <1>1 DEF Init, QueueOK, Accounted
<1>6. GoOK /\ JsOK
  BY <1>1, <1>3 DEF Init, GoOK, JsOK, CallerOK
<1> QED
  BY <1>4, <1>5, <1>6 DEF DriverInv

\* Every step keeps the invariant.
LEMMA NextInv == ASSUME DriverInv, [Next]_vars PROVE DriverInv'
<1>1. ASSUME NEW i \in DOMAIN res, CatchJs(i) PROVE DriverInv'
  BY <1>1, CatchJsInv DEF DriverInv, Typed
<1>2. CASE Progress
  BY <1>1, <1>2, GrantInv, RefuseInv, ResumeJsInv, QueryGoInv, AcquiredGoInv, CloseGoInv,
     AnswerInv DEF Progress
<1>3. ASSUME NEW c \in Callers, NEW op \in Ops, QueryJs(c, op) \/ CallGo(c, op) \/ CloseJs(c)
      PROVE  DriverInv'
  BY <1>3, QueryJsReserves, QueryJsShares, CallGoInv, CloseJsInv
<1>4. ASSUME NEW c \in Callers, CloseJs(c) PROVE DriverInv'
  BY <1>4, CloseJsInv
<1>5. CASE UNCHANGED vars
  <2>1. Typed' /\ QueueOK' /\ GoOK'
    BY <1>5 DEF vars, DriverInv, Typed, QueueOK, GoOK
  <2>2. Accounted'
    BY <1>5 DEF vars, DriverInv, Accounted, Minded
  <2>3. JsOK'
    BY <1>5 DEF vars, DriverInv, JsOK, CallerOK, WaitersOK
  <2> QED
    BY <2>1, <2>2, <2>3 DEF DriverInv
<1> QED
  BY <1>2, <1>3, <1>4, <1>5 DEF Next

\* The inductive invariant of the pinned drivers: the pool answers in order, a
\* granted reservation is minded, the mutex of Go is held from lock to answer,
\* and those who await a promise of postgres.js are in line, a close() last.
THEOREM DriverInvariant == Spec => []DriverInv
<1>1. Init => DriverInv
  BY InitInv
<1>2. DriverInv /\ [Next]_vars => DriverInv'
  BY NextInv
<1> QED
  BY <1>1, <1>2, PTL DEF Spec

\* No reservation is lost, whatever calls interleave and whichever
\* reservations are refused.
THEOREM ReservationsKept == Spec => []NoReservationLost
<1>1. DriverInv => NoReservationLost
  <2> SUFFICES ASSUME DriverInv PROVE NoReservationLost
    OBVIOUS
  <2>1. Typed /\ Accounted
    BY DEF DriverInv
  <2>2. DOMAIN res = 1..Len(res) /\ DOMAIN waiters = 1..Len(res)
    BY <2>1 DEF Typed
  <2>3. TypeOK
    BY <2>1, <2>2 DEF Typed, TypeOK, Doing, Places
  <2>4. ASSUME NEW x \in Conns \ free
        PROVE  \E r \in DOMAIN res :
                  /\ res[r] = [state |-> "granted", conn |-> x]
                  /\ \/ tracked = r
                     \/ \E c \in Callers : /\ call[c].r = r /\ call[c].at = "await"
                                           /\ call[c].op = "close" \/ impl = "go"
    <3>1. PICK r \in 1..Len(res) : res[r].state = "granted" /\ res[r].conn = x
      BY <2>1, <2>4 DEF Accounted
    <3>2. res[r] \in Reservation
      BY <2>1 DEF Typed
    <3>3. res[r] = [state |-> "granted", conn |-> x]
      BY <3>1, <3>2 DEF Reservation
    <3>4. Minded(r)
      BY <2>1, <3>1 DEF Accounted
    <3> QED
      BY <2>2, <3>3, <3>4 DEF Minded
  <2> QED
    BY <2>3, <2>4 DEF NoReservationLost
<1> QED
  BY <1>1, DriverInvariant, PTL

\* In postgres.js, only a waiter that goes on sends a statement.
LEMMA SentByResume ==
    ASSUME DriverInv, [Next]_vars, impl = "postgres.js", NEW c \in Callers,
           call'[c].at = "sent", call[c].at # "sent"
    PROVE  ResumeJs(c)
<1>1. Typed /\ \A d \in Callers : call[d] \in Doing(Len(res))
  BY DEF DriverInv, Typed
<1>2. ASSUME NEW d \in Callers, call' = [call EXCEPT ![d] = Idle] PROVE FALSE
  <2>1. call'[c] = IF c = d THEN Idle ELSE call[c]
    BY <1>1, <1>2 DEF DriverInv, Typed
  <2> QED
    BY <2>1 DEF Idle
<1>3. ASSUME NEW d \in Callers, NEW op \in Ops, QueryJs(d, op) PROVE FALSE
  BY <1>1, <1>3 DEF QueryJs, Typed
<1>4. ASSUME NEW d \in Callers, CloseJs(d) PROVE FALSE
  <2>1. call' = call \/ call' = [call EXCEPT ![d] = [op |-> "close", at |-> "await", r |-> tracked]]
    BY <1>4 DEF CloseJs
  <2> QED
    BY <2>1, <1>1 DEF Typed
<1>5. ASSUME NEW d \in Callers, NEW op \in Ops, CallGo(d, op) PROVE FALSE
  BY <1>5 DEF CallGo
<1>6. ASSUME NEW d \in Callers, QueryGo(d) \/ AcquiredGo(d) \/ CloseGo(d) PROVE FALSE
  BY <1>6 DEF QueryGo, AcquiredGo, CloseGo
<1>7. ASSUME NEW d \in Callers, NEW ok \in BOOLEAN, Answer(d, ok) PROVE FALSE
  BY <1>2, <1>7 DEF Answer, Returns
<1>8. ASSUME Grant \/ Refuse \/ UNCHANGED vars \/ \E i \in DOMAIN res : CatchJs(i) PROVE FALSE
  BY <1>8 DEF Grant, Refuse, CatchJs, vars
<1>9. ASSUME NEW d \in Callers, d # c, ResumeJs(d) PROVE FALSE
  <2>1. call' # [call EXCEPT ![d] = Idle]
    BY <1>2
  <2>2. Sends(d)
    BY <2>1, <1>9 DEF ResumeJs, Returns
  <2> QED
    BY <2>2, <1>9, <1>1 DEF Sends, Typed
<1> QED
  BY <1>3, <1>4, <1>5, <1>6, <1>7, <1>8, <1>9 DEF Next, Progress

\* A statement is sent on a connection the driver holds; in Go the connection
\* is held until the result is read.
THEOREM StatementsHeld == Spec => StatementsOnHeldConnections
<1>1. ASSUME DriverInv, [Next]_vars, NEW c \in Callers, call'[c].at = "sent",
             call[c].at # "sent" \/ impl = "go"
      PROVE  res'[call'[c].r].state = "granted"
  <2>1. DriverInv' /\ impl \in {"postgres.js", "go"} /\ impl' = impl
    <3>1. impl' = impl
      BY <1>1 DEF Next, Progress, Grant, Refuse, CatchJs, ResumeJs, QueryGo, AcquiredGo, CloseGo,
                  Answer, CloseJs, QueryJs, CallGo, vars
    <3> QED
      BY <1>1, <3>1, NextInv DEF DriverInv, Typed
  <2>2. CASE impl = "go"
    BY <2>1, <2>2, <1>1 DEF DriverInv, GoOK
  <2>3. CASE impl = "postgres.js"
    <3>1. ResumeJs(c)
      BY <2>3, <1>1, SentByResume
    <3> QED
      BY <3>1, <1>1, ResumeJsInv
  <2> QED
    BY <2>1, <2>2, <2>3
<1>2. DriverInv /\ [Next]_vars =>
        [\A c \in Callers :
            call'[c].at = "sent" /\ (call[c].at # "sent" \/ impl = "go")
            => res'[call'[c].r].state = "granted"]_vars
  BY <1>1
<1> QED
  BY <1>2, DriverInvariant, PTL DEF Spec, StatementsOnHeldConnections
-------------------------------------------------------------------------------
(* A transaction stays on the connection of its BEGIN.                      *)

\* The connection of a transaction that nobody closes stays the tracked one.
TxOK ==
    /\ call[Tester].at # "idle" => /\ call[Tester].op = "begin" <=> stage = "begin"
                                   /\ call[Tester].op = "rollback" <=> stage = "rollback"
    /\ call[Tester].at = "idle" => stage \in {"outside", "body"}
    /\ stage # "outside" /\ ~closedIn =>
          /\ \A c \in Callers : ~(call[c].op = "close" /\ call[c].at = "lock")
          /\ stage = "begin" =>
                /\ call[Tester].at = "await" /\ impl = "postgres.js" =>
                      \/ tracked = call[Tester].r
                      \/ res[call[Tester].r].state \in {"failing", "rejected"}
                /\ call[Tester].at = "sent" => /\ tracked = call[Tester].r
                                               /\ res[tracked].state = "granted"
          /\ stage \in {"body", "rollback"} =>
                /\ tracked # 0 /\ res[tracked].state = "granted" /\ res[tracked].conn = txConn
                /\ call[Tester].at \in {"await", "sent"} => call[Tester].r = tracked
-------------------------------------------------------------------------------
\* A call that begins a reservation is the BEGIN, or the connection was closed.
LEMMA QueryJsTx ==
    ASSUME DriverInv, TxOK, NEW c \in Callers, NEW op \in Ops, QueryJs(c, op)
    PROVE  TxOK'
<1> DEFINE n == Len(res)
<1>1. /\ Typed /\ JsOK /\ n \in Nat /\ Tester \in Callers
      /\ impl = "postgres.js" /\ impl' = impl /\ op # "close" /\ call[c].at = "idle"
      /\ txConn' = txConn /\ stage' = Staged(op)
  BY DriverAssumption DEF DriverInv, Typed, QueryJs, MayCall, Called
<1>2. /\ op = "begin" => c = Tester /\ stage = "outside"
      /\ op = "rollback" => c = Tester /\ stage = "body"
      /\ op = "statement" => c # Tester \/ stage = "body"
      /\ op \in {"begin", "rollback", "statement"}
      /\ op # "begin" => closedIn' = closedIn
  BY <1>1 DEF QueryJs, MayCall, Called, Ops
<1>3. CASE tracked # 0
  <2>1. /\ tracked' = tracked /\ res' = res
        /\ call' = [call EXCEPT ![c] = [op |-> op, at |-> "await", r |-> tracked]]
    BY <1>3 DEF QueryJs
  <2>2. /\ call'[c] = [op |-> op, at |-> "await", r |-> tracked]
        /\ \A d \in Callers : d # c => call'[d] = call[d]
    BY <1>1, <2>1 DEF Typed
  <2>3. CASE c = Tester
    BY <1>1, <1>2, <1>3, <2>1, <2>2, <2>3 DEF TxOK, Staged, JsOK, CallerOK
  <2>4. CASE c # Tester
    BY <1>1, <1>2, <1>3, <2>1, <2>2, <2>4 DEF TxOK, Staged
  <2> QED
    BY <2>3, <2>4
<1>4. CASE tracked = 0
  <2>1. /\ tracked' = n + 1
        /\ call' = [call EXCEPT ![c] = [op |-> op, at |-> "await", r |-> n + 1]]
        /\ res' = Append(res, [state |-> "queued", conn |-> NoConn])
    BY <1>4 DEF QueryJs, Fresh, Reserved
  <2>2. /\ call'[c] = [op |-> op, at |-> "await", r |-> n + 1]
        /\ \A d \in Callers : d # c => call'[d] = call[d]
    BY <1>1, <2>1 DEF Typed
  <2>3. \A k \in 1..n : res'[k] = res[k]
    BY <1>1, <2>1, Reserve DEF Typed
  <2>4. ~closedIn => stage \notin {"body", "rollback"}
    BY <1>4 DEF TxOK
  <2>5. CASE c = Tester
    BY <1>1, <1>2, <2>1, <2>2, <2>4, <2>5 DEF TxOK, Staged, JsOK, CallerOK
  <2>6. CASE c # Tester
    <3>1. call'[Tester] = call[Tester] /\ stage' = stage /\ closedIn' = closedIn
      BY <1>1, <1>2, <2>2, <2>6 DEF Staged
    <3>2. call[Tester].at \in {"await", "sent"} =>
             call[Tester].r \in 1..n /\ res'[call[Tester].r] = res[call[Tester].r]
      <4>1. CallerOK(Tester) /\ call[Tester].r \in 0..n
        BY <1>1 DEF JsOK, Typed, Doing
      <4> QED
        BY <4>1, <2>3, <1>1 DEF CallerOK
    <3> QED
      BY <1>1, <1>4, <2>2, <2>4, <3>1, <3>2 DEF TxOK, JsOK, CallerOK
  <2> QED
    BY <2>5, <2>6
<1> QED
  BY <1>3, <1>4

\* A close() ends the promise of one connection.
LEMMA CloseJsTx ==
    ASSUME DriverInv, TxOK, NEW c \in Callers, CloseJs(c)
    PROVE  TxOK'
BY DriverAssumption DEF DriverInv, Typed, TxOK, CloseJs, MayCall, Called, Staged

\* A rejected reservation was not the one of a transaction under way.
LEMMA CatchJsTx ==
    ASSUME DriverInv, TxOK, NEW i \in 1..Len(res), CatchJs(i)
    PROVE  TxOK'
BY DriverAssumption DEF DriverInv, Typed, JsOK, CallerOK, TxOK, Doing, CatchJs

\* A close() under way releases a reservation that is not the tracked one.
LEMMA ResumeJsTx ==
    ASSUME DriverInv, TxOK, NEW c \in Callers, ResumeJs(c)
    PROVE  TxOK'
<1>1. /\ Typed /\ JsOK /\ Tester \in Callers /\ CallerOK(c) /\ call[c].r \in 1..Len(res)
      /\ impl = "postgres.js" /\ impl' = impl /\ call[c].at = "await" /\ tracked' = tracked
      /\ WaitersOK(call[c].r)
  <2>1. /\ Typed /\ JsOK /\ Tester \in Callers
        /\ impl = "postgres.js" /\ impl' = impl /\ call[c].at = "await" /\ tracked' = tracked
    BY DriverAssumption DEF DriverInv, ResumeJs
  <2>2. CallerOK(c) /\ call[c].r \in 0..Len(res)
    BY <2>1 DEF JsOK, Typed, Doing
  <2>3. call[c].r \in 1..Len(res)
    BY <2>1, <2>2 DEF CallerOK, Typed
  <2> QED
    BY <2>1, <2>2, <2>3 DEF JsOK
<1>2. PICK r : r = call[c].r
  OBVIOUS
<1>3. PICK w \in 1..Len(waiters[r]) : waiters[r][w] = c
  BY <1>1, <1>2 DEF CallerOK
<1>4. res[r].state \in {"granted", "rejected"} /\ (call[c].op = "close" => tracked # r)
  <2>1. Len(waiters[r]) # 0
    BY <1>1, <1>2, <1>3 DEF Typed
  <2> QED
    BY <1>1, <1>2, <1>3, <2>1 DEF ResumeJs, WaitersOK
<1>5. CASE res[r].state = "rejected" /\ Returns(c, FALSE) /\ UNCHANGED <<res, free>>
  <2>1. /\ call'[c].at = "idle" /\ \A e \in Callers : e # c => call'[e] = call[e]
    BY <1>1, <1>5 DEF Returns, Idle, Typed
  <2>2. /\ stage' = After(c, FALSE) /\ txConn' = txConn /\ closedIn' = closedIn /\ res' = res
    BY <1>5 DEF Returns
  <2>3. CASE c = Tester
    BY <1>1, <1>2, <1>5, <2>1, <2>2, <2>3 DEF TxOK, After, Typed, Doing, Ops, Stages
  <2>4. CASE c # Tester
    BY <1>1, <2>1, <2>2, <2>4 DEF TxOK, After
  <2> QED
    BY <2>3, <2>4
<1>6. CASE /\ res[r].state # "rejected" /\ call[c].op # "close"
           /\ Sends(c) /\ UNCHANGED <<calls, stage, txConn, closedIn, res, free>>
  <2>1. /\ call'[c].at = "sent" /\ call'[c].op = call[c].op /\ call'[c].r = r
        /\ \A e \in Callers : e # c => call'[e] = call[e]
    <3>1. "sent" \in Places /\ call' = [call EXCEPT ![c].at = "sent"]
      BY <1>6 DEF Sends, Places
    <3>2. call \in [Callers -> Doing(Len(res))] /\ Len(res) \in Nat
      BY <1>1 DEF Typed
    <3> QED
      BY <3>1, <3>2, <1>2, SetPlace
  <2>2. CASE c = Tester
    BY <1>1, <1>2, <1>4, <1>6, <2>1, <2>2 DEF TxOK, JsOK
  <2>3. CASE c # Tester
    BY <1>1, <1>6, <2>1, <2>3 DEF TxOK
  <2> QED
    BY <2>2, <2>3
<1>7. CASE /\ res[r].state # "rejected" /\ call[c].op = "close"
           /\ Released(r) /\ free' = free \cup {res[r].conn} /\ Returns(c, TRUE)
  <2>1. /\ call'[c].at = "idle" /\ \A e \in Callers : e # c => call'[e] = call[e]
    BY <1>1, <1>7 DEF Returns, Idle, Typed
  <2>2. /\ stage' = stage /\ txConn' = txConn /\ closedIn' = closedIn
    BY <1>7 DEF Returns, After
  <2>3. \A k \in 1..Len(res) : k # r => res'[k] = res[k]
    BY <1>1, <1>2, <1>7 DEF Released, Typed
  <2>4. tracked # 0 => res'[tracked] = res[tracked]
    BY <1>1, <1>4, <1>7, <2>3 DEF Typed
  <2>5. CASE c = Tester
    BY <1>1, <1>7, <2>1, <2>2, <2>4, <2>5 DEF TxOK, Stages, Typed
  <2>6. CASE c # Tester
    <3>1. call[Tester].at \in {"await", "sent"} => call[Tester].r \in 1..Len(res)
      <4>1. CallerOK(Tester) /\ call[Tester].r \in 0..Len(res)
        BY <1>1 DEF JsOK, Typed, Doing
      <4> QED
        BY <4>1, <1>1 DEF CallerOK, Typed
    <3>2. call'[Tester] = call[Tester]
      BY <1>1, <2>1, <2>6
    <3>3. call[Tester].at = "await" /\ res[call[Tester].r].state \in {"failing", "rejected"}
             => res'[call[Tester].r] = res[call[Tester].r]
      BY <1>4, <1>7, <2>3, <3>1
    <3>4. \A d \in Callers : call'[d].op = "close" /\ call'[d].at = "lock" =>
                               call[d].op = "close" /\ call[d].at = "lock"
      BY <2>1
    <3> QED
      BY <1>1, <2>2, <2>4, <3>1, <3>2, <3>3, <3>4 DEF TxOK
  <2> QED
    BY <2>5, <2>6
<1> QED
  BY <1>2, <1>5, <1>6, <1>7 DEF ResumeJs

\* A call of Go that waits changes no connection; a close() ends the promise.
LEMMA CallGoTx ==
    ASSUME DriverInv, TxOK, NEW c \in Callers, NEW op \in Ops, CallGo(c, op)
    PROVE  TxOK'
BY DriverAssumption DEF DriverInv, Typed, TxOK, CallGo, MayCall, Called, Staged, Ops

\* With the mutex, a statement goes to the tracked connection.
LEMMA QueryGoTx ==
    ASSUME DriverInv, TxOK, NEW c \in Callers, QueryGo(c)
    PROVE  TxOK'
<1> DEFINE n == Len(res)
<1>1. /\ Typed /\ GoOK /\ n \in Nat /\ Tester \in Callers
      /\ impl = "go" /\ impl' = impl /\ call[c].at = "lock" /\ call[c].op # "close"
      /\ mu = NoCaller /\ tracked' = tracked /\ UNCHANGED <<stage, txConn, closedIn>>
  BY DriverAssumption DEF DriverInv, QueryGo, Typed
<1>2. \A d \in Callers : call[d].at # "await" /\ call[d].at # "sent"
  BY <1>1, DriverAssumption DEF GoOK
<1>3. call \in [Callers -> Doing(n)] /\ "sent" \in Places /\ "await" \in Places
  BY <1>1 DEF Typed, Places
<1>4. CASE tracked # 0
  <2>1. res' = res /\ call' = [call EXCEPT ![c].at = "sent", ![c].r = tracked]
    BY <1>4 DEF QueryGo
  <2>2. /\ call'[c].at = "sent" /\ call'[c].r = tracked /\ call'[c].op = call[c].op
        /\ \A d \in Callers : d # c => call'[d] = call[d]
    BY <1>3, <2>1 DEF Doing
  <2>3. CASE c = Tester
    BY <1>1, <1>2, <1>4, <2>1, <2>2, <2>3 DEF TxOK, GoOK
  <2>4. CASE c # Tester
    BY <1>1, <1>2, <2>1, <2>2, <2>4 DEF TxOK
  <2> QED
    BY <2>3, <2>4
<1>5. CASE tracked = 0
  <2>1. call' = [call EXCEPT ![c].at = "await", ![c].r = n + 1]
    BY <1>5 DEF QueryGo, Fresh
  <2>2. /\ call'[c].at = "await" /\ call'[c].op = call[c].op
        /\ \A d \in Callers : d # c => call'[d] = call[d]
    BY <1>1, <1>3, <2>1 DEF Doing
  <2>3. CASE c = Tester
    BY <1>1, <1>2, <1>5, <2>2, <2>3 DEF TxOK
  <2>4. CASE c # Tester
    BY <1>1, <1>2, <1>5, <2>2, <2>4 DEF TxOK
  <2> QED
    BY <2>3, <2>4
<1> QED
  BY <1>4, <1>5

\* Nobody acquires a connection while a transaction has one.
LEMMA AcquiredGoTx ==
    ASSUME DriverInv, TxOK, NEW c \in Callers, AcquiredGo(c)
    PROVE  TxOK'
<1>1. /\ Typed /\ GoOK /\ Tester \in Callers
      /\ impl = "go" /\ impl' = impl /\ call[c].at = "await"
  BY DriverAssumption DEF DriverInv, AcquiredGo
<1>2. PICK r : r = call[c].r
  OBVIOUS
<1>3. /\ tracked = 0
      /\ \A d \in Callers : d # c => call[d].at # "await" /\ call[d].at # "sent"
  BY <1>1 DEF GoOK
<1>4. ~closedIn => stage \notin {"body", "rollback"}
  BY <1>3 DEF TxOK
<1>5. CASE /\ res[r].state = "granted" /\ tracked' = r /\ Sends(c)
           /\ UNCHANGED <<res, mu, calls, stage, txConn, closedIn>>
  <2>1. /\ call'[c].at = "sent" /\ call'[c].op = call[c].op /\ call'[c].r = r
        /\ \A e \in Callers : e # c => call'[e] = call[e]
    <3>1. "sent" \in Places /\ call' = [call EXCEPT ![c].at = "sent"]
      BY <1>5 DEF Sends, Places
    <3>2. call \in [Callers -> Doing(Len(res))] /\ Len(res) \in Nat
      BY <1>1 DEF Typed
    <3> QED
      BY <3>1, <3>2, <1>2, SetPlace
  <2> QED
    BY <1>1, <1>3, <1>4, <1>5, <2>1 DEF TxOK
<1>6. CASE /\ res[r].state = "failing" /\ res' = [res EXCEPT ![r].state = "rejected"]
           /\ mu' = NoCaller /\ Returns(c, FALSE) /\ UNCHANGED tracked
  <2>1. /\ call'[c].at = "idle" /\ \A e \in Callers : e # c => call'[e] = call[e]
    BY <1>1, <1>6 DEF Returns, Idle, Typed
  <2>2. /\ stage' = After(c, FALSE) /\ txConn' = txConn /\ closedIn' = closedIn
    BY <1>6 DEF Returns
  <2>3. CASE c = Tester
    BY <1>1, <1>4, <2>1, <2>2, <2>3 DEF TxOK, After, Typed, Doing, Ops, Stages
  <2>4. CASE c # Tester
    BY <1>1, <1>3, <1>4, <2>1, <2>2, <2>4 DEF TxOK, After
  <2> QED
    BY <2>3, <2>4
<1> QED
  BY <1>2, <1>5, <1>6 DEF AcquiredGo

\* A close() of Go is known to the transaction before it takes the mutex.
LEMMA CloseGoTx ==
    ASSUME DriverInv, TxOK, NEW c \in Callers, CloseGo(c)
    PROVE  TxOK'
BY DriverAssumption DEF DriverInv, Typed, GoOK, TxOK, Stages, CloseGo, Returns, After,
   Released, Idle

\* The first in the queue is queued.
LEMMA HeadQueued ==
    ASSUME Typed, QueueOK, queue # <<>>
    PROVE  Head(queue) \in 1..Len(res) /\ res[Head(queue)].state = "queued"
<1>1. queue \in Seq(1..Len(res)) /\ Len(queue) \in Nat \ {0} /\ Head(queue) = queue[1]
  BY DEF Typed
<1>2. queue[1] \in 1..Len(res) /\ 1 \in 1..Len(queue)
  BY <1>1
<1> QED
  BY <1>1, <1>2 DEF QueueOK

\* What the pool answers matters to no transaction under way.
LEMMA SettledKept ==
    ASSUME TxOK, Typed, JsOK, GoOK, Tester \in Callers,
           \A k \in 1..Len(res) : res[k].state # "queued" => res'[k] = res[k],
           UNCHANGED <<impl, tracked, call, stage, txConn, closedIn>>
    PROVE  TxOK'
<1>1. tracked # 0 /\ res[tracked].state = "granted" => res'[tracked] = res[tracked]
  <2>1. tracked # 0 => tracked \in 1..Len(res)
    BY DEF Typed
  <2> QED
    BY <2>1
<1>2. impl = "postgres.js" /\ call[Tester].at = "await"
         /\ res[call[Tester].r].state \in {"failing", "rejected"}
         => res'[call[Tester].r] = res[call[Tester].r]
  <2>1. impl = "postgres.js" => CallerOK(Tester) /\ call[Tester].r \in 0..Len(res)
    BY DEF JsOK, Typed, Doing
  <2>2. impl = "postgres.js" /\ call[Tester].at = "await" => call[Tester].r \in 1..Len(res)
    BY <2>1 DEF CallerOK, Typed
  <2> QED
    BY <2>2
<1>3. call[Tester].at = "sent" => call[Tester].r # 0
  BY DEF GoOK, JsOK, CallerOK, Typed
<1> QED
  BY <1>1, <1>2, <1>3 DEF TxOK

\* The reservation that is granted was nobody's connection.
LEMMA GrantTx ==
    ASSUME DriverInv, TxOK, Grant
    PROVE  TxOK'
<1>1. /\ Typed /\ JsOK /\ GoOK /\ Tester \in Callers /\ QueueOK
  BY DriverAssumption DEF DriverInv
<1>2. PICK i : i = Head(queue)
  OBVIOUS
<1>3. i \in 1..Len(res) /\ res[i].state = "queued"
  BY <1>1, <1>2, HeadQueued DEF Grant
<1>4. \A k \in 1..Len(res) : res[k].state # "queued" => res'[k] = res[k]
  <2>1. PICK x \in free : res' = [res EXCEPT ![i] = [state |-> "granted", conn |-> x]]
    BY <1>2 DEF Grant
  <2> QED
    BY <2>1, <1>1, <1>3 DEF Typed
<1>5. UNCHANGED <<impl, tracked, call, stage, txConn, closedIn>>
  BY DEF Grant
<1> QED
  BY <1>1, <1>4, <1>5, SettledKept

\* The reservation that is refused was nobody's connection.
LEMMA RefuseTx ==
    ASSUME DriverInv, TxOK, Refuse
    PROVE  TxOK'
<1>1. /\ Typed /\ JsOK /\ GoOK /\ Tester \in Callers /\ QueueOK
  BY DriverAssumption DEF DriverInv
<1>2. PICK i : i = Head(queue)
  OBVIOUS
<1>3. i \in 1..Len(res) /\ res[i].state = "queued"
  BY <1>1, <1>2, HeadQueued DEF Refuse
<1>4. \A k \in 1..Len(res) : res[k].state # "queued" => res'[k] = res[k]
  <2>1. res' = [res EXCEPT ![i].state = "failing"]
    BY <1>2 DEF Refuse
  <2> QED
    BY <2>1, <1>1, <1>3 DEF Typed
<1>5. UNCHANGED <<impl, tracked, call, stage, txConn, closedIn>>
  BY DEF Refuse
<1> QED
  BY <1>1, <1>4, <1>5, SettledKept

\* The connection BEGIN was sent on is the tracked one.
LEMMA AnswerTx ==
    ASSUME DriverInv, TxOK, NEW c \in Callers, NEW ok \in BOOLEAN, Answer(c, ok)
    PROVE  TxOK'
BY DriverAssumption DEF DriverInv, Typed, GoOK, JsOK, CallerOK, TxOK, Doing, Stages, Ops,
   Answer, Returns, After, Idle

\* At first there is no transaction.
LEMMA InitTx == Init => TxOK
BY DriverAssumption DEF Init, TxOK, Idle

\* Every step keeps the connection of the transaction.
LEMMA NextTx == ASSUME DriverInv, TxOK, [Next]_vars PROVE TxOK'
<1>1. ASSUME NEW i \in DOMAIN res, CatchJs(i) PROVE TxOK'
  BY <1>1, CatchJsTx DEF DriverInv, Typed
<1>2. CASE Progress
  BY <1>1, <1>2, GrantTx, RefuseTx, ResumeJsTx, QueryGoTx, AcquiredGoTx, CloseGoTx,
     AnswerTx DEF Progress
<1>3. ASSUME NEW c \in Callers, NEW op \in Ops, QueryJs(c, op) \/ CallGo(c, op)
      PROVE  TxOK'
  BY <1>3, QueryJsTx, CallGoTx
<1>4. ASSUME NEW c \in Callers, CloseJs(c) PROVE TxOK'
  BY <1>4, CloseJsTx
<1>5. CASE UNCHANGED vars
  BY <1>5 DEF vars, TxOK
<1> QED
  BY <1>2, <1>3, <1>4, <1>5 DEF Next

\* In Go, while a connection is tracked, only the lock lets a caller send.
LEMMA SentByQuery ==
    ASSUME DriverInv, [Next]_vars, impl = "go", tracked # 0, NEW c \in Callers,
           call'[c].at = "sent", call[c].at # "sent"
    PROVE  QueryGo(c)
<1>1. Typed /\ GoOK /\ \A d \in Callers : call[d] \in Doing(Len(res))
  BY DEF DriverInv, Typed
<1>2. ASSUME NEW d \in Callers, call' = [call EXCEPT ![d] = Idle] PROVE FALSE
  <2>1. call'[c] = IF c = d THEN Idle ELSE call[c]
    BY <1>1, <1>2 DEF DriverInv, Typed
  <2> QED
    BY <2>1 DEF Idle
<1>3. ASSUME NEW d \in Callers, NEW op \in Ops, CallGo(d, op) PROVE FALSE
  BY <1>1, <1>3 DEF CallGo, Typed
<1>4. ASSUME NEW d \in Callers, NEW op \in Ops, QueryJs(d, op) \/ CloseJs(d) \/ ResumeJs(d)
      PROVE  FALSE
  BY <1>4 DEF QueryJs, CloseJs, ResumeJs
<1>5. ASSUME NEW d \in Callers, AcquiredGo(d) PROVE FALSE
  BY <1>1, <1>5 DEF AcquiredGo, GoOK
<1>6. ASSUME NEW d \in Callers, CloseGo(d) PROVE FALSE
  BY <1>2, <1>6 DEF CloseGo, Returns
<1>7. ASSUME NEW d \in Callers, NEW ok \in BOOLEAN, Answer(d, ok) PROVE FALSE
  BY <1>2, <1>7 DEF Answer, Returns
<1>8. ASSUME Grant \/ Refuse \/ UNCHANGED vars \/ \E i \in DOMAIN res : CatchJs(i) PROVE FALSE
  BY <1>8 DEF Grant, Refuse, CatchJs, vars
<1>9. ASSUME NEW d \in Callers, d # c, QueryGo(d) PROVE FALSE
  <2>1. call'[c] = call[c]
    BY <1>1, <1>9 DEF QueryGo, Typed
  <2> QED
    BY <2>1
<1>10. "close" \in Ops
  BY DEF Ops
<1> QED
  BY <1>3, <1>4, <1>5, <1>6, <1>7, <1>8, <1>9, <1>10 DEF Next, Progress

\* A statement of the body, or ROLLBACK, is sent on the connection of BEGIN.
LEMMA SentInTx ==
    ASSUME DriverInv, TxOK, [Next]_vars, stage \in {"body", "rollback"}, ~closedIn,
           call[Tester].at # "sent", call'[Tester].at = "sent"
    PROVE  res'[call'[Tester].r].conn = txConn
<1>1. /\ Typed /\ Tester \in Callers /\ impl \in {"postgres.js", "go"}
      /\ tracked # 0 /\ res[tracked].conn = txConn
      /\ call[Tester].at = "await" => call[Tester].r = tracked
  BY DriverAssumption DEF DriverInv, Typed, TxOK
<1>2. CASE impl = "postgres.js"
  <2>1. ResumeJs(Tester)
    BY <1>1, <1>2, SentByResume
  <2>2. Sends(Tester) /\ res' = res
    <3>1. ~Returns(Tester, TRUE) /\ ~Returns(Tester, FALSE)
      <4>1. call' # [call EXCEPT ![Tester] = Idle]
        <5>1. [call EXCEPT ![Tester] = Idle][Tester].at = "idle"
          BY <1>1 DEF Idle, Typed
        <5> QED
          BY <5>1
      <4> QED
        BY <4>1 DEF Returns
    <3> QED
      BY <2>1, <3>1 DEF ResumeJs
  <2>3. call'[Tester].r = tracked
    BY <1>1, <2>1, <2>2 DEF ResumeJs, Sends, Typed, Doing
  <2> QED
    BY <1>1, <2>2, <2>3
<1>3. CASE impl = "go"
  <2>1. impl' = "go"
    BY <1>3 DEF Next, Progress, Grant, Refuse, CatchJs, ResumeJs, QueryGo, AcquiredGo, CloseGo,
                Answer, CloseJs, QueryJs, CallGo, vars
  <2>2. tracked' = call'[Tester].r /\ tracked' # 0
    BY <1>1, <2>1, NextInv DEF DriverInv, GoOK
  <2>3. QueryGo(Tester)
    BY <1>1, <1>3, SentByQuery
  <2> QED
    BY <1>1, <2>2, <2>3 DEF QueryGo
<1> QED
  BY <1>1, <1>2, <1>3

\* BEGIN, the statements of the body and ROLLBACK go to one connection unless
\* somebody closes the driver in between.
THEOREM OneConnection == Spec => OneConnectionPerTransaction
<1>1. DriverInv /\ TxOK /\ [Next]_vars => DriverInv' /\ TxOK'
  BY NextInv, NextTx
<1>2. Init => DriverInv /\ TxOK
  BY InitInv, InitTx
<1>3. DriverInv /\ TxOK /\ [Next]_vars =>
        [( /\ stage \in {"body", "rollback"} /\ ~closedIn
           /\ call[Tester].at # "sent" /\ call'[Tester].at = "sent" )
         => res'[call'[Tester].r].conn = txConn]_vars
  BY SentInTx
<1> QED
  BY <1>1, <1>2, <1>3, PTL DEF Spec, OneConnectionPerTransaction
===============================================================================
