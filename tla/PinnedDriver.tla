----------------------------- MODULE PinnedDriver -----------------------------
(***************************************************************************)
(* The two drivers of the test client that take a connection from a pool   *)
(* at their first call and keep it until close(): postgresJsDriver, whose  *)
(* callers interleave at every await and share one promise of a            *)
(* reservation, and the Go Pool and DB drivers, whose callers hold a mutex *)
(* for a whole call.  One caller, Tester, runs transaction(); the others   *)
(* send statements and close the driver.                                   *)
(***************************************************************************)
EXTENDS Naturals, Sequences

CONSTANTS Callers, Tester,   \* who calls the driver; Tester through transaction()
          Conns,             \* the connections of the pool
          NoConn, NoCaller,
          MaxCalls           \* bound: calls made in a behaviour

ASSUME DriverAssumption ==
    /\ Tester \in Callers /\ NoCaller \notin Callers /\ NoConn \notin Conns
    /\ MaxCalls \in Nat

VARIABLES impl,      \* which driver this is
          tracked,   \* reservedPromise or acquired; 0: null
          res,       \* the reservations made so far
          waiters,   \* waiters[r]: who awaits reservation r, in order
          queue,     \* reservations the pool has not answered, in order
          free,      \* connections in the pool
          mu,        \* the mutex of the Go drivers
          call,      \* what each caller is doing
          calls, stage, txConn, closedIn
vars == <<impl, tracked, res, waiters, queue, free, mu, call, calls, stage,
          txConn, closedIn>>

Ops == {"begin", "statement", "rollback", "close"}
Reservation ==
    [state : {"queued", "granted", "failing", "rejected", "released"},
     conn : Conns \cup {NoConn}]
Idle == [op |-> "statement", at |-> "idle", r |-> 0]
\* transaction(): outside, sending BEGIN, in its body, sending ROLLBACK
Stages == {"outside", "begin", "body", "rollback"}

TypeOK ==
    /\ impl \in {"postgres.js", "go"} /\ tracked \in 0..Len(res)
    /\ res \in Seq(Reservation) /\ DOMAIN waiters = DOMAIN res
    /\ free \subseteq Conns /\ mu \in Callers \cup {NoCaller}
    /\ call \in [Callers -> [op : Ops, at : {"idle", "lock", "await", "sent"},
                             r : 0..Len(res)]]
    /\ stage \in Stages /\ txConn \in Conns \cup {NoConn}

Init == /\ impl \in {"postgres.js", "go"}
        /\ tracked = 0 /\ res = <<>> /\ waiters = <<>> /\ queue = <<>>
        /\ free = Conns /\ mu = NoCaller /\ call = [c \in Callers |-> Idle]
        /\ calls = 0 /\ stage = "outside" /\ txConn = NoConn /\ closedIn = FALSE
-------------------------------------------------------------------------------
(* The callers.                                                            *)

\* transaction() sends BEGIN, whatever its body does, and ROLLBACK.
MayCall(c, op) ==
    /\ call[c].at = "idle" /\ calls < MaxCalls
    /\ IF c # Tester THEN op \in {"statement", "close"}
       ELSE \/ stage = "outside" /\ op \in {"begin", "close"}
            \/ stage = "body" /\ op \in {"statement", "rollback"}
Staged(op) == IF op = "begin" THEN "begin" ELSE IF op = "rollback" THEN "rollback" ELSE stage
Called(c, op) ==
    /\ calls' = calls + 1 /\ stage' = Staged(op)
    /\ closedIn' = IF op = "close" THEN TRUE
                   ELSE IF op = "begin"
                   THEN \E d \in Callers : call[d].op = "close" /\ call[d].at = "lock"
                   ELSE closedIn
\* The stage of transaction() once a call of its has returned.
After(c, ok) ==
    IF c # Tester \/ call[c].op \in {"statement", "close"} THEN stage
    ELSE IF call[c].op = "begin" /\ ok THEN "body" ELSE "outside"
Returns(c, ok) ==
    /\ call' = [call EXCEPT ![c] = Idle]
    /\ stage' = After(c, ok)
    /\ txConn' = IF c = Tester /\ call[c].op = "begin" /\ ok THEN res[call[c].r].conn
                 ELSE txConn
    /\ UNCHANGED <<calls, closedIn>>
Sends(c) == call' = [call EXCEPT ![c].at = "sent"]

Reserved(s) == Append(res, [state |-> s, conn |-> NoConn])
Fresh == Len(res) + 1
Released(r) == res' = [res EXCEPT ![r].state = "released"]
-------------------------------------------------------------------------------
(* postgres.js.                                                            *)

\* Mutant: every call reserves for itself.
ReservePerCall(c, op) ==
    /\ impl = "postgres.js" /\ op # "close" /\ MayCall(c, op) /\ Called(c, op)
    /\ tracked' = Fresh /\ res' = Reserved("queued") /\ queue' = Append(queue, Fresh)
    /\ waiters' = Append(waiters, <<c>>)
    /\ call' = [call EXCEPT ![c] = [op |-> op, at |-> "await", r |-> Fresh]]
    /\ UNCHANGED <<impl, free, mu, txConn>>

\* query() or rollback() up to its first await: pinnedSql() makes a
\* reservation unless one is tracked.
QueryJs(c, op) ==
    /\ impl = "postgres.js" /\ op # "close" /\ MayCall(c, op) /\ Called(c, op)
    /\ LET r == IF tracked = 0 THEN Fresh ELSE tracked IN
       /\ tracked' = r
       /\ call' = [call EXCEPT ![c] = [op |-> op, at |-> "await", r |-> r]]
       /\ IF tracked = 0
          THEN res' = Reserved("queued") /\ queue' = Append(queue, r)
               /\ waiters' = Append(waiters, <<c>>)
          ELSE waiters' = [waiters EXCEPT ![r] = Append(@, c)] /\ UNCHANGED <<res, queue>>
    /\ UNCHANGED <<impl, free, mu, txConn>>

\* Mutant: the promise is forgotten only after it was awaited.
ForgetLate(c) ==
    /\ impl = "postgres.js" /\ MayCall(c, "close") /\ Called(c, "close")
    /\ tracked # 0
    /\ call' = [call EXCEPT ![c] = [op |-> "close", at |-> "await", r |-> tracked]]
    /\ waiters' = [waiters EXCEPT ![tracked] = Append(@, c)]
    /\ UNCHANGED <<impl, tracked, res, queue, free, mu, txConn>>

\* close() up to its await.
CloseJs(c) ==
    /\ impl = "postgres.js" /\ MayCall(c, "close") /\ Called(c, "close")
    /\ IF tracked = 0 THEN UNCHANGED <<call, waiters>>
       ELSE /\ call' = [call EXCEPT ![c] = [op |-> "close", at |-> "await", r |-> tracked]]
            /\ waiters' = [waiters EXCEPT ![tracked] = Append(@, c)]
    /\ tracked' = 0
    /\ UNCHANGED <<impl, res, queue, free, mu, txConn>>

\* Mutant: the handler does not compare the promises.
CatchClearsAny(r) ==
    /\ impl = "postgres.js" /\ res[r].state = "failing"
    /\ res' = [res EXCEPT ![r].state = "rejected"] /\ tracked' = 0
    /\ UNCHANGED <<impl, waiters, queue, free, mu, call, calls, stage, txConn, closedIn>>

\* The handler pinnedSql() hangs on a rejected reservation: it forgets the
\* reservation only if it is still the tracked one.
CatchJs(r) ==
    /\ impl = "postgres.js" /\ res[r].state = "failing"
    /\ res' = [res EXCEPT ![r].state = "rejected"]
    /\ tracked' = IF tracked = r THEN 0 ELSE tracked
    /\ UNCHANGED <<impl, waiters, queue, free, mu, call, calls, stage, txConn, closedIn>>

\* Those who await a settled promise go on in the order in which they came.
ResumeJs(c) ==
    LET r == call[c].r IN
    /\ impl = "postgres.js" /\ call[c].at = "await"
    /\ res[r].state \in {"granted", "released", "rejected"}
    /\ Head(waiters[r]) = c
    /\ waiters' = [waiters EXCEPT ![r] = Tail(@)]
    /\ \/ /\ res[r].state = "rejected" /\ Returns(c, FALSE) /\ UNCHANGED <<res, free>>
       \/ /\ res[r].state # "rejected" /\ call[c].op # "close"
          /\ Sends(c) /\ UNCHANGED <<calls, stage, txConn, closedIn, res, free>>
       \/ /\ res[r].state # "rejected" /\ call[c].op = "close"
          /\ Released(r) /\ free' = free \cup {res[r].conn} /\ Returns(c, TRUE)
    /\ UNCHANGED <<impl, tracked, queue, mu>>
-------------------------------------------------------------------------------
(* Go.                                                                     *)

CallGo(c, op) ==
    /\ impl = "go" /\ MayCall(c, op) /\ Called(c, op)
    /\ call' = [call EXCEPT ![c] = [op |-> op, at |-> "lock", r |-> 0]]
    /\ UNCHANGED <<impl, tracked, res, waiters, queue, free, mu, txConn>>

\* Query and Rollback with the mutex: acquireLocked, then the statement.
QueryGo(c) ==
    /\ impl = "go" /\ call[c].at = "lock" /\ call[c].op # "close" /\ mu = NoCaller
    /\ mu' = c
    /\ IF tracked # 0
       THEN call' = [call EXCEPT ![c].at = "sent", ![c].r = tracked]
            /\ UNCHANGED <<res, waiters, queue>>
       ELSE /\ res' = Reserved("queued") /\ waiters' = Append(waiters, <<c>>)
            /\ queue' = Append(queue, Fresh)
            /\ call' = [call EXCEPT ![c].at = "await", ![c].r = Fresh]
    /\ UNCHANGED <<impl, tracked, free, calls, stage, txConn, closedIn>>

\* Mutant: a refused reservation leaves the mutex locked.
KeepLock(c) ==
    LET r == call[c].r IN
    /\ impl = "go" /\ call[c].at = "await"
    /\ \/ /\ res[r].state = "granted" /\ tracked' = r /\ Sends(c)
          /\ UNCHANGED <<res, mu, calls, stage, txConn, closedIn>>
       \/ /\ res[r].state = "failing" /\ res' = [res EXCEPT ![r].state = "rejected"]
          /\ UNCHANGED <<mu, tracked>> /\ Returns(c, FALSE)
    /\ waiters' = [waiters EXCEPT ![r] = <<>>]
    /\ UNCHANGED <<impl, queue, free>>

\* pool.Acquire returns.
AcquiredGo(c) ==
    LET r == call[c].r IN
    /\ impl = "go" /\ call[c].at = "await"
    /\ \/ /\ res[r].state = "granted" /\ tracked' = r /\ Sends(c)
          /\ UNCHANGED <<res, mu, calls, stage, txConn, closedIn>>
       \/ /\ res[r].state = "failing" /\ res' = [res EXCEPT ![r].state = "rejected"]
          /\ mu' = NoCaller /\ Returns(c, FALSE) /\ UNCHANGED tracked
    /\ waiters' = [waiters EXCEPT ![r] = <<>>]
    /\ UNCHANGED <<impl, queue, free>>

\* Mutant: close() does not wait for the mutex.
CloseUnlocked(c) ==
    /\ impl = "go" /\ call[c].at = "lock" /\ call[c].op = "close"
    /\ IF tracked = 0 THEN UNCHANGED <<res, free>>
       ELSE Released(tracked) /\ free' = free \cup {res[tracked].conn}
    /\ tracked' = 0 /\ Returns(c, TRUE)
    /\ UNCHANGED <<impl, waiters, queue, mu>>

CloseGo(c) ==
    /\ impl = "go" /\ call[c].at = "lock" /\ call[c].op = "close" /\ mu = NoCaller
    /\ IF tracked = 0 THEN UNCHANGED <<res, free>>
       ELSE Released(tracked) /\ free' = free \cup {res[tracked].conn}
    /\ tracked' = 0 /\ Returns(c, TRUE)
    /\ UNCHANGED <<impl, waiters, queue, mu>>
-------------------------------------------------------------------------------
(* The pool and the server.                                                *)

\* Pools answer in the order of the requests.
Grant ==
    /\ queue # <<>>
    /\ \E x \in free :
          /\ res' = [res EXCEPT ![Head(queue)] = [state |-> "granted", conn |-> x]]
          /\ free' = free \ {x}
    /\ queue' = Tail(queue)
    /\ UNCHANGED <<impl, tracked, waiters, mu, call, calls, stage, txConn, closedIn>>

\* A connection that cannot be made, a timeout, a cancelled context.
Refuse ==
    /\ queue # <<>>
    /\ res' = [res EXCEPT ![Head(queue)].state = "failing"]
    /\ queue' = Tail(queue)
    /\ UNCHANGED <<impl, tracked, waiters, free, mu, call, calls, stage, txConn, closedIn>>

\* The result of a statement, or its error.
Answer(c, ok) ==
    /\ call[c].at = "sent" /\ Returns(c, ok)
    /\ mu' = IF impl = "go" THEN NoCaller ELSE mu
    /\ UNCHANGED <<impl, tracked, res, waiters, queue, free>>

Progress == \/ Grant \/ Refuse \/ \E r \in DOMAIN res : CatchJs(r)
            \/ \E c \in Callers : \/ ResumeJs(c) \/ QueryGo(c) \/ AcquiredGo(c) \/ CloseGo(c)
                                  \/ \E ok \in BOOLEAN : Answer(c, ok)
Next == \/ Progress
        \/ \E c \in Callers : \/ CloseJs(c)
                              \/ \E op \in Ops : QueryJs(c, op) \/ CallGo(c, op)
Spec == Init /\ [][Next]_vars
\* The pool and the server answer, and a caller whose turn it is runs.
FairSpec == Spec /\ WF_vars(Progress)
-------------------------------------------------------------------------------
(* Properties.                                                             *)

\* No reservation is lost: a connection out of the pool is the tracked one,
\* or somebody holds the reservation that close() took and will release it,
\* or (Go) the caller that acquired it is about to track it.  The comment of
\* pinnedSql() tells how a late rejection would lose one.
NoReservationLost ==
    /\ TypeOK
    /\ \A x \in Conns \ free : \E r \in DOMAIN res :
           /\ res[r] = [state |-> "granted", conn |-> x]
           /\ \/ tracked = r
              \/ \E c \in Callers : /\ call[c].r = r /\ call[c].at = "await"
                                    /\ call[c].op = "close" \/ impl = "go"

\* A statement is sent on a connection the driver holds: a query() that
\* awaits a reservation goes on before the close() that came after it.  In Go
\* the connection is held until the result is read, since Query keeps the
\* mutex; a close() of postgres.js may release it under a running statement.
StatementsOnHeldConnections ==
    [][\A c \in Callers :
          call'[c].at = "sent" /\ (call[c].at # "sent" \/ impl = "go")
          => res'[call'[c].r].state = "granted"]_vars

\* BEGIN, the statements of the body and ROLLBACK go to one connection
\* unless somebody closes the driver in between.
OneConnectionPerTransaction ==
    [][( /\ stage \in {"body", "rollback"} /\ ~closedIn
         /\ call[Tester].at # "sent" /\ call'[Tester].at = "sent" )
       => res'[call'[Tester].r].conn = txConn]_vars

\* Every call returns: no refused reservation leaves the driver stuck, and
\* no close() waits for a connection that only a later close() would free.
CallsReturn == \A c \in Callers : []<>(call[c].at = "idle")
===============================================================================
