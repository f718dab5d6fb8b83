---------------------------- MODULE ServiceProofs ---------------------------
(***************************************************************************)
(* What Service promises, proved for every number of events and requests,  *)
(* every signal_id and every set of faults.                                *)
(***************************************************************************)
EXTENDS Service, TLAPS

\* A reply that says "stored" is under way only for a stored signal.
RepliesAreTrue ==
  \A q \in Request : call[q].at = "stored" => rows[call[q].event] # "none"

\* As long as the start is over, and in this process, the heartbeat is as old as
\* the worker's last round at least.
ReadyIsReady ==
  life = "up" /\ ~pending => compared /\ beat # none /\ since <= beat

ServiceInv == TypeOK /\ ReadyIsReady /\ RepliesAreTrue /\ AckedIsStored

\* The invariant holds before the first start.
LEMMA InitServiceInv == Init => ServiceInv
<1> SUFFICES ASSUME Init PROVE ServiceInv
  OBVIOUS
<1> USE ServiceAssumption DEF Init
<1>1. rows \in [Event -> {"none", "RECEIVED", "PENDING", "EXPIRED", "TAKEN"}]
  OBVIOUS
<1>2. call \in [Request -> {Idle}]
  OBVIOUS
<1>3. since \in 0 .. Stale + 1
  OBVIOUS
<1>4. TypeOK
  BY <1>1, <1>2, <1>3 DEF TypeOK
<1>5. ReadyIsReady /\ RepliesAreTrue /\ AckedIsStored
  BY <1>2 DEF ReadyIsReady, RepliesAreTrue, AckedIsStored, Idle
<1> QED
  BY <1>4, <1>5 DEF ServiceInv

\* What a step of the worker may have heard.
Answers == {"ok", "none"} \cup Failing

\* The steps by which a round writes the row of e.
WritesRow(e) ==
  \/ FindExpired(e)
  \/ \E answer \in Answers : TakeUp(e, answer) \/ Recover(e, answer)

\* Such a step leaves one of four rows, and finds one that is still open.
LEMMA RowWritten ==
  ASSUME NEW e \in Event, WritesRow(e)
  PROVE  /\ rows[e] \in {"RECEIVED", "PENDING"}
         /\ \E row \in {"RECEIVED", "PENDING", "EXPIRED", "TAKEN"}, answer \in Answers :
              worker = "round" /\ RoundLeaves(e, row, answer)
<1>1. CASE FindExpired(e)
  BY <1>1 DEF FindExpired, Looks, Answers
<1>2. ASSUME NEW answer \in Answers, TakeUp(e, answer) \/ Recover(e, answer)
      PROVE  /\ rows[e] \in {"RECEIVED", "PENDING"}
             /\ \E row \in {"RECEIVED", "PENDING", "EXPIRED", "TAKEN"} :
                  worker = "round" /\ RoundLeaves(e, row, answer)
  BY <1>2 DEF TakeUp, Recover, Looks, Recovering
<1> QED
  BY <1>1, <1>2 DEF WritesRow

\* Every step keeps the types.
LEMMA NextTypeOK == TypeOK /\ [Next]_vars => TypeOK'
<1> SUFFICES ASSUME TypeOK, [Next]_vars PROVE TypeOK'
  OBVIOUS
<1> USE ServiceAssumption
<1>1. CASE Start
  <2>1. /\ stop' \in BOOLEAN /\ pending' \in BOOLEAN /\ compared' \in BOOLEAN
        /\ live' \in BOOLEAN
        /\ life' = "up" /\ worker' = "nonce" /\ status' = "not_checked"
        /\ beat' = none /\ since' = 0
        /\ UNCHANGED <<rows, expired, call, acked>>
    BY <1>1, Zenon DEF Start, intake
  <2> QED
    BY <2>1 DEF TypeOK
<1>2. CASE Signal
  BY <1>2 DEF Signal, TypeOK, intake, task
<1>3. CASE Drain
  BY <1>3 DEF Drain, TypeOK, intake
<1>4. CASE CloseDb
  BY <1>4 DEF CloseDb, TypeOK, task, Idle
<1>5. CASE Crash
  BY <1>5 DEF Crash, TypeOK, Idle
<1>6. CASE NonceReconciled
  BY <1>6 DEF NonceReconciled, Heard, TypeOK, intake
<1>7. CASE PositionsReconciled
  <2>1. pending' \in BOOLEAN /\ compared' \in BOOLEAN
    BY <1>7, Zenon DEF PositionsReconciled
  <2>2. /\ worker = "positions" /\ worker' = "round" /\ status' = "ok"
        /\ beat' \in {none} \cup 0 .. Stale + 1 /\ since' = 0
        /\ UNCHANGED <<life, live, stop, rows, expired, call, acked>>
    BY <1>7 DEF PositionsReconciled, Heard, Beat, TypeOK, intake
  <2> QED
    BY <2>1, <2>2 DEF TypeOK
<1>8. ASSUME NEW answer \in Failing, StartupFails(answer)
      PROVE  TypeOK'
  BY <1>8 DEF StartupFails, Failing, Heard, TypeOK, intake
<1>9. CASE TryAgain
  BY <1>9 DEF TryAgain, TypeOK, intake
<1>10. CASE BeginRound
  BY <1>10 DEF BeginRound, Beat, TypeOK, intake
<1>11. CASE DiskFails
  BY <1>11 DEF DiskFails, TypeOK, intake
<1>12. ASSUME NEW e \in Event, WritesRow(e) PROVE TypeOK'
  <2>1. PICK row \in {"RECEIVED", "PENDING", "EXPIRED", "TAKEN"}, answer \in Answers :
          worker = "round" /\ RoundLeaves(e, row, answer)
    BY <1>12, RowWritten
  <2> QED
    BY <1>12, <2>1 DEF RoundLeaves, Heard, Answers, Failing, TypeOK, intake
<1>13. ASSUME NEW answer \in Answers, EndRound(answer) PROVE TypeOK'
  BY <1>13 DEF EndRound, Answers, Failing, Heard, TypeOK, intake
<1>14. ASSUME NEW q \in Request, NEW e \in Event, Send(q, e) PROVE TypeOK'
  BY <1>14 DEF Send, Reading, Answer, Idle, TypeOK, task
<1>15. ASSUME NEW q \in Request, Handle(q) PROVE TypeOK'
  BY <1>15 DEF Handle, Accept, Reply, Answer, Idle, TypeOK, task
<1>16. ASSUME NEW q \in Request, Deliver(q) PROVE TypeOK'
  BY <1>16 DEF Deliver, Answer, Idle, TypeOK, task
<1>17. ASSUME NEW q \in Request, Lose(q) PROVE TypeOK'
  BY <1>17 DEF Lose, Idle, TypeOK, task
<1>18. CASE Tick
  BY <1>18 DEF Tick, Older, TypeOK, intake
<1>19. ASSUME NEW e \in Event, Expire(e) PROVE TypeOK'
  BY <1>19 DEF Expire, TypeOK, task, intake
<1>20. CASE UNCHANGED vars
  BY <1>20 DEF vars, task, intake, TypeOK
<1> QED
  BY <1>1, <1>2, <1>3, <1>4, <1>5, <1>6, <1>7, <1>8, <1>9, <1>10, <1>11, <1>12, <1>13,
     <1>14, <1>15, <1>16, <1>17, <1>18, <1>19, <1>20 DEF Next, Worker, WritesRow, Answers

\* The service's state is of its type, and nothing outlives the process
\* (serve, create_app).
THEOREM TypeCorrect == Spec => []TypeOK
<1>1. Init => TypeOK
  BY InitServiceInv DEF ServiceInv
<1> QED
  BY <1>1, NextTypeOK, PTL DEF Spec

-----------------------------------------------------------------------------
(* Readiness: only the worker's task writes what it is made of.            *)

\* Every step keeps the flag of the start true to what it stands for.
LEMMA NextReady == TypeOK /\ ReadyIsReady /\ [Next]_vars => ReadyIsReady'
<1> SUFFICES ASSUME TypeOK, ReadyIsReady, [Next]_vars PROVE ReadyIsReady'
  OBVIOUS
<1> USE ServiceAssumption DEF ReadyIsReady
<1>1. CASE Start
  BY <1>1 DEF Start
<1>2. CASE Signal \/ \E e \in Event : Expire(e)
  BY <1>2 DEF Signal, Expire, task
<1>3. CASE Drain \/ Crash \/ CloseDb
  BY <1>3 DEF Drain, Crash, CloseDb
<1>4. CASE NonceReconciled
  BY <1>4 DEF NonceReconciled
<1>5. CASE PositionsReconciled
  BY <1>5 DEF PositionsReconciled, Beat, TypeOK
<1>6. ASSUME NEW answer \in Failing, StartupFails(answer)
      PROVE  ReadyIsReady'
  BY <1>6 DEF StartupFails
<1>7. CASE TryAgain \/ DiskFails \/ \E e \in Event : WritesRow(e)
  BY <1>7, RowWritten DEF TryAgain, DiskFails, RoundLeaves
<1>8. CASE BeginRound
  BY <1>8 DEF BeginRound, Beat, TypeOK
<1>9. ASSUME NEW answer \in Answers, EndRound(answer)
      PROVE  ReadyIsReady'
  BY <1>9 DEF EndRound
<1>10. CASE \E q \in Request : (\E e \in Event : Send(q, e)) \/ Handle(q) \/ Deliver(q) \/ Lose(q)
  BY <1>10 DEF Send, Handle, Deliver, Lose, task
<1>11. CASE Tick
  BY <1>11 DEF Tick, Older, TypeOK
<1>12. CASE UNCHANGED vars
  BY <1>12 DEF vars, task
<1> QED
  BY <1>1, <1>2, <1>3, <1>4, <1>5, <1>6, <1>7, <1>8, <1>9, <1>10, <1>11, <1>12
     DEF Next, Worker, WritesRow, Answers

-----------------------------------------------------------------------------
(* The rows: a stored signal stays stored, a decided one decided.          *)

\* Only two steps write a row at all.
LEMMA RowsWritten ==
  ASSUME TypeOK, [Next]_vars
  PROVE  \/ UNCHANGED rows
         \/ \E e \in Event : WritesRow(e)
         \/ \E q \in Request : Handle(q)
<1>1. CASE Worker
  BY <1>1 DEF Worker, NonceReconciled, PositionsReconciled, StartupFails, TryAgain, BeginRound,
              DiskFails, EndRound, WritesRow, Answers
<1>2. CASE Start \/ Signal \/ Drain \/ CloseDb \/ Crash \/ Tick \/ \E e \in Event : Expire(e)
  BY <1>2 DEF Start, Signal, Drain, CloseDb, Crash, Tick, Expire
<1>3. CASE \E q \in Request : (\E e \in Event : Send(q, e)) \/ Deliver(q) \/ Lose(q)
  BY <1>3 DEF Send, Deliver, Lose
<1>4. CASE UNCHANGED vars
  BY <1>4 DEF vars
<1> QED
  BY <1>1, <1>2, <1>3, <1>4 DEF Next

\* A row that is there is never taken away.
LEMMA RowsKept ==
  ASSUME TypeOK, [Next]_vars, NEW e \in Event
  PROVE  /\ rows[e] # "none" => rows'[e] # "none"
         /\ rows[e] \in {"TAKEN", "EXPIRED"} => rows'[e] = rows[e]
<1>1. CASE UNCHANGED rows
  BY <1>1
<1>2. ASSUME NEW d \in Event, WritesRow(d)
      PROVE  /\ rows[e] # "none" => rows'[e] # "none"
             /\ rows[e] \in {"TAKEN", "EXPIRED"} => rows'[e] = rows[e]
  BY <1>2, RowWritten DEF RoundLeaves, TypeOK
<1>3. ASSUME NEW q \in Request, Handle(q)
      PROVE  /\ rows[e] # "none" => rows'[e] # "none"
             /\ rows[e] \in {"TAKEN", "EXPIRED"} => rows'[e] = rows[e]
  <2>1. UNCHANGED rows \/ Accept(call[q].event)
    BY <1>3 DEF Handle
  <2> QED
    BY <2>1 DEF Accept, TypeOK
<1> QED
  BY RowsWritten, <1>1, <1>2, <1>3

\* What a reply under way says stays true until it arrives.
LEMMA NextReplies == ServiceInv /\ [Next]_vars => RepliesAreTrue'
<1> SUFFICES ASSUME ServiceInv, [Next]_vars, NEW q \in Request, call'[q].at = "stored"
             PROVE  rows'[call'[q].event] # "none"
  BY DEF RepliesAreTrue
<1> USE DEF ServiceInv
<1>1. TypeOK' /\ call'[q] # Idle'
  BY NextTypeOK DEF Idle
<1>2. call'[q].event \in Event
  BY <1>1 DEF TypeOK
<1>3. CASE call'[q] = call[q]
  BY <1>2, <1>3, RowsKept DEF RepliesAreTrue
<1>4. ASSUME NEW d \in Request, Handle(d), call'[q] # call[q]
      PROVE  rows'[call'[q].event] # "none"
  <2>1. d = q /\ call'[q].event = call[q].event
    BY <1>4 DEF Handle, Reply, TypeOK
  <2>2. Accept(call[q].event) \/ UNCHANGED rows
    BY <1>4, <2>1 DEF Handle
  <2>3. CASE Accept(call[q].event)
    BY <2>1, <2>3, <1>2 DEF Accept, TypeOK
  <2>4. CASE call'[q].at = "refused"
    BY <2>4
  <2> QED
    BY <1>4, <2>1, <2>3, <2>4 DEF Handle, Reply, TypeOK
<1>5. ASSUME NEW d \in Request, NEW e \in Event, Send(d, e)
      PROVE  call'[q] = call[q]
  BY <1>5 DEF Send, Reading, TypeOK
<1>6. ASSUME NEW d \in Request, Deliver(d) \/ Lose(d)
      PROVE  call'[q] = call[q]
  BY <1>6, <1>1 DEF Deliver, Lose, TypeOK, Idle
<1>7. CASE CloseDb \/ Crash
  BY <1>7, <1>1 DEF CloseDb, Crash, Idle
<1>8. CASE Start \/ Signal \/ Drain \/ Worker \/ Tick \/ (\E e \in Event : Expire(e)) \/ UNCHANGED vars
  <2>1. UNCHANGED call
    BY <1>8 DEF Start, Signal, Drain, Tick, Expire, Worker, NonceReconciled, PositionsReconciled,
                StartupFails, TryAgain, BeginRound, DiskFails, FindExpired, TakeUp, Recover,
                RoundLeaves, EndRound, intake, vars
  <2> QED
    BY <2>1, <1>3
<1> QED
  BY <1>3, <1>4, <1>5, <1>6, <1>7, <1>8 DEF Next

\* What the sender was told stays true.
LEMMA NextAcked == ServiceInv /\ [Next]_vars => AckedIsStored'
<1> SUFFICES ASSUME ServiceInv, [Next]_vars, NEW e \in acked'
             PROVE  rows'[e] # "none"
  BY DEF AckedIsStored
<1> USE DEF ServiceInv
<1>1. e \in Event
  BY NextTypeOK DEF TypeOK
<1>2. CASE e \in acked
  BY <1>1, <1>2, RowsKept DEF AckedIsStored
<1>3. ASSUME NEW q \in Request, Deliver(q), e \notin acked
      PROVE  rows'[e] # "none"
  <2>1. call[q].at = "stored" /\ e = call[q].event
    BY <1>3 DEF Deliver
  <2> QED
    BY <2>1, <1>1, RowsKept DEF RepliesAreTrue
<1>4. CASE ~ \E q \in Request : Deliver(q)
  <2>1. UNCHANGED acked
    BY <1>4 DEF Next, Start, Signal, Drain, CloseDb, Crash, Tick, Expire, Worker, NonceReconciled,
                PositionsReconciled, StartupFails, TryAgain, BeginRound, DiskFails, FindExpired,
                TakeUp, Recover, RoundLeaves, EndRound, Send, Handle, Lose, intake, vars
  <2> QED
    BY <2>1, <1>2
<1> QED
  BY <1>2, <1>3, <1>4

\* The inductive invariant holds in every state.
LEMMA ServiceInvariant == Spec => []ServiceInv
<1>1. ServiceInv /\ [Next]_vars => ServiceInv'
  BY NextTypeOK, NextReady, NextReplies, NextAcked DEF ServiceInv
<1> QED
  BY InitServiceInv, <1>1, PTL DEF Spec

\* /health never says "ok" of a process that has not compared its books with the
\* chain, or whose worker is late (health, run_worker_after_nonce_ready).
THEOREM HealthIsTrue == Spec => []HealthyMeansTrading
<1>1. ServiceInv => HealthyMeansTrading
  BY ServiceAssumption DEF ServiceInv, TypeOK, ReadyIsReady, HealthyMeansTrading, Healthy
<1> QED
  BY <1>1, ServiceInvariant, PTL

\* No crash, loss or retry makes the service forget what it acknowledged
\* (receive_signal, accept_signal).
THEOREM AckedStaysStored == Spec => []AckedIsStored
<1>1. ServiceInv => AckedIsStored
  BY DEF ServiceInv
<1> QED
  BY <1>1, ServiceInvariant, PTL

\* No retry queues a signal again that was taken up or given up
\* (accept_signal).
THEOREM NeverQueuedAgain == Spec => QueuedOnce
<1>1. TypeOK /\ [Next]_vars =>
        [\A e \in Event : rows[e] \in {"TAKEN", "EXPIRED"} => rows'[e] = rows[e]]_vars
  BY RowsKept
<1> QED
  BY <1>1, TypeCorrect, PTL DEF Spec, QueuedOnce
=============================================================================
