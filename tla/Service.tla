------------------------------- MODULE Service ------------------------------
(***************************************************************************)
(* The process of main.py: the signal intake and /health of api.py, served *)
(* from the start, beside a worker that starts trading only when nonce and *)
(* positions have been compared with the chain.  How a round buys is in    *)
(* TradingWorker: here it is what the round leaves of the signal's row.    *)
(***************************************************************************)
EXTENDS Naturals

CONSTANTS
  Event,      \* the signals that the sender may send, by event_id
  SidOf,      \* the signal_id of each, which the sender may use again
  Request,    \* the requests that may be under way at a time
  BeatEvery,  \* the ticks between two heartbeats, 5 s
  Stale,      \* the age at which a heartbeat is not stale yet, 15 s
  Faults,     \* what may go wrong, from the set:
              \*   "silent"   a call stays without an answer
              \*   "garbled"  a call is answered with a body that is no object
              \*   "disk"     the worker cannot write the database
              \*   "crash"    the process is killed
  none        \* a model value

ASSUME ServiceAssumption ==
  /\ BeatEvery \in Nat \ {0}
  /\ Stale \in Nat
  /\ BeatEvery < Stale
  /\ none \notin Nat \cup Event
  /\ Faults \subseteq {"silent", "garbled", "disk", "crash"}

VARIABLES
  life,     \* of the process: "down", "up" or "draining"
  live,     \* settings.live, read anew by every process
  stop,     \* the stop event, which SIGINT and SIGTERM set
  worker,   \* where the worker's task is
  status,   \* RPC.status
  pending,  \* the row worker_startup_pending
  beat,     \* the age of the row worker_heartbeat_at
  since,    \* the ticks since the worker began a round, or since the start
  compared, \* has this process compared nonce and positions with the chain?
  rows,     \* the signals' rows: "none", "RECEIVED", "PENDING" for a buy under way
            \*   (BUY_PENDING, BUY_SUBMITTED), "EXPIRED", or "TAKEN" for what follows
  expired,  \* the signals whose expires_at has passed
  call,     \* the requests under way
  acked     \* the signals that the sender was told are stored

task == <<worker, status, pending, beat, since, compared>>
intake == <<call, acked>>
vars == <<life, live, stop, task, rows, expired, intake>>

Idle == [event |-> none, at |-> "idle"]
Reading(e) == [event |-> e, at |-> "read"]
Reply(e, answer) == [event |-> e, at |-> answer]

\* Accepted or a duplicate, 202 or 200, is "stored"; rejected, or a signal_id
\* that another event has used, 400 or 500, is "refused".
Answer == {"stored", "refused"}

Init ==
  /\ life = "down" /\ live = FALSE /\ stop = FALSE
  /\ worker = "ended" /\ status = "not_checked"
  /\ pending = FALSE /\ beat = none
  /\ since = 0 /\ compared = FALSE
  /\ rows = [e \in Event |-> "none"] /\ expired = {}
  /\ call = [q \in Request |-> Idle] /\ acked = {}

-----------------------------------------------------------------------------
(* The process.                                                            *)

\* The rows of the last process are reset before anything is served.
Start ==
  /\ life = "down"
  /\ life' = "up" /\ live' \in BOOLEAN /\ stop' = FALSE
  /\ worker' = "nonce" /\ status' = "not_checked"
  /\ pending' = TRUE /\ beat' = none
  /\ since' = 0 /\ compared' = FALSE
  /\ UNCHANGED <<rows, expired, intake>>

Signal ==
  /\ life = "up" /\ ~stop
  /\ stop' = TRUE
  /\ UNCHANGED <<life, live, task, rows, expired, intake>>

\* Mutant: only a signal ends the wait.
DrainOnSignal ==
  /\ life = "up" /\ stop
  /\ life' = "draining" /\ worker' = "ended"
  /\ UNCHANGED <<live, stop, status, pending, beat, since, compared, rows, expired, intake>>

\* A signal, or the end of the worker's task, whatever ended it.
Drain ==
  /\ life = "up"
  /\ stop \/ worker = "dead"
  /\ life' = "draining" /\ worker' = "ended"
  /\ UNCHANGED <<live, stop, status, pending, beat, since, compared, rows, expired, intake>>

\* Mutant: the database is closed before the handlers are done.
CloseDbFirst ==
  /\ life = "draining"
  /\ life' = "down"
  /\ UNCHANGED <<live, stop, task, rows, expired, intake>>

\* Handlers that do not end are cancelled; then the database is closed.
CloseDb ==
  /\ life = "draining"
  /\ life' = "down"
  /\ call' = [q \in Request |-> Idle]
  /\ UNCHANGED <<live, stop, task, rows, expired, acked>>

\* Mutant: what waits to be traded is kept in memory.
CrashLosesQueue ==
  /\ "crash" \in Faults /\ life # "down"
  /\ life' = "down" /\ worker' = "ended"
  /\ rows' = [e \in Event |-> IF rows[e] = "RECEIVED" THEN "none" ELSE rows[e]]
  /\ call' = [q \in Request |-> Idle]
  /\ UNCHANGED <<live, stop, status, pending, beat, since, compared, expired, acked>>

Crash ==
  /\ "crash" \in Faults /\ life # "down"
  /\ life' = "down" /\ worker' = "ended"
  /\ call' = [q \in Request |-> Idle]
  /\ UNCHANGED <<live, stop, status, pending, beat, since, compared, rows, expired, acked>>

-----------------------------------------------------------------------------
(* The worker's task.                                                      *)

Failing == Faults \cap {"silent", "garbled"}

\* The last answer that a step got, or "none" where it asked for nothing.
Heard(answer) ==
  status' = CASE answer = "ok"                -> "ok"
              [] answer = "silent"            -> "degraded"
              [] answer \in {"garbled", "none"} -> status

\* Each round begins with a heartbeat if it is time for one.
Beat ==
  /\ beat' = IF beat = none \/ beat >= BeatEvery THEN 0 ELSE beat
  /\ since' = 0
  /\ worker' = "round"

\* Mutant: the nonce is enough to be ready.
NonceReconciledReady ==
  /\ worker = "nonce"
  /\ Heard("ok")
  /\ worker' = "positions" /\ pending' = FALSE
  /\ UNCHANGED <<life, live, stop, beat, since, compared, rows, expired, intake>>

NonceReconciled ==
  /\ worker = "nonce"
  /\ Heard("ok")
  /\ worker' = "positions"
  /\ UNCHANGED <<life, live, stop, pending, beat, since, compared, rows, expired, intake>>

\* Mutant: the flag of the start is left as it was.
PositionsReconciledSilently ==
  /\ worker = "positions"
  /\ Heard("ok")
  /\ compared' = TRUE
  /\ Beat
  /\ UNCHANGED <<life, live, stop, pending, rows, expired, intake>>

PositionsReconciled ==
  /\ worker = "positions"
  /\ Heard("ok")
  /\ pending' = FALSE /\ compared' = TRUE
  /\ Beat
  /\ UNCHANGED <<life, live, stop, rows, expired, intake>>

\* An RPCError is waited out, with doubling delays; any other exception, as a
\* garbled body raises it, ends the task.
StartupFails(answer) ==
  /\ worker \in {"nonce", "positions"}
  /\ Heard(answer)
  /\ \/ answer = "silent" /\ worker' = "backoff" /\ pending' = TRUE
     \/ answer = "garbled" /\ worker' = "dead" /\ UNCHANGED pending
  /\ UNCHANGED <<life, live, stop, beat, since, compared, rows, expired, intake>>

TryAgain ==
  /\ worker = "backoff"
  /\ worker' = "nonce"
  /\ UNCHANGED <<life, live, stop, status, pending, beat, since, compared, rows, expired, intake>>

BeginRound ==
  /\ worker = "rest"
  /\ Beat
  /\ UNCHANGED <<life, live, stop, status, pending, compared, rows, expired, intake>>

\* A write that fails ends the task: of the start, of a heartbeat, or of the note
\* that a round leaves of its exception.
DiskFails ==
  /\ "disk" \in Faults
  /\ \/ worker \in {"nonce", "positions", "round"}
     \/ worker = "rest" /\ beat >= BeatEvery
  /\ worker' = "dead"
  /\ UNCHANGED <<life, live, stop, status, pending, beat, since, compared, rows, expired, intake>>

Recovering(e) == rows[e] = "PENDING"

\* A round looks at no signal while a buy is being recovered, nor without live
\* trading.  That it looks at the oldest one is left open.
Looks(e) ==
  /\ worker = "round" /\ live
  /\ rows[e] = "RECEIVED"
  /\ ~ \E d \in Event : Recovering(d)

\* What a round makes of one signal, and the last answer that it heard.
RoundLeaves(e, row, answer) ==
  /\ rows' = [rows EXCEPT ![e] = row]
  /\ Heard(answer)
  /\ worker' = "rest"
  /\ UNCHANGED <<life, live, stop, pending, beat, since, compared, expired, intake>>

\* Mutant: a signal that has expired is passed over.
PassOverExpired(e) == Looks(e) /\ e \in expired /\ RoundLeaves(e, "RECEIVED", "none")

\* This asks the endpoint nothing.
FindExpired(e) == Looks(e) /\ e \in expired /\ RoundLeaves(e, "EXPIRED", "none")

\* It stays RECEIVED for an RPC error or an approval under way, becomes PENDING
\* for an answer that is late or ambiguous, or for a process that is killed
\* before the round ends, and otherwise ends in what it was decided to be.
TakeUp(e, answer) ==
  /\ Looks(e) /\ e \notin expired
  /\ \E row \in {"RECEIVED", "PENDING", "TAKEN"} : RoundLeaves(e, row, answer)

\* A buy that was never sent is RECEIVED again, and one whose transaction is not
\* found once it has expired is EXPIRED.  One whose order and signal were torn apart
\* by a crash stays for ever, as one whose receipt is missing may.
Recover(e, answer) ==
  /\ worker = "round" /\ Recovering(e)
  /\ \E row \in {"RECEIVED", "PENDING", "EXPIRED", "TAKEN"} :
       (row = "EXPIRED" => e \in expired) /\ RoundLeaves(e, row, answer)

\* A round that finds no signal to look at, or ends before it with an exception
\* of the comparison of positions.
EndRound(answer) ==
  /\ worker = "round"
  /\ answer \in Failing \/ ~ \E e \in Event : Looks(e) \/ Recovering(e)
  /\ Heard(answer)
  /\ worker' = "rest"
  /\ UNCHANGED <<life, live, stop, pending, beat, since, compared, rows, expired, intake>>

-----------------------------------------------------------------------------
(* The intake, which the sender may repeat at will.                        *)

Send(q, e) ==
  /\ life = "up" /\ call[q] = Idle
  /\ call' = [call EXCEPT ![q] = Reading(e)]
  /\ UNCHANGED <<life, live, stop, task, rows, expired, acked>>

\* signal_id is the primary key: another event's row makes the insert fail.
Clashes(e) == \E d \in Event \ {e} : SidOf[d] = SidOf[e] /\ rows[d] # "none"

\* Mutant: INSERT OR REPLACE, whatever the event's row says.
AcceptReplacing(e) == rows' = [rows EXCEPT ![e] = "RECEIVED"]

Accept(e) == rows' = [rows EXCEPT ![e] = IF @ = "none" THEN "RECEIVED" ELSE @]

\* What parse refuses of a signal that it accepted before; one that is not well
\* formed or not eligible never is.
Rejected(e) == e \in expired

\* From the body's last byte to the commit nothing is awaited.
Handle(q) ==
  LET e == call[q].event
      refused == Rejected(e) \/ (rows[e] = "none" /\ Clashes(e))
  IN  /\ call[q].at = "read"
      /\ IF refused THEN UNCHANGED rows ELSE Accept(e)
      /\ call' = [call EXCEPT ![q] = Reply(e, IF refused THEN "refused" ELSE "stored")]
      /\ UNCHANGED <<life, live, stop, task, expired, acked>>

Deliver(q) ==
  /\ call[q].at \in Answer
  /\ acked' = IF call[q].at = "stored" THEN acked \cup {call[q].event} ELSE acked
  /\ call' = [call EXCEPT ![q] = Idle]
  /\ UNCHANGED <<life, live, stop, task, rows, expired>>

\* The connection is lost, before the body or before the reply has arrived.
Lose(q) ==
  /\ call[q] # Idle
  /\ call' = [call EXCEPT ![q] = Idle]
  /\ UNCHANGED <<life, live, stop, task, rows, expired, acked>>

-----------------------------------------------------------------------------
(* The clock.                                                              *)

Older(age, limit) == IF age > limit THEN age ELSE age + 1

Tick ==
  /\ life # "down"
  /\ beat' = IF beat = none THEN none ELSE Older(beat, Stale)
  /\ since' = Older(since, Stale)
  /\ UNCHANGED <<life, live, stop, worker, status, pending, compared, rows, expired, intake>>

Expire(e) ==
  /\ e \notin expired
  /\ expired' = expired \cup {e}
  /\ UNCHANGED <<life, live, stop, task, rows, intake>>

Worker ==
  \/ NonceReconciled
  \/ PositionsReconciled
  \/ \E answer \in Failing : StartupFails(answer)
  \/ TryAgain
  \/ BeginRound
  \/ DiskFails
  \/ \E e \in Event : FindExpired(e)
  \/ \E e \in Event, answer \in {"ok", "none"} \cup Failing : \/ TakeUp(e, answer)
                                                          \/ Recover(e, answer)
  \/ \E answer \in {"ok", "none"} \cup Failing : EndRound(answer)

Next ==
  \/ Start \/ Signal \/ Drain \/ CloseDb \/ Crash
  \/ Worker
  \/ \E q \in Request : \/ \E e \in Event : Send(q, e)
                        \/ Handle(q) \/ Deliver(q) \/ Lose(q)
  \/ Tick
  \/ \E e \in Event : Expire(e)

Spec == Init /\ [][Next]_vars

(***************************************************************************)
(* The container is restarted unless it was stopped, and one that was      *)
(* stopped is started again; the endpoint answers the start now and then,  *)
(* and the process lives, now and then, until it does and until a round    *)
(* looks at a signal; time passes.  What the round makes of a signal that  *)
(* has not expired is left open.                                           *)
(***************************************************************************)
Fairness ==
  /\ WF_vars(Start)
  /\ WF_vars(Drain \/ CloseDb)
  /\ WF_vars(TryAgain)
  /\ SF_vars(NonceReconciled)
  /\ SF_vars(PositionsReconciled)
  /\ SF_vars(BeginRound)
  /\ SF_vars(\E e \in Event : \/ FindExpired(e)
                              \/ \E answer \in {"ok", "none"} \cup Failing : TakeUp(e, answer))
  /\ \A e \in Event : WF_vars(Expire(e))

FairSpec == Spec /\ Fairness

TypeOK ==
  /\ life \in {"down", "up", "draining"}
  /\ live \in BOOLEAN
  /\ stop \in BOOLEAN
  /\ worker \in {"nonce", "positions", "backoff", "rest", "round", "dead", "ended"}
  /\ status \in {"not_checked", "ok", "degraded"}
  /\ pending \in BOOLEAN
  /\ beat \in {none} \cup 0 .. Stale + 1
  /\ since \in 0 .. Stale + 1
  /\ compared \in BOOLEAN
  /\ rows \in [Event -> {"none", "RECEIVED", "PENDING", "EXPIRED", "TAKEN"}]
  /\ expired \subseteq Event
  /\ call \in [Request -> {Idle} \cup [event : Event, at : Answer \cup {"read"}]]
  /\ acked \subseteq Event
  /\ life # "up" => worker = "ended"
  /\ life = "down" => \A q \in Request : call[q] = Idle

\* What /health answers: "ok", as far as it does not hang on stuck positions.
Healthy ==
  /\ life = "up"
  /\ beat # none => beat <= Stale
  /\ ~pending
  /\ status # "degraded"

-----------------------------------------------------------------------------
\* /health says "ok" only of a process that has itself compared nonce and
\* positions with the chain and whose worker began a round within the last 15 s,
\* whatever rows an earlier process left (serve, run_worker_after_nonce_ready,
\* run, health).
HealthyMeansTrading == Healthy => compared /\ since <= Stale

\* A signal that the sender was told is stored is stored, whatever crashed, was
\* lost or was sent again since (receive_signal, accept_signal).
AckedIsStored == \A e \in acked : rows[e] # "none"

\* A signal is queued once: none that was taken up, or given up, is queued again
\* by a retry of the sender or a recovery (accept_signal, buy_once).
QueuedOnce ==
  [][\A e \in Event : rows[e] \in {"TAKEN", "EXPIRED"} => rows'[e] = rows[e]]_vars

\* The start ends, once the endpoint answers, unless the process does.
StartupEnds == life = "up" /\ pending ~> life # "up" \/ ~pending

\* A process whose worker has ended, or that is told to stop, does not linger
\* with its server only (serve).
ShutdownEnds == life = "up" /\ (stop \/ worker = "dead") ~> life = "down"

\* Where trading is live from some time on, and no buy is under recovery for ever,
\* a signal that was accepted, be it during a start, is decided or found expired in
\* the end, in this process or a later one, however often its rounds fail (buy_once,
\* run).  Without live trading it stays RECEIVED, and behind a buy that a crash tore
\* apart it waits for ever.
AcceptedIsDecided ==
  <>[]live /\ []<>(~ \E d \in Event : Recovering(d)) =>
    \A e \in Event : rows[e] = "RECEIVED" ~> rows[e] \in {"TAKEN", "EXPIRED"}
=============================================================================
