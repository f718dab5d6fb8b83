-------------------------------- MODULE Watch -------------------------------
(***************************************************************************)
(* The watch over one event: buy_once and sell_once of worker.py up to and *)
(* past the quote, with the quotes of uniswap.py made of concurrent calls  *)
(* of RpcClient.  gather hands on the first exception at once and cancels  *)
(* nothing: the other calls go on as orphans, beside the next round's.     *)
(*                                                                         *)
(* Approvals, signing and receipts are in Submission and TradingWorker:    *)
(* here a transaction, once its path is chosen, succeeds or does not.      *)
(***************************************************************************)
EXTENDS RpcClient, Sequences, Functions

CONSTANTS
  Candidates, \* the sets of routes that may be quoted for a pool
  Quote,      \* what a quoter may answer besides zero
  Cost,       \* position.actual_cost
  MaxQuotes,  \* bounds the quotes that a position gets
  none        \* a model value

Route == UNION Candidates

ASSUME WatchAssumption ==
  /\ Quote \subseteq Nat \ {0}
  /\ Cost \in Nat \ {0}
  /\ \A routes \in Candidates : routes # {} /\ IsFiniteSet(routes)
  /\ none \notin Route \cup {"permit2"}

VARIABLES
  pool,     \* the pool of the signal, once and for all
  side,     \* "BUY" until the position is opened, "SELL", "END"
  phase,    \* of the worker: "rest", "gather" or "trade"
  job,      \* the quote that a task is to bring to this round's gather
  heard,    \* what the gather has for each of its calls
  path,     \* the candidate that the pool's entry names
  prev,     \* the exit_quote row, 0 if there is none
  latch,    \* the emergency_exit row
  quotes,   \* every quote of the position that was acted on
  verdict   \* how the last round was decided

round == <<pool, side, phase, job, heard, path>>
rows == <<prev, latch, quotes, verdict>>
vars  == <<client, round, rows>>

\* A pool is V2 or direct V4, or V3 or bridged V4, where a refused candidate is
\* left out; V4 buys also ask whether the token lets Permit2 be approved.
Pools == {p \in [routes : Candidates, lenient : BOOLEAN, permit2 : BOOLEAN] :
            p.lenient \/ Cardinality(p.routes) = 1}

Calls == pool.routes \cup (IF pool.permit2 /\ side = "BUY" THEN {"permit2"} ELSE {})

Waiting == [tag |-> "waiting", out |-> 0]
Reply == {[tag |-> "ok", out |-> q] : q \in Quote \cup {0}}
           \cup {[tag |-> e, out |-> 0] : e \in Errors}

Init ==
  /\ RpcInit
  /\ pool \in Pools
  /\ side = "BUY" /\ phase = "rest"
  /\ job = [t \in Task |-> none]
  /\ heard = [c \in Route \cup {"permit2"} |-> Waiting]
  /\ path = none
  /\ prev = 0 /\ latch = FALSE
  /\ quotes = << >>
  /\ verdict = "none"

-----------------------------------------------------------------------------
(* A round.                                                                *)

\* The calls of a round begin together, each in a task of its own (which one
\* makes no difference).  A buy resolves its pool anew in every round.
StartRound ==
  /\ phase = "rest" /\ side # "END"
  /\ Len(quotes) < MaxQuotes
  /\ Cardinality(Calls) <= Cardinality(Idle)
  /\ LET task == CHOOSE f \in Injection(Calls, Idle) : TRUE
     IN  /\ Begin(Range(task))
         /\ job' = [t \in Task |-> IF t \in Range(task) THEN Inverse(task, Calls, Idle)[t] ELSE job[t]]
  /\ phase' = "gather"
  /\ heard' = [c \in DOMAIN heard |-> Waiting]
  /\ path' = IF side = "BUY" THEN none ELSE path
  /\ verdict' = "none"
  /\ UNCHANGED <<pool, side, prev, latch, quotes>>

\* Mutant: a candidate that stays rate-limited is left out like a refused one.
LeftOutEvenLimited(c, outcome) ==
  pool.lenient /\ c # "permit2" /\ outcome \in {"refused", "limited"}

LeftOut(c, outcome) == pool.lenient /\ c # "permit2" /\ outcome = "refused"

Best(replies) ==
  CHOOSE c \in pool.routes : \A d \in pool.routes : replies[d].out <= replies[c].out

\* Mutant: each candidate that is quoted writes itself into the pool's entry.
PathOfEachQuote(c, replies, quoted) == IF c = "permit2" THEN path ELSE c

\* The pool's entry is written once, when every candidate is quoted.
PathAfter(c, replies, quoted) == IF quoted THEN Best(replies) ELSE path

Decided(v, next) == verdict' = v /\ phase' = next

\* An RPCError, or one that only run() catches: the next round tries again.
Transient == Decided("transient", "rest") /\ UNCHANGED <<side, prev, latch, quotes>>

\* An ExecutionFailure ends a buy for good; a sell stays open.
Refused(v) ==
  /\ Decided(v, "rest")
  /\ side' = IF side = "BUY" THEN "END" ELSE side
  /\ UNCHANGED <<prev, latch, quotes>>

BuyQuoted == Decided("buy", "trade") /\ UNCHANGED <<side, prev, latch, quotes>>

Reached(q) == q * 10 >= Cost * 14
FromEntry(q) == q * 10 <= Cost
FromPrevious(q) == prev # 0 /\ q * 10 <= prev

SellQuoted(q) ==
  LET crash == latch \/ FromEntry(q) \/ FromPrevious(q)
  IN  /\ IF crash \/ Reached(q) THEN Decided("sell", "trade") ELSE Decided("hold", "rest")
      /\ prev' = q
      /\ latch' = crash
      /\ quotes' = Append(quotes, q)
      /\ UNCHANGED side

\* A call brings its outcome to the gather that waits for it.
Deliver(t, reply) ==
  LET c == job[t]
      outcome == Outcome(t, reply.tag)
      replies == [heard EXCEPT ![c] = reply]
      quoted == \A d \in pool.routes : replies[d] # Waiting
      best == replies[Best(replies)].out
      raises == outcome # "ok" /\ ~LeftOut(c, outcome)
      fails == raises \/ (quoted /\ best = 0)
  IN  /\ heard' = replies
      /\ job' = [d \in Task |-> IF fails \/ d = t THEN none ELSE job[d]]
      /\ path' = IF fails THEN path ELSE PathAfter(c, replies, quoted)
      /\ UNCHANGED pool
      /\ \/ raises /\ c = "permit2" /\ outcome = "refused" /\ Refused("unsupported")
         \/ raises /\ ~(c = "permit2" /\ outcome = "refused") /\ Transient
         \/ ~raises /\ fails /\ Refused("zero")
         \/ /\ ~fails
            /\ IF \E d \in Calls : replies[d] = Waiting
               THEN UNCHANGED <<side, phase, rows>>
               ELSE IF side = "BUY" THEN BuyQuoted ELSE SellQuoted(best)

\* A request is answered, in a call of this round or in an orphan.
Return(t) ==
  \E reply \in Reply :
    /\ Answer(t, reply.tag)
    /\ IF Outcome(t, reply.tag) = "again" \/ job[t] = none
       THEN UNCHANGED <<round, rows>>
       ELSE Deliver(t, reply)

-----------------------------------------------------------------------------
(* After the quote.                                                        *)

Bought ==
  /\ phase = "trade" /\ side = "BUY"
  /\ side' = "SELL" /\ phase' = "rest" /\ path' = none
  /\ UNCHANGED <<client, pool, job, heard, rows>>

Sold ==
  /\ phase = "trade" /\ side = "SELL"
  /\ side' = "END" /\ phase' = "rest"
  /\ prev' = 0 /\ latch' = FALSE
  /\ UNCHANGED <<client, pool, job, heard, path, quotes, verdict>>

\* It waits for an approval, cannot be built or sent, or is reverted.
NotTraded ==
  /\ phase = "trade"
  /\ phase' = "rest"
  /\ UNCHANGED <<client, pool, side, job, heard, path, rows>>

\* The process stops and starts again: only the rows are left.
\* Mutant: the latch is kept in memory.
StopForgetsLatch ==
  /\ RpcReset
  /\ phase' = "rest" /\ path' = none
  /\ job' = [t \in Task |-> none]
  /\ latch' = FALSE
  /\ UNCHANGED <<pool, side, heard, prev, quotes, verdict>>

Stop ==
  /\ RpcReset
  /\ phase' = "rest" /\ path' = none
  /\ job' = [t \in Task |-> none]
  /\ UNCHANGED <<pool, side, heard, rows>>

-----------------------------------------------------------------------------
Work(t) == Return(t) \/ (Step(t) /\ UNCHANGED <<round, rows>>)

Next ==
  \/ StartRound
  \/ Tick /\ UNCHANGED <<round, rows>>
  \/ \E t \in Task : Work(t)
  \/ Bought
  \/ Sold
  \/ NotTraded
  \/ Stop

Spec == Init /\ [][Next]_vars

(***************************************************************************)
(* Requests end, at the latest with aiohttp's timeout; sleeps end; lock    *)
(* and semaphore are handed on in the order of arrival, so none who waits  *)
(* is passed over for ever.  Nothing makes a process start a round.        *)
(***************************************************************************)
Fairness ==
  /\ WF_vars(Tick /\ UNCHANGED <<round, rows>>)
  /\ \A t \in Task : SF_vars(Work(t))

FairSpec == Spec /\ Fairness

TypeOK ==
  /\ RpcTypeOK
  /\ pool \in Pools
  /\ side \in {"BUY", "SELL", "END"}
  /\ phase \in {"rest", "gather", "trade"}
  /\ job \in [Task -> Route \cup {"permit2", none}]
  /\ heard \in [Route \cup {"permit2"} -> Reply \cup {Waiting}]
  /\ path \in Route \cup {none}
  /\ prev \in Quote \cup {0}
  /\ latch \in BOOLEAN
  /\ quotes \in Seq(Quote)
  /\ verdict \in {"none", "transient", "zero", "unsupported", "buy", "hold", "sell"}

-----------------------------------------------------------------------------
\* ZERO_QUOTE is the market's word: it is reported, and a buy given up for it,
\* only when every candidate's contract answered zero or reverted, never for
\* what an endpoint or a network did; in the same way a token is held to be
\* unfit for Permit2 only if its contract says so (docs/ARCHITECTURE.md:48, 53;
\* _quote_v3, _quote_v4, _assert_v4_permit2_compatible).
RefusalsAreTheMarkets ==
  /\ verdict = "zero" =>
       \A c \in pool.routes : heard[c].out = 0 /\ heard[c].tag \in {"ok", "reverted"}
  /\ verdict = "unsupported" => heard["permit2"].tag = "reverted"

\* What is traded is the best of this round's quotes, on the path it was quoted
\* for, whatever the calls of earlier rounds that are still under way bring
\* (quote_candidate, path_buy, path_sell, _selected_v4_*).
TradesTheBestQuote ==
  phase = "trade" =>
    /\ path \in pool.routes
    /\ \A c \in pool.routes : heard[c] # Waiting /\ heard[c].out <= heard[path].out
    /\ side = "SELL" => heard[path].out = quotes[Len(quotes)]

Crash(i) ==
  \/ quotes[i] * 10 <= Cost
  \/ i > 1 /\ quotes[i] * 10 <= quotes[i - 1]

\* The only two ways out (docs/ARCHITECTURE.md:33, 55): a quote sells if and only
\* if it reaches 140 % of the cost, or it or an earlier one since the position
\* was opened was a crash from the cost or from the quote before it, however
\* many sales failed, quotes failed or restarts came between.
ExitsWhenDue ==
  verdict \in {"hold", "sell"} =>
    (verdict = "sell" <=> \/ Reached(quotes[Len(quotes)])
                          \/ \E i \in DOMAIN quotes : Crash(i))

\* Every round comes to its end, though orphans of earlier rounds hold slots and
\* turns of the rate limit.
RoundsEnd == phase = "gather" ~> phase # "gather"
=============================================================================
