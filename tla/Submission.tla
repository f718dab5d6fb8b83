----------------------------- MODULE Submission -----------------------------
(***************************************************************************)
(* How the adapter gets transactions out: the nonces that nonce.py hands   *)
(* out, _base_transaction and _submit of uniswap.py, and the approvals     *)
(* that precede a swap, over a chain that includes the transactions of the *)
(* wallet in the order of their nonces.                                    *)
(*                                                                         *)
(* The worker runs this code for one event at a time.  What makes it take  *)
(* up an event, and what it does with a swap's receipt, is TradingWorker;  *)
(* here an event may be taken up whenever its order is open and no order   *)
(* of its side is in flight.  pc says what comes next:                     *)
(*   startup    nonce.reconcile, before the worker runs                    *)
(*   idle       another event, or a receipt                                *)
(*   allowance  read an allowance      send     broadcast                  *)
(*   recover    the pending approval   probe    a receipt despite an error *)
(*   base       gas price and nonce    record   the attempt's row          *)
(*   sign       sign_transaction       wait     the approval's receipt     *)
(*   reconcile  nonce.reconcile, after a buy that was not found            *)
(***************************************************************************)
EXTENDS Naturals, Sequences

CONSTANTS
  Event,
  Buys,        \* the events whose swap is a BUY; the others SELL
  Needs,       \* the approvals that the swap of an event needs, in order
  MaxTx,       \* how many transactions are ever signed
  Scenarios    \* what the environment may do wrong, one set of these a run:
               \*   "stop"      the process stops and starts again
               \*   "drop"      the sequencer refuses or loses a transaction
               \*   "revert"    an included transaction is reverted
               \*   "lag"       the pending count misses what was just sent
               \*   "signing"   sign_transaction raises
               \*   "silent"    nonce.reconcile has no answer that the code
               \*               reads, but for the one at startup, which waits
               \*   "lapse"     the Permit2 allowance expires
               \*   "mismatch"  a broadcast is answered with another hash
               \*   "garbled"   the reply to a broadcast, or to the look for
               \*               a receipt after it, is no JSON object, which
               \*               raises what no handler of _submit expects

Approval == {"erc20", "permit2"}
Fault == {"stop", "drop", "revert", "lag", "signing", "silent", "lapse", "mismatch",
          "garbled"}

ASSUME SubmissionAssumption ==
  /\ Buys \subseteq Event
  /\ Needs \in [Event -> {<<>>, <<"erc20">>, <<"erc20", "permit2">>}]
  /\ MaxTx \in Nat
  /\ Scenarios \subseteq SUBSET Fault

VARIABLES
  txs,        \* every transaction signed so far; its index stands for its hash
  account,    \* the wallet's nonce: how many of them the chain included
  allowed,    \* the approvals in force for each event's token
  nextNonce,  \* nonce_state.next_nonce
  attempt,    \* the latest execution_attempts row with side APPROVAL
  order,      \* the order of each event (see OrderStatus)
  hash,       \* its tx_hash, 0 for null
  pc,
  ev,         \* the event that is worked on
  step,       \* its step: an index into Needs[ev], or one past it, the swap
  nonce,      \* the nonce reserved for it, until it is signed
  ambiguous,  \* did its broadcast end in SubmissionUnknown?
  faults      \* the scenario of this behaviour

durable == <<nextNonce, attempt, order, hash>>
chain == <<txs, account, allowed>>
work == <<pc, ev, step, nonce, ambiguous>>
vars == <<chain, durable, work, faults>>

Label == {"startup", "idle", "allowance", "recover", "base", "sign", "send",
          "probe", "record", "wait", "reconcile"}

\* A transaction that is "signed" never left the process unless it is being
\* sent now; one that is "sent" may yet be included.
TxStatus == {"signed", "sent", "ok", "reverted", "lost"}
Tx == [event : Event, kind : Approval \cup {"swap"}, nonce : Nat, status : TxStatus]

\* "open": CREATED, or to be tried again; "inflight": SIGNED, SUBMITTED or
\* UNKNOWN; "done": CONFIRMED; "failed": never tried again.
OrderStatus == {"open", "inflight", "done", "failed"}
AttemptStatus == {"none", "SUBMITTED", "UNKNOWN", "CONFIRMED", "REVERTED"}

Init ==
  /\ txs = <<>> /\ account = 0
  /\ allowed = [e \in Event |-> {}]
  /\ nextNonce = 0
  /\ attempt = [e \in Event |-> [status |-> "none", tx |-> 0]]
  /\ order = [e \in Event |-> "open"]
  /\ hash = [e \in Event |-> 0]
  /\ pc = "startup" /\ step = 1 /\ nonce = 0 /\ ambiguous = FALSE
  /\ ev \in Event
  /\ faults \in Scenarios

-----------------------------------------------------------------------------
(* The chain.                                                              *)

Live == {i \in DOMAIN txs : txs[i].status = "sent"}
Included == {i \in DOMAIN txs : txs[i].status \in {"ok", "reverted"}}
LiveNonces == {txs[i].nonce : i \in Live}

\* eth_getTransactionCount, 'pending': the included transactions and those
\* that can follow them, unless it lags.
PendingCount(n) ==
  \/ /\ n \in account .. account + Len(txs)
     /\ n \notin LiveNonces
     /\ account .. n - 1 \subseteq LiveNonces
  \/ "lag" \in faults /\ n = account

SetTx(i, status) == txs' = [txs EXCEPT ![i].status = status]

\* What an included transaction leaves in force.  A swap uses up the exact
\* amount that was approved for it.
Effect(t) ==
  IF t.kind = "swap" THEN {} ELSE allowed[t.event] \cup {t.kind}

\* The transaction with the next nonce is included, and no other one with it.
Include(i) ==
  /\ i \in Live /\ txs[i].nonce = account
  /\ account' = account + 1
  /\ \E status \in {"ok"} \cup (IF "revert" \in faults THEN {"reverted"} ELSE {}) :
       /\ txs' = [j \in DOMAIN txs |->
                    IF j = i THEN [txs[j] EXCEPT !.status = status]
                    ELSE IF j \in Live /\ txs[j].nonce = account
                         THEN [txs[j] EXCEPT !.status = "lost"]
                         ELSE txs[j]]
       /\ allowed' = IF status = "ok"
                     THEN [allowed EXCEPT ![txs[i].event] = Effect(txs[i])]
                     ELSE allowed
  /\ UNCHANGED <<durable, work, faults>>

Lose(i) ==
  /\ "drop" \in faults
  /\ i \in Live
  /\ SetTx(i, "lost")
  /\ UNCHANGED <<account, allowed, durable, work, faults>>

Lapse(e) ==
  /\ "lapse" \in faults
  /\ "permit2" \in allowed[e]
  /\ allowed' = [allowed EXCEPT ![e] = @ \ {"permit2"}]
  /\ UNCHANGED <<txs, account, durable, work, faults>>

ChainStep ==
  \/ \E i \in DOMAIN txs : Include(i) \/ Lose(i)
  \/ \E e \in Event : Lapse(e)

-----------------------------------------------------------------------------
(* Control.                                                                *)

IsSwap == step > Len(Needs[ev])
Kind == IF IsSwap THEN "swap" ELSE Needs[ev][step]
Last == Len(txs)

Goto(l) == pc' = l /\ UNCHANGED <<ev, step, nonce, ambiguous>>
GoIdle == pc' = "idle" /\ step' = 1 /\ nonce' = 0 /\ ambiguous' = FALSE /\ UNCHANGED ev
StepOf(e, n) == IF n <= Len(Needs[e]) THEN "allowance" ELSE "base"

\* The approval is in place, as far as the code can tell.
Advance ==
  /\ step' = step + 1
  /\ pc' = StepOf(ev, step + 1)
  /\ UNCHANGED <<ev, nonce, ambiguous>>

\* What buy_once and sell_once make of an order that was not sent, or of one
\* whose approval failed: a buy is over, a sell is tried again.
Fail == order' = [order EXCEPT ![ev] = IF ev \in Buys THEN "failed" ELSE "open"]

Attempt(status) == attempt' = [attempt EXCEPT ![ev] = [status |-> status, tx |-> Last]]
ResolveAttempt(status) == attempt' = [attempt EXCEPT ![ev].status = status]

-----------------------------------------------------------------------------
(* nonce.py.                                                               *)

\* Mutant: the stored nonce is ignored.
ReserveFromChain ==
  \E n \in account .. account + Len(txs) :
    /\ PendingCount(n)
    /\ nonce' = n /\ nextNonce' = n + 1

ReserveNonce ==
  \E n \in account .. account + Len(txs) :
    /\ PendingCount(n)
    /\ nonce' = IF n < nextNonce THEN nextNonce ELSE n
    /\ nextNonce' = nonce' + 1

ReconcileNonce ==
  \E n \in account .. account + Len(txs) : PendingCount(n) /\ nextNonce' = n

\* _base_transaction.  estimateGas runs the transaction, so that of a swap
\* fails (see RpcFailure) unless all that it needs is allowed.
Reserve ==
  /\ pc = "base" /\ Len(txs) < MaxTx
  /\ IsSwap => \A k \in DOMAIN Needs[ev] : Needs[ev][k] \in allowed[ev]
  /\ ReserveNonce
  /\ pc' = "sign" /\ UNCHANGED <<ev, step, ambiguous>>
  /\ UNCHANGED <<chain, attempt, order, hash, faults>>

\* Mutant: a restart keeps the stored nonce.
StartupKeepsNonce ==
  /\ pc = "startup"
  /\ GoIdle
  /\ UNCHANGED <<chain, durable, faults>>

\* run_worker_after_nonce_ready tries again until this is answered.
Startup ==
  /\ pc = "startup"
  /\ ReconcileNonce
  /\ GoIdle
  /\ UNCHANGED <<chain, attempt, order, hash, faults>>

-----------------------------------------------------------------------------
(* The worker takes up an event, or finds out what became of a swap.       *)

SameSide(e, f) == e \in Buys <=> f \in Buys

Start(e) ==
  /\ pc = "idle"
  /\ order[e] = "open"
  /\ \A f \in Event : SameSide(e, f) => order[f] # "inflight"
  /\ ev' = e /\ step' = 1 /\ pc' = StepOf(e, 1)
  /\ UNCHANGED <<nonce, ambiguous, chain, durable, faults>>

\* By wait_for_receipt or by recover_submitted.
SwapReceipt(e) ==
  /\ pc = "idle"
  /\ order[e] = "inflight" /\ hash[e] \in Included
  /\ order' = [order EXCEPT ![e] = IF txs[hash[e]].status = "ok" THEN "done"
                                   ELSE IF e \in Buys THEN "failed" ELSE "open"]
  /\ UNCHANGED <<chain, nextNonce, attempt, hash, work, faults>>

\* Mutant: the nonce is not reconciled.
BuyNotFoundUnreconciled(e) ==
  /\ pc = "idle" /\ e \in Buys
  /\ order[e] = "inflight" /\ txs[hash[e]].status \in {"signed", "lost"}
  /\ order' = [order EXCEPT ![e] = "failed"]
  /\ UNCHANGED <<chain, nextNonce, attempt, hash, work, faults>>

\* BROADCAST_NOT_FOUND: the nonce is reconciled after the commit.
BuyNotFound(e) ==
  /\ pc = "idle" /\ e \in Buys
  /\ order[e] = "inflight" /\ txs[hash[e]].status \in {"signed", "lost"}
  /\ order' = [order EXCEPT ![e] = "failed"]
  /\ Goto("reconcile")
  /\ UNCHANGED <<chain, nextNonce, attempt, hash, faults>>

Reconcile ==
  /\ pc = "reconcile"
  /\ ReconcileNonce
  /\ GoIdle
  /\ UNCHANGED <<chain, attempt, order, hash, faults>>

-----------------------------------------------------------------------------
(* ensure_token_approval, for one approval of the event.                   *)

\* Mutants: an approval whose receipt timed out is forgotten; a confirmed one
\* is not written down.
PendingUnlessUnknown(e) == attempt[e].status = "SUBMITTED"
RecoverConfirmedUnwritten ==
  /\ pc = "recover"
  /\ attempt[ev].status \in {"SUBMITTED", "UNKNOWN"}
  /\ txs[attempt[ev].tx].status = "ok"
  /\ Advance
  /\ UNCHANGED <<chain, durable, faults>>

PendingAttempt(e) == attempt[e].status \in {"SUBMITTED", "UNKNOWN"}

Allowed ==
  /\ pc = "allowance"
  /\ Kind \in allowed[ev]
  /\ Advance
  /\ UNCHANGED <<chain, durable, faults>>

NotAllowed ==
  /\ pc = "allowance"
  /\ Kind \notin allowed[ev]
  /\ Goto("recover")
  /\ UNCHANGED <<chain, durable, faults>>

NothingToRecover ==
  /\ pc = "recover"
  /\ ~PendingAttempt(ev)
  /\ Goto("base")
  /\ UNCHANGED <<chain, durable, faults>>

\* APPROVAL_PENDING.
ApprovalPending ==
  /\ pc = "recover"
  /\ PendingAttempt(ev) /\ attempt[ev].tx \notin Included
  /\ GoIdle
  /\ UNCHANGED <<chain, durable, faults>>

\* The row does not say which of the event's approvals it was of: whichever
\* it was, the caller returns as if it had been the one it needs.
RecoverConfirmed ==
  /\ pc = "recover"
  /\ PendingAttempt(ev) /\ txs[attempt[ev].tx].status = "ok"
  /\ ResolveAttempt("CONFIRMED")
  /\ Advance
  /\ UNCHANGED <<chain, nextNonce, order, hash, faults>>

RecoverReverted ==
  /\ pc = "recover"
  /\ PendingAttempt(ev) /\ txs[attempt[ev].tx].status = "reverted"
  /\ ResolveAttempt("REVERTED")
  /\ Goto("base")
  /\ UNCHANGED <<chain, nextNonce, order, hash, faults>>

\* A read that is not answered, or a gas estimate that is refused.  An order
\* that has a hash, if only that of an earlier sale, becomes UNKNOWN with it,
\* unless the reply could not be read, which leaves the rows.
RpcFailure ==
  /\ pc \in {"allowance", "recover", "base"}
  /\ \/ UNCHANGED order
     \/ hash[ev] # 0 /\ order' = [order EXCEPT ![ev] = "inflight"]
  /\ GoIdle
  /\ UNCHANGED <<chain, nextNonce, attempt, hash, faults>>

ReconcileFails ==
  /\ pc = "reconcile" /\ "silent" \in faults
  /\ GoIdle
  /\ UNCHANGED <<chain, durable, faults>>

-----------------------------------------------------------------------------
(* _submit.                                                                *)

\* Mutant: the order's hash is not written.
SignForgetsHash ==
  /\ pc = "sign"
  /\ txs' = Append(txs, [event |-> ev, kind |-> Kind, nonce |-> nonce, status |-> "signed"])
  /\ order' = IF IsSwap THEN [order EXCEPT ![ev] = "inflight"] ELSE order
  /\ pc' = "send" /\ nonce' = 0 /\ UNCHANGED <<ev, step, ambiguous>>
  /\ UNCHANGED <<account, allowed, nextNonce, attempt, hash, faults>>

\* Only a swap is written down before it is sent.
Sign ==
  /\ pc = "sign"
  /\ txs' = Append(txs, [event |-> ev, kind |-> Kind, nonce |-> nonce, status |-> "signed"])
  /\ IF IsSwap
     THEN /\ order' = [order EXCEPT ![ev] = "inflight"]
          /\ hash' = [hash EXCEPT ![ev] = Len(txs')]
     ELSE UNCHANGED <<order, hash>>
  /\ pc' = "send" /\ nonce' = 0 /\ UNCHANGED <<ev, step, ambiguous>>
  /\ UNCHANGED <<account, allowed, nextNonce, attempt, faults>>

\* A reserved nonce that is not reconciled is counted up to MaxTx.
SigningFails ==
  /\ pc = "sign"
  /\ "signing" \in faults
  /\ \/ ReconcileNonce
     \/ "silent" \in faults /\ nextNonce <= MaxTx /\ UNCHANGED nextNonce
  /\ GoIdle
  /\ UNCHANGED <<chain, attempt, order, hash, faults>>

AfterSend(unknown) ==
  IF IsSwap
  THEN GoIdle
  ELSE pc' = "record" /\ ambiguous' = unknown /\ UNCHANGED <<ev, step, nonce>>

\* The sequencer refuses a nonce that it has passed.
Passed == txs[Last].nonce < account

Broadcast ==
  /\ pc = "send" /\ ~Passed
  /\ SetTx(Last, "sent")
  /\ AfterSend(FALSE)
  /\ UNCHANGED <<account, allowed, durable, faults>>

\* It may have the transaction or not.
MaybeSent ==
  \/ ~Passed /\ SetTx(Last, "sent")
  \/ (Passed \/ "drop" \in faults) /\ SetTx(Last, "lost")

BroadcastError ==
  /\ pc = "send"
  /\ MaybeSent
  /\ Goto("probe")
  /\ UNCHANGED <<account, allowed, durable, faults>>

\* RPC_TX_HASH_MISMATCH.  The order fails whether this was its swap or one of
\* its approvals, and no row is written of an approval.
BroadcastMismatch ==
  /\ pc = "send" /\ "mismatch" \in faults
  /\ MaybeSent
  /\ Fail
  /\ GoIdle
  /\ UNCHANGED <<account, allowed, nextNonce, attempt, hash, faults>>

\* It goes past every handler up to the worker's loop: the rows stay as they are.
BroadcastGarbled ==
  /\ pc = "send" /\ "garbled" \in faults
  /\ MaybeSent
  /\ GoIdle
  /\ UNCHANGED <<account, allowed, durable, faults>>

ReceiptGarbled ==
  /\ pc \in {"probe", "wait"} /\ "garbled" \in faults
  /\ GoIdle
  /\ UNCHANGED <<chain, durable, faults>>

Probe ==
  /\ pc = "probe"
  /\ \E found \in BOOLEAN : (found => Last \in Included) /\ AfterSend(~found)
  /\ UNCHANGED <<chain, durable, faults>>

RecordAttempt ==
  /\ pc = "record"
  /\ Attempt(IF ambiguous THEN "UNKNOWN" ELSE "SUBMITTED")
  /\ IF ambiguous THEN GoIdle ELSE Goto("wait")
  /\ UNCHANGED <<chain, nextNonce, order, hash, faults>>

WaitConfirmed ==
  /\ pc = "wait" /\ txs[Last].status = "ok"
  /\ Attempt("CONFIRMED")
  /\ Advance
  /\ UNCHANGED <<chain, nextNonce, order, hash, faults>>

\* APPROVAL_REVERTED.
WaitReverted ==
  /\ pc = "wait" /\ txs[Last].status = "reverted"
  /\ Attempt("REVERTED")
  /\ Fail
  /\ GoIdle
  /\ UNCHANGED <<chain, nextNonce, hash, faults>>

\* APPROVAL_RECEIPT_PENDING.
WaitTimeout ==
  /\ pc = "wait"
  /\ Attempt("UNKNOWN")
  /\ GoIdle
  /\ UNCHANGED <<chain, nextNonce, order, hash, faults>>

-----------------------------------------------------------------------------
Stop ==
  /\ "stop" \in faults
  /\ pc # "startup"
  /\ pc' = "startup" /\ step' = 1 /\ nonce' = 0 /\ ambiguous' = FALSE /\ UNCHANGED ev
  /\ UNCHANGED <<chain, durable, faults>>

Ensure ==
  \/ Allowed
  \/ NotAllowed
  \/ NothingToRecover
  \/ ApprovalPending
  \/ RecoverConfirmed
  \/ RecoverReverted

Submit ==
  \/ Sign
  \/ SigningFails
  \/ Broadcast
  \/ BroadcastError
  \/ BroadcastMismatch
  \/ BroadcastGarbled
  \/ ReceiptGarbled
  \/ Probe
  \/ RecordAttempt
  \/ WaitConfirmed
  \/ WaitReverted
  \/ WaitTimeout

AdapterStep ==
  \/ Startup
  \/ Reconcile
  \/ Ensure
  \/ Reserve
  \/ RpcFailure
  \/ ReconcileFails
  \/ Submit
  \/ \E e \in Event : Start(e) \/ SwapReceipt(e) \/ BuyNotFound(e)

Next == AdapterStep \/ Stop \/ ChainStep

Spec == Init /\ [][Next]_vars

TypeOK ==
  /\ txs \in Seq(Tx) /\ Len(txs) <= MaxTx
  /\ account \in Nat
  /\ allowed \in [Event -> SUBSET Approval]
  /\ nextNonce \in Nat
  /\ attempt \in [Event -> [status : AttemptStatus, tx : Nat]]
  /\ order \in [Event -> OrderStatus]
  /\ hash \in [Event -> Nat]
  /\ pc \in Label /\ ev \in Event /\ step \in 1 .. 3
  /\ nonce \in Nat /\ ambiguous \in BOOLEAN
  /\ faults \in Scenarios
  /\ \A e \in Event :
       /\ hash[e] <= Len(txs) /\ attempt[e].tx <= Len(txs)
       /\ order[e] \in {"inflight", "done"} => hash[e] # 0
       /\ PendingAttempt(e) => attempt[e].tx # 0

-----------------------------------------------------------------------------
(* Safety.                                                                 *)

\* No two transactions that the chain may include, or has included, carry the
\* same nonce, so none pushes another out, as long as the sequencer loses
\* nothing (nonce.py, the maximum of the chain's count and the stored one;
\* docs/VALIDATION.md:10).
NonceUnique ==
  "drop" \notin faults =>
    \A i, j \in Live \cup Included : i # j => txs[i].nonce # txs[j].nonce

\* Whatever was sent can be included: the nonces before its own are taken by
\* transactions that were sent too.
Reachable == \A i \in Live : account .. txs[i].nonce - 1 \subseteq LiveNonces

\* A process that stops, or cannot sign, leaves no gap before what it sends
\* next, as long as every reconcile is answered (docs/VALIDATION.md:21).
NoGap == faults \cap {"drop", "silent"} = {} => Reachable

\* What makes the code forget an approval that it sent, or give up the order of
\* a swap that it sent, with the transaction on its way: no reconcile follows
\* the last two (_submit, 348 and 350; _submit_approval, 462).
Forgetful == {"stop", "mismatch", "garbled"}

\* A nonce that was handed out and that no transaction will use any more is that
\* of an order or an approval in flight, which its recovery looks up by hash
\* (docs/ARCHITECTURE.md:49 and 50): without one, nothing would ever hand it
\* out again.  A loss of what the code forgot is left out: that nonce is nobody's.
NoncesAccounted ==
  pc = "idle" /\ "silent" \notin faults /\ ("drop" \in faults => faults \cap Forgetful = {}) =>
    \A n \in (account .. nextNonce - 1) \ LiveNonces :
      \E e \in Event :
        \/ order[e] = "inflight" /\ txs[hash[e]].nonce = n
        \/ PendingAttempt(e) /\ txs[attempt[e].tx].nonce = n

IsApprovalOf(t, e) == t.event = e /\ t.kind \in Approval
SignsApproval(e) == Len(txs') > Len(txs) /\ IsApprovalOf(txs'[Len(txs')], e)

\* No approval is sent while one that was written down for the same event may
\* still be included (_recover_pending_approval).
ApprovalAwaitsRecorded ==
  [][\A e \in Event : SignsApproval(e) => attempt[e].tx \notin Live]_vars

\* No approval is sent while any other one of the same event may still be
\* included (docs/ARCHITECTURE.md:43).
ApprovalAwaitsEarlier ==
  [][\A e \in Event : SignsApproval(e) => ~\E i \in Live : IsApprovalOf(txs[i], e)]_vars

-----------------------------------------------------------------------------
(* Liveness.                                                               *)

(***************************************************************************)
(* The worker's rounds come back to every open event, a read that is asked *)
(* for again and again is answered in the end, and what was sent is        *)
(* included when its turn comes.                                           *)
(***************************************************************************)
Fairness ==
  /\ WF_vars(AdapterStep)
  /\ WF_vars(\E i \in DOMAIN txs : Include(i))
  /\ \A e \in Event :
       /\ SF_vars(Start(e))
       /\ WF_vars(SwapReceipt(e))
       /\ \A k \in DOMAIN Needs[e] :
            /\ SF_vars(ev = e /\ step = k /\ pc = "allowance" /\ Ensure)
            /\ SF_vars(ev = e /\ step = k /\ pc = "recover" /\ Ensure)
            /\ SF_vars(ev = e /\ step = k /\ Reserve)
       /\ SF_vars(ev = e /\ IsSwap /\ Reserve)

FairSpec == Spec /\ Fairness

\* Every open order gets its swap signed, whatever approvals it needs and
\* wherever their receipts were lost (ensure_token_approval).
EverySwapSigned == \A e \in Event : <>(hash[e] # 0)

=============================================================================
