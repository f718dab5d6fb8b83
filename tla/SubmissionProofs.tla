--------------------------- MODULE SubmissionProofs --------------------------
(***************************************************************************)
(* The nonces that the adapter hands out and the approvals that it waits   *)
(* for, for any number of events and transactions and for every need of    *)
(* approvals: types, then which nonces are taken, then which rows say what *)
(* of an approval, then who answers for a nonce that no transaction uses.  *)
(***************************************************************************)
EXTENDS Submission, TLAPS, SequenceTheorems

USE DEF vars, durable, chain, work

-----------------------------------------------------------------------------
(* Types.                                                                  *)

\* Where the adapter is fits what it has in hand.
PlaceFits ==
  /\ pc \in {"allowance", "recover", "record", "wait"} => step <= Len(Needs[ev])
  /\ pc \in {"send", "probe", "record", "wait"} => txs # <<>>
  /\ pc = "sign" => Len(txs) < MaxTx

\* Types, as an inductive invariant.
TypeInv == TypeOK /\ PlaceFits

LEMMA NeedsType ==
  ASSUME NEW e \in Event
  PROVE  /\ Len(Needs[e]) \in 0 .. 2
         /\ \A k \in 1 .. Len(Needs[e]) : Needs[e][k] \in Approval
<1>1. Needs[e] \in {<<>>, <<"erc20">>, <<"erc20", "permit2">>}
  BY SubmissionAssumption
<1>2. CASE Needs[e] = <<>>
  BY <1>2
<1>3. CASE Needs[e] = <<"erc20">>
  BY <1>3 DEF Approval
<1>4. CASE Needs[e] = <<"erc20", "permit2">>
  BY <1>4 DEF Approval
<1> QED
  BY <1>1, <1>2, <1>3, <1>4

\* A status is changed in place.
LEMMA SetTxKeeps ==
  ASSUME txs \in Seq(Tx), NEW i \in DOMAIN txs, NEW status \in TxStatus, SetTx(i, status)
  PROVE  /\ txs' \in Seq(Tx) /\ Len(txs') = Len(txs) /\ DOMAIN txs' = DOMAIN txs
         /\ txs' = [j \in DOMAIN txs |->
                      IF j = i THEN [txs[j] EXCEPT !.status = status] ELSE txs[j]]
<1> DEFINE new == [txs[i] EXCEPT !.status = status]
<1>1. txs \in [1 .. Len(txs) -> Tx] /\ DOMAIN txs = 1 .. Len(txs)
  BY LenProperties
<1>2. new \in Tx
  BY <1>1 DEF Tx
<1>3. txs' = [txs EXCEPT ![i] = new]
  BY DEF SetTx
<1>4. txs' \in Seq(Tx) /\ Len(txs') = Len(txs)
  BY <1>1, <1>2, <1>3, ExceptSeq
<1> QED
  BY <1>1, <1>3, <1>4

LEMMA Restatus ==
  ASSUME NEW t \in Tx, NEW status \in TxStatus
  PROVE  /\ [t EXCEPT !.status = status] \in Tx
         /\ [t EXCEPT !.status = status].nonce = t.nonce
         /\ [t EXCEPT !.status = status].status = status
BY DEF Tx

\* The status that an inclusion may give.
IncludedAs(i, status) ==
  txs' = [j \in DOMAIN txs |->
            IF j = i THEN [txs[j] EXCEPT !.status = status]
            ELSE IF j \in Live /\ txs[j].nonce = account
                 THEN [txs[j] EXCEPT !.status = "lost"]
                 ELSE txs[j]]

LEMMA IncludeKeeps ==
  ASSUME txs \in Seq(Tx), NEW i \in DOMAIN txs, Include(i)
  PROVE  txs' \in Seq(Tx) /\ Len(txs') = Len(txs) /\ DOMAIN txs' = DOMAIN txs
<1>1. txs \in [1 .. Len(txs) -> Tx] /\ DOMAIN txs = 1 .. Len(txs) /\ Len(txs) \in Nat
  BY LenProperties
<1>2. PICK status \in {"ok", "reverted"} : IncludedAs(i, status)
  BY DEF Include, IncludedAs
<1>3. \A j \in DOMAIN txs : [txs[j] EXCEPT !.status = status] \in Tx
                            /\ [txs[j] EXCEPT !.status = "lost"] \in Tx
  BY <1>1, Restatus DEF TxStatus
<1>4. \A j \in DOMAIN txs :
        (IF j = i THEN [txs[j] EXCEPT !.status = status]
         ELSE IF j \in Live /\ txs[j].nonce = account
              THEN [txs[j] EXCEPT !.status = "lost"]
              ELSE txs[j]) \in Tx
  BY <1>1, <1>3
<1>5. txs' \in [1 .. Len(txs) -> Tx]
  BY <1>1, <1>2, <1>4, Zenon DEF IncludedAs
<1>6. txs' \in Seq(Tx)
  BY <1>1, <1>5, SeqDef
<1> QED
  BY <1>1, <1>5, <1>6, LenProperties

\* A signed transaction is appended.
LEMMA SignAppends ==
  ASSUME TypeInv, Sign
  PROVE  /\ txs' \in Seq(Tx) /\ Len(txs') = Len(txs) + 1
         /\ DOMAIN txs = 1 .. Len(txs) /\ DOMAIN txs' = 1 .. Len(txs) + 1
         /\ \A j \in DOMAIN txs : txs'[j] = txs[j]
         /\ txs'[Len(txs')] =
              [event |-> ev, kind |-> Kind, nonce |-> nonce, status |-> "signed"]
<1> DEFINE new == [event |-> ev, kind |-> Kind, nonce |-> nonce, status |-> "signed"]
<1>1. step \in 1 .. Len(Needs[ev]) => Needs[ev][step] \in Approval
  BY NeedsType DEF TypeInv, TypeOK
<1>2. Kind \in Approval \cup {"swap"}
  BY <1>1, NeedsType DEF Kind, IsSwap, TypeInv, TypeOK
<1>3. new \in Tx
  BY <1>2 DEF Tx, TxStatus, TypeInv, TypeOK
<1>4. txs \in Seq(Tx) /\ txs' = Append(txs, new)
  BY DEF Sign, TypeInv, TypeOK
<1> HIDE DEF new
<1>5. txs' \in Seq(Tx) /\ Len(txs') = Len(txs) + 1 /\ txs'[Len(txs) + 1] = new
  BY <1>3, <1>4, AppendProperties
<1>6. \A j \in 1 .. Len(txs) : txs'[j] = txs[j]
  BY <1>3, <1>4, AppendProperties
<1>7. DOMAIN txs = 1 .. Len(txs) /\ DOMAIN txs' = 1 .. Len(txs')
  BY <1>4, <1>5, LenProperties
<1> QED
  BY <1>5, <1>6, <1>7 DEF new

LEMMA InitTypeInv == Init => TypeInv
<1> SUFFICES ASSUME Init PROVE TypeInv
  OBVIOUS
<1> USE SubmissionAssumption DEF Init
<1>1. txs \in Seq(Tx) /\ Len(txs) = 0
  BY EmptySeq
<1>2. attempt \in [Event -> [status : AttemptStatus, tx : Nat]]
  BY DEF AttemptStatus
<1>3. allowed \in [Event -> SUBSET Approval] /\ hash \in [Event -> Nat]
  OBVIOUS
<1>4. order \in [Event -> OrderStatus]
  BY DEF OrderStatus
<1>5. \A e \in Event : ~PendingAttempt(e) /\ attempt[e].tx = 0 /\ hash[e] = 0 /\ order[e] = "open"
  BY DEF PendingAttempt
<1>6. /\ account \in Nat /\ nextNonce \in Nat /\ nonce \in Nat
      /\ pc \in Label /\ ev \in Event /\ step \in 1 .. 3
      /\ faults \in Scenarios /\ MaxTx >= 0
  BY DEF Label
<1>7. ambiguous \in BOOLEAN
  BY Zenon
<1>8. TypeOK
  <2> HIDE DEF Init
  <2> QED
    BY <1>1, <1>2, <1>3, <1>4, <1>5, <1>6, <1>7 DEF TypeOK
<1> QED
  BY <1>8 DEF TypeInv, PlaceFits

LEMMA ChainType ==
  ASSUME TypeInv, ChainStep
  PROVE  TypeInv'
<1> USE DEF TypeInv, TypeOK, PlaceFits, PendingAttempt
<1>1. ASSUME NEW i \in DOMAIN txs, Include(i) PROVE TypeInv'
  <2>1. txs' \in Seq(Tx) /\ Len(txs') = Len(txs)
    BY <1>1, IncludeKeeps
  <2>2. txs[i] \in Tx
    BY LenProperties
  <2>3. allowed' \in [Event -> SUBSET Approval]
    BY <1>1, <2>2, SMTT(30) DEF Include, Effect, Tx
  <2>4. account' \in Nat
    BY <1>1 DEF Include
  <2>5. txs # <<>> => txs' # <<>>
    BY <2>1, LenProperties, EmptySeq
  <2> QED
    BY <1>1, <2>1, <2>3, <2>4, <2>5 DEF Include
<1>2. ASSUME NEW i \in DOMAIN txs, Lose(i) PROVE TypeInv'
  <2>1. txs' \in Seq(Tx) /\ Len(txs') = Len(txs)
    BY <1>2, SetTxKeeps DEF Lose, TxStatus
  <2>2. txs # <<>> => txs' # <<>>
    BY <2>1, LenProperties, EmptySeq
  <2> QED
    BY <1>2, <2>1, <2>2 DEF Lose
<1>3. ASSUME NEW e \in Event, Lapse(e) PROVE TypeInv'
  BY <1>3 DEF Lapse
<1> QED
  BY <1>1, <1>2, <1>3 DEF ChainStep

\* Where the code goes to next.
LEMMA StepFits ==
  ASSUME NEW e \in Event, NEW n \in Nat, n >= 1, n <= Len(Needs[e]) + 1
  PROVE  /\ n \in 1 .. 3 /\ StepOf(e, n) \in {"allowance", "base"}
         /\ StepOf(e, n) = "allowance" => n <= Len(Needs[e])
<1>1. PICK l \in 0 .. 2 : l = Len(Needs[e])
  BY NeedsType
<1>2. n \in 1 .. 3
  <2>1. n <= l + 1
    BY <1>1
  <2> QED
    BY <2>1
<1>3. StepOf(e, n) = IF n <= Len(Needs[e]) THEN "allowance" ELSE "base"
  BY DEF StepOf
<1> QED
  BY <1>2, <1>3, Zenon

\* The place in the code, apart from the rows.
WorkType ==
  /\ pc \in Label /\ ev \in Event /\ step \in 1 .. 3 /\ nonce \in Nat
  /\ ambiguous \in BOOLEAN
  /\ PlaceFits

\* The rows and the chain, apart from the place in the code.
RowsType ==
  /\ txs \in Seq(Tx) /\ Len(txs) <= MaxTx
  /\ account \in Nat
  /\ allowed \in [Event -> SUBSET Approval]
  /\ nextNonce \in Nat
  /\ attempt \in [Event -> [status : AttemptStatus, tx : Nat]]
  /\ order \in [Event -> OrderStatus]
  /\ hash \in [Event -> Nat]
  /\ faults \in Scenarios
  /\ \A e \in Event :
       /\ hash[e] <= Len(txs) /\ attempt[e].tx <= Len(txs)
       /\ order[e] \in {"inflight", "done"} => hash[e] # 0
       /\ PendingAttempt(e) => attempt[e].tx # 0

LEMMA TypesSplit == TypeInv <=> RowsType /\ WorkType
BY Zenon DEF TypeInv, TypeOK, RowsType, WorkType

LEMMA IdleType ==
  ASSUME WorkType, GoIdle
  PROVE  WorkType'
<1>1. /\ pc' = "idle" /\ ev' \in Event /\ step' \in 1 .. 3 /\ nonce' \in Nat
  BY DEF GoIdle, WorkType
<1>2. ambiguous' \in BOOLEAN
  BY Zenon DEF GoIdle
<1> QED
  BY <1>1, <1>2, Zenon DEF WorkType, PlaceFits, Label

LEMMA AdvanceType ==
  ASSUME WorkType, Advance, pc \in {"allowance", "recover", "wait"}
  PROVE  WorkType'
<1>1. step + 1 \in Nat /\ step + 1 >= 1 /\ step + 1 <= Len(Needs[ev]) + 1
  BY NeedsType DEF WorkType, PlaceFits
<1>2. /\ step' \in 1 .. 3 /\ pc' \in {"allowance", "base"}
      /\ pc' = "allowance" => step' <= Len(Needs[ev])
      /\ UNCHANGED <<ev, nonce, ambiguous>>
  BY <1>1, StepFits, Zenon DEF Advance, WorkType
<1>3. pc' \in Label /\ pc' \notin {"recover", "record", "wait", "send", "probe", "sign"}
  BY <1>2 DEF Label
<1> QED
  BY <1>2, <1>3, Zenon DEF WorkType, PlaceFits

LEMMA AfterSendType ==
  ASSUME WorkType, NEW unknown \in BOOLEAN, AfterSend(unknown), txs' # <<>>
  PROVE  WorkType'
<1>1. CASE IsSwap
  BY <1>1, IdleType, Zenon DEF AfterSend
<1>2. CASE ~IsSwap
  <2>1. step <= Len(Needs[ev])
    BY <1>2, NeedsType DEF IsSwap, WorkType
  <2>2. pc' = "record" /\ ambiguous' = unknown /\ UNCHANGED <<ev, step, nonce>>
    BY <1>2, Zenon DEF AfterSend
  <2> QED
    BY <2>1, <2>2, Zenon DEF WorkType, PlaceFits, Label
<1> QED
  BY <1>1, <1>2

\* The transaction in hand is handed to the sequencer.
Send == Broadcast \/ BroadcastError \/ BroadcastMismatch \/ BroadcastGarbled

LEMMA SendSets ==
  ASSUME Send
  PROVE  /\ pc = "send" /\ UNCHANGED <<account, allowed, nextNonce, attempt, hash, faults>>
         /\ \E status \in {"sent", "lost"} : SetTx(Last, status) /\ (Broadcast => status = "sent")
         /\ "drop" \notin faults => SetTx(Last, "sent") \/ (Passed /\ SetTx(Last, "lost"))
<1>1. CASE Broadcast
  BY <1>1 DEF Broadcast
<1>2. CASE ~Broadcast
  BY <1>2 DEF Send, BroadcastError, BroadcastMismatch, BroadcastGarbled, MaybeSent
<1> QED
  BY <1>1, <1>2

\* The order in hand fails, or goes back to its hash.
LEMMA OrderType ==
  ASSUME RowsType, NEW status \in OrderStatus, ev \in Event,
         order' = [order EXCEPT ![ev] = status],
         status \in {"inflight", "done"} => hash[ev] # 0, UNCHANGED hash
  PROVE  /\ order' \in [Event -> OrderStatus]
         /\ \A e \in Event : order'[e] \in {"inflight", "done"} => hash'[e] # 0
BY DEF RowsType

LEMMA FailType ==
  ASSUME RowsType, ev \in Event, Fail, UNCHANGED hash
  PROVE  /\ order' \in [Event -> OrderStatus]
         /\ \A e \in Event : order'[e] \in {"inflight", "done"} => hash'[e] # 0
<1>1. PICK status \in {"failed", "open"} : order' = [order EXCEPT ![ev] = status]
  BY DEF Fail
<1>2. status \in OrderStatus /\ status \notin {"inflight", "done"}
  BY <1>1 DEF OrderStatus
<1> QED
  BY <1>1, <1>2, OrderType

LEMMA ReconcilesNat ==
  ASSUME RowsType, ReconcileNonce \/ ReserveNonce
  PROVE  nextNonce' \in Nat /\ (ReserveNonce => nonce' \in Nat)
<1>1. account \in Nat /\ Len(txs) \in Nat /\ nextNonce \in Nat
  BY LenProperties DEF RowsType
<1> QED
  BY <1>1 DEF ReconcileNonce, ReserveNonce

LEMMA AttemptRows ==
  ASSUME RowsType, NEW status \in AttemptStatus, Attempt(status), Len(txs) > 0, ev \in Event
  PROVE  /\ attempt' \in [Event -> [status : AttemptStatus, tx : Nat]]
         /\ \A e \in Event : /\ attempt'[e].tx <= Len(txs)
                             /\ PendingAttempt(e)' => attempt'[e].tx # 0
<1>1. Last \in Nat /\ Last > 0 /\ Last <= Len(txs)
  BY LenProperties DEF RowsType, Last
<1>2. attempt' \in [Event -> [status : AttemptStatus, tx : Nat]]
  BY <1>1 DEF Attempt, RowsType
<1>3. \A e \in Event : attempt'[e].tx <= Len(txs) /\ (PendingAttempt(e)' => attempt'[e].tx # 0)
  BY <1>1 DEF Attempt, RowsType, PendingAttempt
<1> QED
  BY <1>2, <1>3

\* What leaves the chain's transactions and the hashes alone.
LEMMA AttemptType ==
  ASSUME RowsType, NEW status \in AttemptStatus, Attempt(status), Len(txs) > 0,
         UNCHANGED <<chain, nextNonce, order, hash, faults>>, ev \in Event
  PROVE  RowsType'
BY AttemptRows, Zenon DEF RowsType

LEMMA ResolveType ==
  ASSUME RowsType, NEW status \in {"CONFIRMED", "REVERTED"}, ResolveAttempt(status),
         UNCHANGED <<chain, nextNonce, order, hash, faults>>, ev \in Event
  PROVE  RowsType'
<1>2. attempt' \in [Event -> [status : AttemptStatus, tx : Nat]]
  BY DEF ResolveAttempt, RowsType, AttemptStatus
<1>3. \A e \in Event : attempt'[e].tx <= Len(txs) /\ (PendingAttempt(e)' => attempt'[e].tx # 0)
  BY DEF ResolveAttempt, RowsType, PendingAttempt
<1> QED
  BY <1>2, <1>3, Zenon DEF RowsType

LEMMA StepType ==
  ASSUME TypeInv, AdapterStep \/ Stop
  PROVE  TypeInv'
<1>0. RowsType /\ WorkType /\ ev \in Event
  BY TypesSplit, Zenon DEF WorkType
<1>n. /\ Len(txs) \in Nat /\ (txs # <<>> => Len(txs) > 0 /\ Last = Len(txs))
      /\ DOMAIN txs = 1 .. Len(txs)
  BY <1>0, LenProperties, EmptySeq DEF Last, RowsType
<1> SUFFICES RowsType' /\ WorkType'
  BY TypesSplit, Zenon DEF TypeInv, TypeOK, RowsType, WorkType, PlaceFits, PendingAttempt
<1>1. CASE Startup \/ Reconcile
  <2>1. WorkType'
    BY <1>0, <1>1, IdleType, Zenon DEF Startup, Reconcile
  <2>2. nextNonce' \in Nat /\ UNCHANGED <<chain, attempt, order, hash, faults>>
    BY <1>0, <1>1, ReconcilesNat, Zenon DEF Startup, Reconcile
  <2> QED
    BY <1>0, <2>1, <2>2, Zenon DEF RowsType, PendingAttempt
<1>2. CASE Allowed
  BY <1>0, <1>2, AdvanceType, Zenon DEF Allowed, RowsType, PendingAttempt
<1>3. CASE NotAllowed \/ NothingToRecover
  BY <1>0, <1>3, Zenon DEF NotAllowed, NothingToRecover, Goto, RowsType, WorkType, PlaceFits,
                           PendingAttempt, Label
<1>4. CASE ApprovalPending \/ ReconcileFails \/ ReceiptGarbled
  BY <1>0, <1>4, IdleType, Zenon
     DEF ApprovalPending, ReconcileFails, ReceiptGarbled, RowsType, PendingAttempt
<1>r. CASE RpcFailure
  <2>1. WorkType' /\ UNCHANGED <<chain, nextNonce, attempt, hash, faults>>
    BY <1>0, <1>r, IdleType, Zenon DEF RpcFailure
  <2>2. /\ order' \in [Event -> OrderStatus]
        /\ \A e \in Event : order'[e] \in {"inflight", "done"} => hash'[e] # 0
    <3>1. CASE UNCHANGED order
      BY <1>0, <2>1, <3>1 DEF RowsType
    <3>2. CASE hash[ev] # 0 /\ order' = [order EXCEPT ![ev] = "inflight"]
      BY <1>0, <2>1, <3>2, OrderType DEF OrderStatus
    <3> QED
      BY <1>r, <3>1, <3>2 DEF RpcFailure
  <2> QED
    BY <1>0, <2>1, <2>2, Zenon DEF RowsType, PendingAttempt
<1>5. CASE RecoverConfirmed
  BY <1>0, <1>5, ResolveType, AdvanceType, Zenon DEF RecoverConfirmed
<1>6. CASE RecoverReverted
  <2>1. RowsType'
    BY <1>0, <1>6, ResolveType, Zenon DEF RecoverReverted
  <2>2. WorkType'
    BY <1>0, <1>6, Zenon DEF RecoverReverted, Goto, WorkType, PlaceFits, Label
  <2> QED
    BY <2>1, <2>2
<1>7. CASE Reserve
  <2>1. nextNonce' \in Nat /\ nonce' \in Nat
    BY <1>0, <1>7, ReconcilesNat, Zenon DEF Reserve
  <2>2. WorkType'
    BY <1>0, <1>7, <2>1, Zenon DEF Reserve, WorkType, PlaceFits, Label
  <2> QED
    BY <1>0, <1>7, <2>1, <2>2, Zenon DEF Reserve, RowsType, PendingAttempt
<1>8. CASE Sign
  <2>1. /\ txs' \in Seq(Tx) /\ Len(txs') = Len(txs) + 1
    BY <1>8, SignAppends
  <2>2. txs' # <<>> /\ Len(txs') \in Nat /\ Len(txs') <= MaxTx
    BY <1>n, <1>8, <2>1, EmptySeq, SubmissionAssumption DEF Sign, TypeInv, PlaceFits, TypeOK
  <2>3. WorkType'
    <3>1. nonce' = 0 /\ 0 \in Nat
      BY <1>8 DEF Sign
    <3> QED
      BY <1>0, <1>8, <2>2, <3>1, Zenon DEF Sign, WorkType, PlaceFits, Label
  <2>4. order' \in [Event -> OrderStatus] /\ hash' \in [Event -> Nat]
    BY <1>0, <1>8, <2>2 DEF Sign, RowsType, OrderStatus
  <2>5. \A e \in Event :
          /\ hash'[e] <= Len(txs')
          /\ order'[e] \in {"inflight", "done"} => hash'[e] # 0
    BY <1>0, <1>n, <1>8, <2>1, <2>2 DEF Sign, RowsType
  <2>6. \A e \in Event : attempt'[e] = attempt[e] /\ attempt[e].tx <= Len(txs')
    BY <1>0, <1>n, <1>8, <2>1 DEF Sign, RowsType
  <2>7. UNCHANGED <<account, allowed, nextNonce, attempt, faults>>
    BY <1>8, Zenon DEF Sign
  <2>8. RowsType'
    BY <1>0, <2>1, <2>2, <2>4, <2>5, <2>6, <2>7, Zenon DEF RowsType, PendingAttempt
  <2> QED
    BY <2>3, <2>8
<1>9. CASE SigningFails
  <2>1. nextNonce' \in Nat
    BY <1>0, <1>9, ReconcilesNat, Zenon DEF SigningFails, RowsType
  <2> QED
    BY <1>0, <1>9, <2>1, IdleType, Zenon DEF SigningFails, RowsType, PendingAttempt
<1>10. CASE Send
  <2>1. PICK status \in {"sent", "lost"} : SetTx(Last, status)
    BY <1>10, SendSets
  <2>2. txs # <<>> /\ Last \in DOMAIN txs
    <3>1. pc = "send"
      BY <1>10, SendSets
    <3>2. txs # <<>>
      BY <1>0, <3>1, Zenon DEF WorkType, PlaceFits
    <3> QED
      BY <1>n, <3>2
  <2>3. txs' \in Seq(Tx) /\ Len(txs') = Len(txs)
    BY <1>0, <2>1, <2>2, SetTxKeeps DEF TxStatus, RowsType
  <2>4. txs' # <<>>
    BY <2>2, <2>3, <1>n, EmptySeq
  <2>5. WorkType'
    <3>1. CASE Broadcast
      BY <1>0, <2>4, <3>1, AfterSendType, Zenon DEF Broadcast
    <3>2. CASE BroadcastError
      BY <1>0, <2>4, <3>2, Zenon DEF BroadcastError, Goto, WorkType, PlaceFits, Label
    <3>3. CASE BroadcastMismatch \/ BroadcastGarbled
      BY <1>0, <3>3, IdleType, Zenon DEF BroadcastMismatch, BroadcastGarbled
    <3> QED
      BY <1>10, <3>1, <3>2, <3>3 DEF Send
  <2>6. UNCHANGED <<account, allowed, nextNonce, attempt, hash, faults>>
    BY <1>10, SendSets
  <2>7. /\ order' \in [Event -> OrderStatus]
        /\ \A e \in Event : order'[e] \in {"inflight", "done"} => hash'[e] # 0
    <3>1. CASE BroadcastMismatch
      BY <1>0, <2>6, <3>1, FailType DEF BroadcastMismatch
    <3>2. CASE UNCHANGED order
      BY <1>0, <2>6, <3>2 DEF RowsType
    <3> QED
      BY <1>10, <3>1, <3>2 DEF Send, Broadcast, BroadcastError, BroadcastGarbled
  <2> QED
    BY <1>0, <2>3, <2>5, <2>6, <2>7, Zenon DEF RowsType, PendingAttempt
<1>11. CASE Probe
  <2>1. PICK found \in BOOLEAN : AfterSend(~found)
    BY <1>11 DEF Probe
  <2>2. (~found) \in BOOLEAN /\ txs' # <<>> /\ UNCHANGED <<chain, durable, faults>>
    BY <1>0, <1>11, Zenon DEF Probe, WorkType, PlaceFits
  <2> QED
    BY <1>0, <2>1, <2>2, AfterSendType, Zenon DEF RowsType, PendingAttempt
<1>12. CASE RecordAttempt
  <2>1. RowsType'
    <3>1. PICK status \in AttemptStatus : Attempt(status)
      BY <1>12 DEF RecordAttempt, AttemptStatus
    <3> QED
      BY <1>0, <1>n, <1>12, <3>1, AttemptType, Zenon DEF RecordAttempt, WorkType, PlaceFits
  <2>2. CASE ambiguous
    BY <1>0, <1>12, <2>1, <2>2, IdleType, Zenon DEF RecordAttempt
  <2>3. CASE ~ambiguous
    BY <1>0, <1>12, <2>1, <2>3, Zenon DEF RecordAttempt, Goto, WorkType, PlaceFits, Label
  <2> QED
    BY <2>2, <2>3
<1>13. CASE WaitConfirmed \/ WaitTimeout
  <2>1. PICK status \in AttemptStatus : Attempt(status)
    BY <1>13 DEF WaitConfirmed, WaitTimeout, AttemptStatus
  <2>2. RowsType'
    BY <1>0, <1>n, <1>13, <2>1, AttemptType, Zenon
       DEF WaitConfirmed, WaitTimeout, WorkType, PlaceFits
  <2>3. WorkType'
    BY <1>0, <1>13, IdleType, AdvanceType, Zenon DEF WaitConfirmed, WaitTimeout
  <2> QED
    BY <2>2, <2>3
<1>v. CASE WaitReverted
  <2>1. Attempt("REVERTED") /\ "REVERTED" \in AttemptStatus
        /\ UNCHANGED <<chain, nextNonce, hash, faults>> /\ pc = "wait"
    BY <1>v DEF WaitReverted, AttemptStatus
  <2>2. Len(txs) > 0
    BY <1>0, <1>n, <2>1, Zenon DEF WorkType, PlaceFits
  <2>3. /\ order' \in [Event -> OrderStatus]
        /\ \A e \in Event : order'[e] \in {"inflight", "done"} => hash'[e] # 0
    BY <1>0, <1>v, <2>1, FailType, Zenon DEF WaitReverted
  <2>4. /\ attempt' \in [Event -> [status : AttemptStatus, tx : Nat]]
        /\ \A e \in Event : /\ attempt'[e].tx <= Len(txs)
                            /\ PendingAttempt(e)' => attempt'[e].tx # 0
    BY <1>0, <1>n, <2>1, <2>2, AttemptRows
  <2>5. WorkType'
    BY <1>0, <1>v, IdleType, Zenon DEF WaitReverted
  <2> QED
    BY <1>0, <2>1, <2>3, <2>4, <2>5, Zenon DEF RowsType
<1>14. ASSUME NEW e \in Event, Start(e) PROVE RowsType' /\ WorkType'
  <2>1. Len(Needs[e]) + 1 >= 1 /\ 1 \in Nat
    BY NeedsType
  <2>2. /\ step' = 1 /\ 1 \in 1 .. 3 /\ pc' \in {"allowance", "base"}
        /\ pc' = "allowance" => step' <= Len(Needs[e])
    BY <1>14, <2>1, StepFits DEF Start
  <2>3. WorkType'
    BY <1>0, <1>14, <2>2, Zenon DEF Start, WorkType, PlaceFits, Label
  <2> QED
    BY <1>0, <1>14, <2>3, Zenon DEF Start, RowsType, PendingAttempt
<1>15. ASSUME NEW e \in Event, SwapReceipt(e) \/ BuyNotFound(e) PROVE RowsType' /\ WorkType'
  <2>1. PICK status \in OrderStatus : order' = [order EXCEPT ![e] = status]
    BY <1>15 DEF SwapReceipt, BuyNotFound, OrderStatus
  <2>2. order' \in [Event -> OrderStatus] /\ \A f \in Event \ {e} : order'[f] = order[f]
    BY <1>0, <2>1 DEF RowsType
  <2>3. UNCHANGED <<chain, nextNonce, attempt, hash, faults>> /\ hash[e] # 0
    BY <1>0, <1>15, Zenon DEF SwapReceipt, BuyNotFound, RowsType
  <2>4. RowsType'
    BY <1>0, <2>2, <2>3, Zenon DEF RowsType, PendingAttempt
  <2>5. WorkType'
    BY <1>0, <1>15, <2>3, Zenon DEF SwapReceipt, BuyNotFound, Goto, WorkType, PlaceFits, Label
  <2> QED
    BY <2>4, <2>5
<1>16. CASE Stop
  <2>1. /\ pc' = "startup" /\ ev' \in Event /\ step' \in 1 .. 3 /\ nonce' \in Nat
    BY <1>0, <1>16 DEF Stop
  <2>2. ambiguous' \in BOOLEAN
    BY <1>16, Zenon DEF Stop
  <2>3. WorkType'
    BY <2>1, <2>2, Zenon DEF WorkType, PlaceFits, Label
  <2> QED
    BY <1>0, <1>16, <2>3, Zenon DEF Stop, RowsType, PendingAttempt
<1> QED
  BY <1>1, <1>2, <1>3, <1>4, <1>r, <1>5, <1>6, <1>7, <1>8, <1>9, <1>10, <1>11, <1>12, <1>13,
     <1>v, <1>14, <1>15, <1>16 DEF AdapterStep, Ensure, Submit, Send

LEMMA NextTypeInv == TypeInv /\ [Next]_vars => TypeInv'
<1>1. ASSUME TypeInv, UNCHANGED vars PROVE TypeInv'
  BY <1>1, Zenon DEF TypeInv, TypeOK, PlaceFits, PendingAttempt
<1> QED
  BY <1>1, ChainType, StepType DEF Next

\* Every row keeps its type and every hash and attempt refers to a transaction
\* that was signed (Submission's rows over uniswap.py and nonce.py).
THEOREM TypeCorrect == Spec => []TypeOK
<1>1. TypeInv => TypeOK
  BY DEF TypeInv
<1> QED
  BY <1>1, InitTypeInv, NextTypeInv, PTL DEF Spec

-----------------------------------------------------------------------------
(***************************************************************************)
(* Nonces.  Between two transactions the stored nonce is the first one     *)
(* that nothing on its way to the chain has; a reconcile makes it so.      *)
(***************************************************************************)

\* A count that lags is never reconciled with, and a reconcile goes unanswered
\* only where transactions may be lost too.
Reconcilable ==
  \A s \in Scenarios :
    /\ "lag" \in s => s \cap {"stop", "signing"} = {}
    /\ "silent" \in s => "drop" \in s

\* Nothing is lost, and every reconcile is answered.
Steady == faults \cap {"drop", "silent"} = {}

\* The wallet's transactions in the order of the chain: those included come
\* before its count, the others after it, no two in the same place.
InOrder ==
  /\ \A i \in DOMAIN txs : txs[i].status # "lost"
  /\ \A i \in Included : txs[i].nonce < account
  /\ \A i \in Live : account <= txs[i].nonce
  /\ \A i, j \in Live \cup Included : txs[i].nonce = txs[j].nonce => i = j

\* The transactions on their way take up all nonces from the account's to top.
Filled(top) ==
  /\ account <= top
  /\ \A i \in Live : txs[i].nonce < top
  /\ \A m \in account .. top - 1 : m \in LiveNonces

\* The nonce in hand is the next one to fill.
NonceFits ==
  /\ pc \in {"sign", "send"} => nextNonce > 0 /\ Filled(nextNonce - 1)
  /\ pc = "sign" => nonce = nextNonce - 1
  /\ pc = "send" => txs[Last].status = "signed" /\ txs[Last].nonce = nextNonce - 1
  /\ pc \notin {"sign", "send", "startup", "reconcile"} => Filled(nextNonce)

\* What is reconciled with a count that lags is what nothing was sent for.
LagFits ==
  "lag" \in faults =>
    /\ pc = "startup" => Live = {}
    /\ pc # "reconcile"
    /\ \A i \in DOMAIN txs : txs[i].status = "signed" => pc = "send" /\ i = Last

\* The inductive invariant about nonces.
NonceInv == Steady => InOrder /\ Reachable /\ NonceFits /\ LagFits

\* What holds of the chain at every step, a reconcile's included.
Ordered == InOrder /\ Reachable

LEMMA InitNonceInv == Init => NonceInv
<1> SUFFICES ASSUME Init PROVE NonceInv
  OBVIOUS
<1>1. DOMAIN txs = {}
  BY DEF Init
<1>2. Live = {} /\ Included = {}
  BY <1>1, Zenon DEF Live, Included
<1>3. pc = "startup"
  BY DEF Init
<1>4. pc \notin {"sign", "send", "reconcile"}
  BY <1>3
<1> QED
  BY <1>1, <1>2, <1>3, <1>4, Zenon DEF NonceInv, InOrder, Reachable, NonceFits, LagFits

LEMMA TxTypes ==
  ASSUME TypeInv
  PROVE  /\ account \in Nat /\ nextNonce \in Nat /\ nonce \in Nat /\ Len(txs) \in Nat
         /\ DOMAIN txs = 1 .. Len(txs)
         /\ \A i \in DOMAIN txs : txs[i] \in Tx /\ txs[i].nonce \in Nat
         /\ Live \subseteq DOMAIN txs /\ Included \subseteq DOMAIN txs
<1>1. txs \in Seq(Tx)
  BY DEF TypeInv, TypeOK
<1>2. txs \in [1 .. Len(txs) -> Tx] /\ DOMAIN txs = 1 .. Len(txs) /\ Len(txs) \in Nat
  BY <1>1, LenProperties
<1>3. \A i \in DOMAIN txs : txs[i] \in Tx /\ txs[i].nonce \in Nat
  BY <1>2 DEF Tx
<1> QED
  BY <1>2, <1>3, Zenon DEF TypeInv, TypeOK, Live, Included

\* With all below top filled, the pending count is top.
LEMMA PendingIsTop ==
  ASSUME TypeInv, NEW top \in Nat, Filled(top), NEW n \in Nat, PendingCount(n)
  PROVE  n <= top /\ ("lag" \notin faults => n = top)
<1>1. \A m \in LiveNonces : m \in Nat /\ m < top
  BY TxTypes DEF Filled, LiveNonces
<1>2. CASE /\ n \in account .. account + Len(txs) /\ n \notin LiveNonces
           /\ account .. n - 1 \subseteq LiveNonces
  <2>1. ~(n < top)
    BY <1>2, TxTypes DEF Filled
  <2>2. ~(n > top)
    <3> SUFFICES ASSUME n > top PROVE FALSE
      OBVIOUS
    <3>1. top \in account .. n - 1
      BY TxTypes DEF Filled
    <3> QED
      BY <1>1, <1>2, <3>1
  <2> QED
    BY <2>1, <2>2
<1>3. CASE "lag" \in faults /\ n = account
  BY <1>3 DEF Filled
<1> QED
  BY <1>2, <1>3 DEF PendingCount

\* The pending count has all filled below it.
LEMMA PendingFills ==
  ASSUME TypeInv, Ordered, NEW n \in Nat, PendingCount(n), "lag" \notin faults \/ Live = {}
  PROVE  Filled(n)
<1>1. CASE /\ n \in account .. account + Len(txs) /\ n \notin LiveNonces
           /\ account .. n - 1 \subseteq LiveNonces
  <2>1. \A i \in Live : txs[i].nonce < n
    <3> SUFFICES ASSUME NEW i \in Live, ~(txs[i].nonce < n) PROVE FALSE
      OBVIOUS
    <3>1. /\ txs[i].nonce \in Nat /\ txs[i].nonce \in LiveNonces
          /\ account .. txs[i].nonce - 1 \subseteq LiveNonces
      BY TxTypes DEF Ordered, Reachable, LiveNonces
    <3>2. txs[i].nonce # n
      BY <1>1, <3>1
    <3>3. n \in account .. txs[i].nonce - 1
      BY <1>1, <3>1, <3>2, TxTypes
    <3> QED
      BY <1>1, <3>1, <3>3
  <2> QED
    BY <1>1, <2>1, TxTypes DEF Filled
<1>2. CASE n = account /\ Live = {}
  BY <1>2, TxTypes DEF Filled
<1> QED
  BY <1>1, <1>2 DEF PendingCount

LEMMA FilledReaches ==
  ASSUME TypeInv, NEW top \in Nat, Filled(top)
  PROVE  Reachable
<1> SUFFICES ASSUME NEW i \in Live, NEW m \in account .. txs[i].nonce - 1 PROVE m \in LiveNonces
  BY DEF Reachable
<1>1. m \in account .. top - 1
  BY TxTypes DEF Filled
<1> QED
  BY <1>1 DEF Filled

\* Signing adds what is not on its way yet.
LEMMA SignKeepsLive ==
  ASSUME TypeInv, Sign
  PROVE  /\ Live' = Live /\ Included' = Included /\ LiveNonces' = LiveNonces
         /\ \A i \in DOMAIN txs : txs'[i] = txs[i]
         /\ DOMAIN txs' = DOMAIN txs \cup {Last'} /\ Last' \notin DOMAIN txs
         /\ txs'[Last'].status = "signed" /\ txs'[Last'].nonce = nonce
<1>1. /\ DOMAIN txs' = DOMAIN txs \cup {Last'} /\ Last' \notin DOMAIN txs
      /\ \A j \in DOMAIN txs : txs'[j] = txs[j]
      /\ txs'[Last'].status = "signed" /\ txs'[Last'].nonce = nonce
  BY SignAppends, TxTypes DEF Last
<1>2. Live' = Live /\ Included' = Included
  BY <1>1 DEF Live, Included
<1>3. LiveNonces' = LiveNonces
  BY <1>1, <1>2, TxTypes DEF LiveNonces
<1> QED
  BY <1>1, <1>2, <1>3

\* Sending puts the signed transaction on its way.
LEMMA SendAddsLive ==
  ASSUME TypeInv, Last \in DOMAIN txs, txs[Last].status = "signed", SetTx(Last, "sent")
  PROVE  /\ Live' = Live \cup {Last} /\ Included' = Included
         /\ DOMAIN txs' = DOMAIN txs /\ Last' = Last
         /\ \A i \in DOMAIN txs : txs'[i].nonce = txs[i].nonce
         /\ \A i \in DOMAIN txs : txs'[i].status = IF i = Last THEN "sent" ELSE txs[i].status
<1>1. /\ DOMAIN txs' = DOMAIN txs /\ Len(txs') = Len(txs)
      /\ txs' = [j \in DOMAIN txs |->
                   IF j = Last THEN [txs[j] EXCEPT !.status = "sent"] ELSE txs[j]]
  BY SetTxKeeps DEF TypeInv, TypeOK, TxStatus
<1>2. \A i \in DOMAIN txs : /\ [txs[i] EXCEPT !.status = "sent"].nonce = txs[i].nonce
                            /\ [txs[i] EXCEPT !.status = "sent"].status = "sent"
  BY TxTypes, Restatus DEF TxStatus
<1>3. \A i \in DOMAIN txs :
        txs'[i] = IF i = Last THEN [txs[i] EXCEPT !.status = "sent"] ELSE txs[i]
  BY <1>1, Zenon
<1>4. \A i \in DOMAIN txs : /\ txs'[i].nonce = txs[i].nonce
                            /\ txs'[i].status = IF i = Last THEN "sent" ELSE txs[i].status
  BY <1>2, <1>3, Zenon
<1>5. Live' = Live \cup {Last} /\ Included' = Included
  BY <1>1, <1>4 DEF Live, Included
<1> QED
  BY <1>1, <1>4, <1>5 DEF Last

\* In order, an inclusion takes the one transaction that is next.
LEMMA IncludeMoves ==
  ASSUME TypeInv, InOrder, NEW i \in DOMAIN txs, Include(i)
  PROVE  /\ i \in Live /\ txs[i].nonce = account /\ account' = account + 1
         /\ Live' = Live \ {i} /\ Included' = Included \cup {i}
         /\ DOMAIN txs' = DOMAIN txs /\ Last' = Last
         /\ \A j \in DOMAIN txs : txs'[j].nonce = txs[j].nonce
         /\ \A j \in DOMAIN txs \ {i} : txs'[j].status = txs[j].status
         /\ txs'[i].status \in {"ok", "reverted"}
<1>1. i \in Live /\ txs[i].nonce = account /\ account' = account + 1
  BY Zenon DEF Include
<1>2. PICK status \in {"ok", "reverted"} : IncludedAs(i, status)
  BY DEF Include, IncludedAs
<1>3. \A j \in Live : txs[j].nonce = account => j = i
  BY <1>1 DEF InOrder
<1>4. \A j \in DOMAIN txs :
        txs'[j] = IF j = i THEN [txs[j] EXCEPT !.status = status] ELSE txs[j]
  BY <1>2, <1>3, Zenon DEF IncludedAs
<1>5. DOMAIN txs' = DOMAIN txs /\ Last' = Last
  BY IncludeKeeps DEF TypeInv, TypeOK, Last
<1>6. /\ [txs[i] EXCEPT !.status = status].nonce = txs[i].nonce
      /\ [txs[i] EXCEPT !.status = status].status = status
  BY TxTypes, Restatus DEF TxStatus
<1>7. /\ \A j \in DOMAIN txs : txs'[j].nonce = txs[j].nonce
      /\ \A j \in DOMAIN txs \ {i} : txs'[j].status = txs[j].status
      /\ txs'[i].status = status
  BY <1>4, <1>6, Zenon
<1>8. Live' = Live \ {i} /\ Included' = Included \cup {i}
  BY <1>1, <1>5, <1>7 DEF Live, Included
<1> QED
  BY <1>1, <1>5, <1>7, <1>8

LEMMA IncludeNonceInv ==
  ASSUME TypeInv, NonceInv, Steady, NEW i \in DOMAIN txs, Include(i)
  PROVE  NonceInv'
<1> USE DEF NonceInv, InOrder
<1>1. /\ i \in Live /\ txs[i].nonce = account /\ account' = account + 1
      /\ Live' = Live \ {i} /\ Included' = Included \cup {i}
      /\ DOMAIN txs' = DOMAIN txs /\ Last' = Last
      /\ \A j \in DOMAIN txs : txs'[j].nonce = txs[j].nonce
      /\ \A j \in DOMAIN txs \ {i} : txs'[j].status = txs[j].status
      /\ txs'[i].status \in {"ok", "reverted"}
  BY IncludeMoves
<1>2. UNCHANGED <<durable, work, faults>>
  BY Zenon DEF Include
<1>3. \A j \in Live' : j \in Live /\ account' <= txs'[j].nonce
  BY <1>1, TxTypes
<1>4. InOrder'
  BY <1>1, <1>3, TxTypes
<1>5. \A m \in LiveNonces : m # account => m \in LiveNonces'
  BY <1>1, TxTypes DEF LiveNonces
<1>6. Reachable'
  <2> SUFFICES ASSUME NEW j \in Live', NEW m \in account' .. txs'[j].nonce - 1
               PROVE  m \in LiveNonces'
    BY DEF Reachable
  <2>1. m \in account .. txs[j].nonce - 1 /\ m # account
    BY <1>1, <1>3, TxTypes
  <2> QED
    BY <1>3, <1>5, <2>1 DEF Reachable
<1>7. ASSUME NEW top \in Nat, Filled(top)
      PROVE  /\ account' <= top
             /\ \A j \in Live' : txs'[j].nonce < top
             /\ \A m \in account' .. top - 1 : m \in LiveNonces'
  <2>1. account < top
    BY <1>1, <1>7 DEF Filled
  <2>2. \A j \in Live' : txs'[j].nonce < top
    BY <1>1, <1>3, <1>7, TxTypes DEF Filled
  <2>3. \A m \in account' .. top - 1 : m \in LiveNonces'
    BY <1>1, <1>5, <1>7, TxTypes DEF Filled
  <2> QED
    BY <1>1, <2>1, <2>2, <2>3, TxTypes DEF Filled
<1>8. NonceFits'
  <2>1. nextNonce' = nextNonce /\ nextNonce \in Nat /\ (nextNonce > 0 => nextNonce - 1 \in Nat)
    BY <1>2, TxTypes
  <2>2. ASSUME pc \in {"sign", "send"} PROVE nextNonce > 0 /\ Filled(nextNonce - 1)'
    <3>1. nextNonce > 0 /\ nextNonce - 1 \in Nat /\ Filled(nextNonce - 1)
      BY <2>1, <2>2 DEF NonceFits
    <3>2. /\ account' <= nextNonce - 1
          /\ \A j \in Live' : txs'[j].nonce < nextNonce - 1
          /\ \A m \in account' .. (nextNonce - 1) - 1 : m \in LiveNonces'
      BY <1>7, <3>1
    <3> QED
      BY <2>1, <3>1, <3>2 DEF Filled
  <2>3. ASSUME pc \notin {"sign", "send", "startup", "reconcile"} PROVE Filled(nextNonce)'
    <3>1. Filled(nextNonce)
      BY <2>3 DEF NonceFits
    <3>2. /\ account' <= nextNonce
          /\ \A j \in Live' : txs'[j].nonce < nextNonce
          /\ \A m \in account' .. nextNonce - 1 : m \in LiveNonces'
      BY <1>7, <2>1, <3>1
    <3> QED
      BY <2>1, <3>2 DEF Filled
  <2>4. pc = "send" => Last \in DOMAIN txs \ {i}
    <3>1. pc = "send" => Last \in DOMAIN txs
      BY TxTypes, EmptySeq, LenProperties DEF Last, TypeInv, TypeOK, PlaceFits
    <3>2. pc = "send" => Last # i
      BY <1>1 DEF NonceFits, Live
    <3> QED
      BY <3>1, <3>2
  <2> QED
    BY <1>1, <1>2, <2>1, <2>2, <2>3, <2>4 DEF NonceFits
<1>9. LagFits'
  BY <1>1, <1>2 DEF LagFits
<1> QED
  BY <1>4, <1>6, <1>8, <1>9

\* Steps that leave the chain and the stored nonce alone.
LEMMA RestNonceInv ==
  ASSUME TypeInv, NonceInv, Steady, UNCHANGED <<txs, account, nextNonce, faults>>,
         pc \notin {"sign", "send", "startup", "reconcile"},
         pc' \notin {"sign", "send", "startup", "reconcile"}
  PROVE  NonceInv'
BY DEF NonceInv, InOrder, Reachable, NonceFits, LagFits, Live, Included, LiveNonces, Filled, Last

LEMMA ReconcileNonceInv ==
  ASSUME TypeInv, NonceInv, Steady, ReconcileNonce, UNCHANGED <<chain, faults>>,
         "lag" \notin faults \/ Live = {}, pc # "send", pc' = "idle"
  PROVE  NonceInv'
<1>1. Ordered /\ LagFits
  BY DEF NonceInv, Ordered
<1>2. PICK n \in account .. account + Len(txs) : PendingCount(n) /\ nextNonce' = n
  BY DEF ReconcileNonce
<1>3. n \in Nat
  BY TxTypes
<1>4. Filled(n)
  BY <1>1, <1>2, <1>3, PendingFills
<1>5. Filled(nextNonce)'
  BY <1>2, <1>4 DEF Filled, Live, LiveNonces
<1>6. InOrder' /\ Reachable'
  BY <1>1 DEF Ordered, InOrder, Reachable, Live, Included, LiveNonces
<1>7. LagFits'
  BY <1>1 DEF LagFits
<1> QED
  BY <1>5, <1>6, <1>7 DEF NonceInv, NonceFits

LEMMA ReserveNonceInv ==
  ASSUME TypeInv, NonceInv, Steady, Reserve
  PROVE  NonceInv'
<1>1. /\ ReserveNonce /\ pc = "base" /\ pc' = "sign" /\ UNCHANGED <<chain, faults>>
  BY Zenon DEF Reserve
<1>2. InOrder /\ Reachable /\ LagFits /\ Filled(nextNonce)
  BY <1>1 DEF NonceInv, NonceFits
<1>3. PICK n \in account .. account + Len(txs) :
        /\ PendingCount(n)
        /\ nonce' = IF n < nextNonce THEN nextNonce ELSE n
        /\ nextNonce' = nonce' + 1
  BY <1>1 DEF ReserveNonce
<1>4. n \in Nat /\ nextNonce \in Nat
  BY TxTypes
<1>5. n <= nextNonce
  BY <1>2, <1>3, <1>4, PendingIsTop
<1>6. nonce' = nextNonce /\ nextNonce' = nextNonce + 1
  BY <1>3, <1>4, <1>5
<1>7. nextNonce' > 0 /\ Filled(nextNonce - 1)'
  BY <1>1, <1>2, <1>4, <1>6 DEF Filled, Live, LiveNonces
<1>8. InOrder' /\ Reachable'
  BY <1>1, <1>2 DEF InOrder, Reachable, Live, Included, LiveNonces
<1>9. LagFits'
  BY <1>1, <1>2 DEF LagFits
<1> QED
  BY <1>1, <1>4, <1>6, <1>7, <1>8, <1>9 DEF NonceInv, NonceFits

LEMMA SignNonceInv ==
  ASSUME TypeInv, NonceInv, Steady, Sign
  PROVE  NonceInv'
<1>1. pc = "sign" /\ pc' = "send" /\ UNCHANGED <<account, nextNonce, faults>>
  BY Zenon DEF Sign
<1>2. /\ Live' = Live /\ Included' = Included /\ LiveNonces' = LiveNonces
      /\ \A i \in DOMAIN txs : txs'[i] = txs[i]
      /\ DOMAIN txs' = DOMAIN txs \cup {Last'} /\ Last' \notin DOMAIN txs
      /\ txs'[Last'].status = "signed" /\ txs'[Last'].nonce = nonce
  BY SignKeepsLive
<1>3. InOrder /\ Reachable /\ NonceFits /\ LagFits
  BY DEF NonceInv
<1>4. InOrder' /\ Reachable'
  BY <1>1, <1>2, <1>3, TxTypes DEF InOrder, Reachable
<1>5. NonceFits'
  BY <1>1, <1>2, <1>3, TxTypes DEF NonceFits, Filled
<1>6. LagFits'
  BY <1>1, <1>2, <1>3 DEF LagFits
<1> QED
  BY <1>4, <1>5, <1>6 DEF NonceInv

\* What is sent takes the place right after all that is on its way.
LEMMA SendNonceInv ==
  ASSUME TypeInv, NonceInv, Steady, Send
  PROVE  NonceInv'
<1>1. /\ pc = "send" /\ pc' \in {"idle", "record", "probe"}
      /\ UNCHANGED <<account, nextNonce, faults>>
  BY SendSets DEF Send, Broadcast, BroadcastError, BroadcastMismatch, BroadcastGarbled,
                  AfterSend, GoIdle, Goto
<1>2. InOrder /\ Reachable /\ LagFits
  BY DEF NonceInv
<1>3. /\ nextNonce > 0 /\ Filled(nextNonce - 1)
      /\ txs[Last].status = "signed" /\ txs[Last].nonce = nextNonce - 1
  BY <1>1 DEF NonceInv, NonceFits
<1>4. Last \in DOMAIN txs
  <2>1. txs # <<>>
    BY <1>1, Zenon DEF TypeInv, PlaceFits
  <2> QED
    BY <2>1, TxTypes, EmptySeq DEF Last, TypeInv, TypeOK
<1>5. ~Passed
  BY <1>3, TxTypes DEF Passed, Filled
<1>6. SetTx(Last, "sent")
  BY <1>5, SendSets DEF Steady
<1>7. /\ Live' = Live \cup {Last} /\ Included' = Included
      /\ DOMAIN txs' = DOMAIN txs /\ Last' = Last
      /\ \A i \in DOMAIN txs : txs'[i].nonce = txs[i].nonce
      /\ \A i \in DOMAIN txs : txs'[i].status = IF i = Last THEN "sent" ELSE txs[i].status
  BY <1>3, <1>4, <1>6, SendAddsLive
<1>8. Last \notin Live \cup Included
  BY <1>3 DEF Live, Included
<1>9. \A i \in Live \cup Included : txs[i].nonce # txs[Last].nonce
  BY <1>2, <1>3, TxTypes DEF InOrder, Filled
<1>10. InOrder'
  <2>1. \A i \in Included' : txs'[i].nonce < account'
    BY <1>1, <1>2, <1>7, TxTypes DEF InOrder
  <2>2. \A i \in Live' : account' <= txs'[i].nonce
    BY <1>1, <1>2, <1>3, <1>4, <1>7, TxTypes DEF InOrder, Filled
  <2>3. \A i \in DOMAIN txs' : txs'[i].status # "lost"
    BY <1>2, <1>7 DEF InOrder
  <2>4. \A i, j \in Live' \cup Included' : txs'[i].nonce = txs'[j].nonce => i = j
    BY <1>2, <1>4, <1>7, <1>9, TxTypes DEF InOrder
  <2> QED
    BY <2>1, <2>2, <2>3, <2>4 DEF InOrder
<1>11. Filled(nextNonce)'
  <2>1. LiveNonces' = LiveNonces \cup {nextNonce - 1}
    BY <1>3, <1>4, <1>7, TxTypes, SMTT(30) DEF LiveNonces
  <2>2. \A i \in Live' : txs'[i].nonce < nextNonce
    BY <1>3, <1>4, <1>7, TxTypes DEF Filled
  <2> QED
    BY <1>1, <1>3, <2>1, <2>2, TxTypes DEF Filled
<1>12. Reachable'
  BY <1>1, <1>2, <1>3, <1>4, <1>7, <1>11, TxTypes DEF Filled, Reachable
<1>13. LagFits'
  BY <1>1, <1>2, <1>7 DEF LagFits
<1> QED
  BY <1>1, <1>10, <1>11, <1>12, <1>13 DEF NonceInv, NonceFits

\* What becomes of the nonces when a buy is given up for not found.
LEMMA NotFoundNonceInv ==
  ASSUME TypeInv, NonceInv, Steady, NEW e \in Event, BuyNotFound(e)
  PROVE  NonceInv'
<1>1. /\ pc = "idle" /\ pc' = "reconcile" /\ UNCHANGED <<chain, nextNonce, faults>>
      /\ order[e] = "inflight" /\ txs[hash[e]].status \in {"signed", "lost"}
  BY DEF BuyNotFound, Goto
<1>2. hash[e] \in DOMAIN txs
  BY <1>1, TxTypes DEF TypeInv, TypeOK
<1>3. "lag" \notin faults
  BY <1>1, <1>2 DEF NonceInv, InOrder, LagFits
<1> QED
  BY <1>1, <1>3 DEF NonceInv, InOrder, Reachable, NonceFits, LagFits, Live, Included, LiveNonces

LEMMA StepNonceInv ==
  ASSUME Reconcilable, TypeInv, NonceInv, Steady, AdapterStep \/ Stop
  PROVE  NonceInv'
<1>1. CASE Startup \/ Reconcile
  <2>1. "lag" \notin faults \/ Live = {}
    BY <1>1 DEF Startup, Reconcile, NonceInv, LagFits
  <2> QED
    BY <1>1, <2>1, ReconcileNonceInv DEF Startup, Reconcile, GoIdle
<1>2. CASE Ensure \/ RpcFailure
  <2>1. /\ UNCHANGED <<txs, account, nextNonce, faults>>
        /\ pc \in {"allowance", "recover", "base"}
        /\ pc' \in {"allowance", "recover", "base", "idle"}
    BY <1>2 DEF Ensure, RpcFailure, Allowed, NotAllowed, NothingToRecover, ApprovalPending,
                RecoverConfirmed, RecoverReverted, Goto, GoIdle, Advance, StepOf
  <2> QED
    BY <2>1, RestNonceInv
<1>3. CASE SigningFails
  <2>1. "signing" \in faults /\ "lag" \notin faults /\ pc = "sign"
    BY <1>3 DEF SigningFails, Reconcilable, TypeInv, TypeOK
  <2>2. ReconcileNonce
    BY <1>3 DEF SigningFails, Steady
  <2> QED
    BY <1>3, <2>1, <2>2, ReconcileNonceInv DEF SigningFails, GoIdle
<1>4. CASE Probe \/ RecordAttempt \/ WaitConfirmed \/ WaitReverted \/ WaitTimeout
           \/ ReceiptGarbled
  <2>1. /\ UNCHANGED <<txs, account, nextNonce, faults>>
        /\ pc \in {"probe", "record", "wait"}
        /\ pc' \in {"allowance", "base", "idle", "record", "wait"}
    BY <1>4 DEF Probe, RecordAttempt, WaitConfirmed, WaitReverted, WaitTimeout, ReceiptGarbled,
                AfterSend, Goto, GoIdle, Advance, StepOf
  <2> QED
    BY <2>1, RestNonceInv
<1>5. CASE \E e \in Event : Start(e) \/ SwapReceipt(e)
  <2>1. /\ UNCHANGED <<txs, account, nextNonce, faults>>
        /\ pc = "idle" /\ pc' \in {"allowance", "base", "idle"}
    BY <1>5 DEF Start, SwapReceipt, StepOf
  <2> QED
    BY <2>1, RestNonceInv
<1>6. CASE Stop
  <2>1. "stop" \in faults /\ "lag" \notin faults /\ pc' = "startup"
        /\ UNCHANGED <<txs, account, nextNonce, faults>>
    BY <1>6 DEF Stop, Reconcilable, TypeInv, TypeOK
  <2> QED
    BY <2>1 DEF NonceInv, InOrder, Reachable, NonceFits, LagFits, Live, Included, LiveNonces
<1>7. ~ReconcileFails
  BY DEF ReconcileFails, Steady
<1> QED
  BY <1>1, <1>2, <1>3, <1>4, <1>5, <1>6, <1>7, ReserveNonceInv, SignNonceInv, SendNonceInv,
     NotFoundNonceInv DEF AdapterStep, Submit, Send

LEMMA NextNonceInv ==
  ASSUME Reconcilable, TypeInv, NonceInv, [Next]_vars
  PROVE  NonceInv'
<1>1. faults' = faults
  <2>1. CASE ChainStep
    BY <2>1, Zenon DEF ChainStep, Include, Lose, Lapse
  <2>2. CASE Ensure \/ RpcFailure \/ ReconcileFails \/ Startup \/ Reconcile \/ Reserve
    BY <2>2 DEF Ensure, RpcFailure, ReconcileFails, Startup, Reconcile, Reserve, Allowed,
                NotAllowed, NothingToRecover, ApprovalPending, RecoverConfirmed, RecoverReverted
  <2>3. CASE Submit
    BY <2>3, Zenon DEF Submit, Sign, SigningFails, Broadcast, BroadcastError, BroadcastMismatch,
                       BroadcastGarbled, ReceiptGarbled, Probe, RecordAttempt, WaitConfirmed,
                       WaitReverted, WaitTimeout
  <2>4. CASE Stop \/ \E e \in Event : Start(e) \/ SwapReceipt(e) \/ BuyNotFound(e)
    BY <2>4, Zenon DEF Stop, Start, SwapReceipt, BuyNotFound
  <2> QED
    BY <2>1, <2>2, <2>3, <2>4, Zenon DEF Next, AdapterStep
<1>2. SUFFICES ASSUME Steady PROVE NonceInv'
  BY <1>1 DEF NonceInv, Steady
<1>3. CASE AdapterStep \/ Stop
  BY <1>2, <1>3, StepNonceInv
<1>4. CASE \E i \in DOMAIN txs : Include(i)
  BY <1>2, <1>4, IncludeNonceInv
<1>5. CASE \E i \in DOMAIN txs : Lose(i)
  BY <1>2, <1>5 DEF Lose, Steady
<1>6. CASE UNCHANGED vars \/ \E e \in Event : Lapse(e)
  <2>1. UNCHANGED <<txs, account, nextNonce, pc, nonce, faults>>
    BY <1>6 DEF Lapse
  <2> QED
    BY <2>1 DEF NonceInv, Steady, InOrder, Reachable, NonceFits, LagFits, Live, Included,
                LiveNonces, Filled, Last
<1> QED
  BY <1>3, <1>4, <1>5, <1>6 DEF Next, ChainStep

\* The inductive invariant: what is on its way fills the nonces from the account's
\* to the stored one, but for the one in hand (nonce.py, _base_transaction).
THEOREM NonceInvariant ==
  ASSUME Reconcilable
  PROVE  Spec => [](TypeInv /\ NonceInv)
BY InitTypeInv, InitNonceInv, NextTypeInv, NextNonceInv, PTL DEF Spec

\* No two transactions that are or may be included share a nonce, whatever
\* restarts and failures to sign come between (NonceManager.reserve).
THEOREM NoncesUnique ==
  ASSUME Reconcilable
  PROVE  Spec => []NonceUnique
<1>1. TypeInv /\ NonceInv => NonceUnique
  <2> SUFFICES ASSUME TypeInv, NonceInv, "drop" \notin faults,
                      NEW i \in Live \cup Included, NEW j \in Live \cup Included, i # j
               PROVE  txs[i].nonce # txs[j].nonce
    BY DEF NonceUnique
  <2>1. Steady
    BY DEF Reconcilable, Steady, TypeInv, TypeOK
  <2> QED
    BY <2>1 DEF NonceInv, InOrder
<1> QED
  BY <1>1, NonceInvariant, PTL

\* Whatever was sent can be included: no nonce before it was given up
\* (NonceManager.reconcile).
THEOREM NoGaps ==
  ASSUME Reconcilable
  PROVE  Spec => []NoGap
<1>1. TypeInv /\ NonceInv => NoGap
  BY DEF NoGap, NonceInv, Steady
<1> QED
  BY <1>1, NonceInvariant, PTL

-----------------------------------------------------------------------------
(***************************************************************************)
(* Who answers for a transaction.  The order's row has a swap from before  *)
(* it is sent, the attempt's row an approval from after; in between the    *)
(* process itself has it in hand.  None of this needs the environment to   *)
(* behave.                                                                 *)
(***************************************************************************)

\* An attempt that is resolved is of a transaction that is not on its way.
AttemptsFinal == \A e \in Event : ~PendingAttempt(e) => attempt[e].tx \notin Live

\* Before an approval is recorded nothing of its event is pending, and no row
\* has what is in hand.
AttemptFits ==
  /\ pc \in {"base", "sign", "send", "probe", "record"} /\ ~IsSwap => ~PendingAttempt(ev)
  /\ pc \in {"send", "probe", "record"} => \A e \in Event : attempt[e].tx # Len(txs)
  /\ pc = "wait" => attempt[ev] = [status |-> "SUBMITTED", tx |-> Len(txs)]

\* The inductive invariant about approvals.
AttemptInv == AttemptsFinal /\ AttemptFits

\* The transactions that there are, with their nonces, stay.
TxsStay ==
  /\ DOMAIN txs' = DOMAIN txs /\ Len(txs') = Len(txs)
  /\ \A j \in DOMAIN txs : txs'[j].nonce = txs[j].nonce

LEMMA SetTxMoves ==
  ASSUME TypeInv, NEW i \in DOMAIN txs, NEW status \in TxStatus, SetTx(i, status)
  PROVE  /\ TxsStay
         /\ \A j \in DOMAIN txs : txs'[j].status = IF j = i THEN status ELSE txs[j].status
<1>1. /\ DOMAIN txs' = DOMAIN txs /\ Len(txs') = Len(txs)
      /\ txs' = [j \in DOMAIN txs |->
                   IF j = i THEN [txs[j] EXCEPT !.status = status] ELSE txs[j]]
  BY SetTxKeeps DEF TypeInv, TypeOK
<1>2. \A j \in DOMAIN txs : /\ [txs[j] EXCEPT !.status = status].nonce = txs[j].nonce
                            /\ [txs[j] EXCEPT !.status = status].status = status
  BY TxTypes, Restatus
<1>3. \A j \in DOMAIN txs : txs'[j] = IF j = i THEN [txs[j] EXCEPT !.status = status] ELSE txs[j]
  BY <1>1, Zenon
<1> QED
  BY <1>1, <1>2, <1>3, Zenon DEF TxsStay

\* An inclusion, whatever else carries the same nonce.
LEMMA IncludeTakes ==
  ASSUME TypeInv, NEW i \in DOMAIN txs, Include(i)
  PROVE  /\ TxsStay /\ UNCHANGED <<durable, work, faults>>
         /\ i \in Live /\ txs[i].nonce = account /\ account' = account + 1
         /\ Included' = Included \cup {i}
         /\ Live' = {j \in Live : txs[j].nonce # account}
<1>1. i \in Live /\ txs[i].nonce = account /\ account' = account + 1
      /\ UNCHANGED <<durable, work, faults>>
  BY Zenon DEF Include
<1>2. PICK status \in {"ok", "reverted"} : IncludedAs(i, status)
  BY DEF Include, IncludedAs
<1>3. \A s \in TxStatus : \A j \in DOMAIN txs :
        /\ [txs[j] EXCEPT !.status = s].nonce = txs[j].nonce
        /\ [txs[j] EXCEPT !.status = s].status = s
  BY TxTypes, Restatus
<1>4. "lost" \in TxStatus /\ status \in TxStatus
  BY DEF TxStatus
<1>5. \A j \in DOMAIN txs :
        txs'[j] = IF j = i THEN [txs[j] EXCEPT !.status = status]
                  ELSE IF j \in Live /\ txs[j].nonce = account
                       THEN [txs[j] EXCEPT !.status = "lost"]
                       ELSE txs[j]
  BY <1>2, Zenon DEF IncludedAs
<1>6. DOMAIN txs' = DOMAIN txs /\ Len(txs') = Len(txs)
  BY IncludeKeeps DEF TypeInv, TypeOK
<1>7. \A j \in DOMAIN txs :
        /\ txs'[j].nonce = txs[j].nonce
        /\ txs'[j].status = IF j = i THEN status
                            ELSE IF j \in Live /\ txs[j].nonce = account
                                 THEN "lost" ELSE txs[j].status
  <2> SUFFICES ASSUME NEW j \in DOMAIN txs
               PROVE  /\ txs'[j].nonce = txs[j].nonce
                      /\ txs'[j].status = IF j = i THEN status
                                          ELSE IF j \in Live /\ txs[j].nonce = account
                                               THEN "lost" ELSE txs[j].status
    OBVIOUS
  <2>1. CASE j = i
    <3>1. txs'[j] = [txs[j] EXCEPT !.status = status]
      BY <1>5, <2>1, Zenon
    <3> QED
      BY <1>3, <1>4, <2>1, <3>1
  <2>2. CASE j # i /\ j \in Live /\ txs[j].nonce = account
    <3>1. txs'[j] = [txs[j] EXCEPT !.status = "lost"]
      BY <1>5, <2>2, Zenon
    <3> QED
      BY <1>3, <1>4, <2>2, <3>1
  <2>3. CASE j # i /\ ~(j \in Live /\ txs[j].nonce = account)
    <3>1. txs'[j] = txs[j]
      BY <1>5, <2>3, Zenon
    <3> QED
      BY <2>3, <3>1, Zenon
  <2> QED
    BY <2>1, <2>2, <2>3
<1>8. TxsStay
  BY <1>6, <1>7, Zenon DEF TxsStay
<1>9. Included' = Included \cup {i}
  BY <1>1, <1>6, <1>7 DEF Live, Included
<1>10. Live' = {j \in Live : txs[j].nonce # account}
  BY <1>1, <1>6, <1>7 DEF Live
<1> QED
  BY <1>1, <1>8, <1>9, <1>10

LEMMA LoseTakes ==
  ASSUME TypeInv, NEW i \in DOMAIN txs, Lose(i)
  PROVE  /\ TxsStay /\ UNCHANGED <<durable, work, faults, account>>
         /\ "drop" \in faults
         /\ i \in Live /\ Included' = Included /\ Live' = Live \ {i}
<1>1. /\ TxsStay
      /\ \A j \in DOMAIN txs : txs'[j].status = IF j = i THEN "lost" ELSE txs[j].status
  BY SetTxMoves DEF Lose, TxStatus
<1>2. /\ UNCHANGED <<durable, work, faults, account>> /\ i \in Live /\ "drop" \in faults
  BY Zenon DEF Lose
<1>3. Included' = Included /\ Live' = Live \ {i}
  BY <1>1, <1>2 DEF TxsStay, Live, Included
<1> QED
  BY <1>1, <1>2, <1>3

\* What is sent, or found to be refused, is the transaction in hand.
LEMMA SendTouchesLast ==
  ASSUME TypeInv, Send
  PROVE  /\ TxsStay /\ Last \in DOMAIN txs
         /\ UNCHANGED <<account, allowed, nextNonce, attempt, hash, faults>>
         /\ Included' \subseteq Included
         /\ Live' \subseteq Live \cup {Last} /\ Live \subseteq Live' \cup {Last}
         /\ "drop" \notin faults => Last \in Live' \/ txs[Last].nonce < account
<1>1. PICK status \in {"sent", "lost"} : SetTx(Last, status)
  BY SendSets
<1>2. Last \in DOMAIN txs
  <2>1. txs # <<>>
    BY SendSets, Zenon DEF TypeInv, PlaceFits
  <2> QED
    BY <2>1, TxTypes, EmptySeq DEF Last, TypeInv, TypeOK
<1>3. /\ TxsStay
      /\ \A j \in DOMAIN txs : txs'[j].status = IF j = Last THEN status ELSE txs[j].status
  BY <1>1, <1>2, SetTxMoves DEF TxStatus
<1>4. UNCHANGED <<account, allowed, nextNonce, attempt, hash, faults>>
  BY SendSets
<1>5. /\ Included' \subseteq Included
      /\ Live' \subseteq Live \cup {Last} /\ Live \subseteq Live' \cup {Last}
  BY <1>1, <1>2, <1>3 DEF TxsStay, Live, Included
<1>6. ASSUME "drop" \notin faults PROVE Last \in Live' \/ txs[Last].nonce < account
  <2>1. CASE SetTx(Last, "sent")
    <3>1. txs'[Last].status = "sent" /\ DOMAIN txs' = DOMAIN txs
      BY <1>2, <2>1, SetTxMoves DEF TxStatus, TxsStay
    <3> QED
      BY <1>2, <3>1 DEF Live
  <2>2. CASE Passed
    BY <2>2 DEF Passed
  <2> QED
    BY <1>6, <2>1, <2>2, SendSets
<1> QED
  BY <1>2, <1>3, <1>4, <1>5, <1>6

\* Where the code goes on to the base transaction without an approval at stake,
\* it is the swap's.
LEMMA BaseIsSwap ==
  ASSUME TypeInv, NEW e \in Event, NEW n \in Nat, ev' = e, step' = n, pc' = StepOf(e, n),
         pc' = "base"
  PROVE  IsSwap'
<1>1. ~(n <= Len(Needs[e]))
  BY DEF StepOf
<1> QED
  BY <1>1, NeedsType DEF IsSwap

LEMMA InitAttemptInv == Init => AttemptInv
<1> SUFFICES ASSUME Init PROVE AttemptInv
  OBVIOUS
<1>1. Live = {} /\ pc = "startup"
  BY DEF Init, Live
<1> QED
  BY <1>1, Zenon DEF AttemptInv, AttemptsFinal, AttemptFits

\* Steps that sign and send nothing and leave the attempts alone.
LEMMA QuietAttemptInv ==
  ASSUME AttemptInv, UNCHANGED attempt, Live' \subseteq Live, Len(txs') = Len(txs),
         \/ UNCHANGED work
         \/ /\ pc' \in {"startup", "idle", "allowance", "recover", "reconcile"}
         \/ pc' = "base" /\ IsSwap'
         \/ pc' = "base" /\ ~PendingAttempt(ev) /\ UNCHANGED ev
         \/ pc = "base" /\ pc' = "sign" /\ UNCHANGED <<ev, step>>
         \/ pc = "probe" /\ pc' = "record" /\ UNCHANGED <<ev, step>>
  PROVE  AttemptInv'
BY DEF AttemptInv, AttemptsFinal, AttemptFits, PendingAttempt, IsSwap

\* Steps that write a row of the event in hand.
LEMMA WrittenAttemptInv ==
  ASSUME TypeInv, AttemptInv, NEW status \in AttemptStatus, NEW i \in Nat,
         attempt' = [attempt EXCEPT ![ev] = [status |-> status, tx |-> i]],
         UNCHANGED txs, UNCHANGED ev,
         status \in {"CONFIRMED", "REVERTED"} => i \notin Live,
         status # "none",
         \/ pc' \in {"idle", "allowance"}
         \/ pc' = "base" /\ (IsSwap' \/ status = "REVERTED")
         \/ pc' = "wait" /\ status = "SUBMITTED" /\ i = Len(txs)
  PROVE  AttemptInv'
<1>1. ev \in Event /\ attempt \in [Event -> [status : AttemptStatus, tx : Nat]]
  BY DEF TypeInv, TypeOK
<1>2. /\ attempt'[ev] = [status |-> status, tx |-> i]
      /\ \A e \in Event \ {ev} : attempt'[e] = attempt[e]
  BY <1>1
<1>3. Live' = Live /\ Len(txs') = Len(txs)
  BY DEF Live
<1>4. AttemptsFinal'
  <2> SUFFICES ASSUME NEW e \in Event, ~PendingAttempt(e)' PROVE attempt'[e].tx \notin Live
    BY <1>3 DEF AttemptsFinal
  <2>1. CASE e = ev
    BY <1>2, <2>1 DEF PendingAttempt, AttemptStatus
  <2>2. CASE e # ev
    BY <1>2, <2>2 DEF PendingAttempt, AttemptInv, AttemptsFinal
  <2> QED
    BY <2>1, <2>2
<1>5. AttemptFits'
  <2>1. attempt'[ev].status = status
    BY <1>2
  <2> QED
    BY <1>2, <1>3, <2>1 DEF AttemptFits, PendingAttempt, IsSwap
<1> QED
  BY <1>4, <1>5 DEF AttemptInv

LEMMA StepAttemptInv ==
  ASSUME TypeInv, AttemptInv, AdapterStep \/ Stop
  PROVE  AttemptInv'
<1>t. /\ ev \in Event /\ attempt \in [Event -> [status : AttemptStatus, tx : Nat]]
      /\ attempt[ev].tx \in Nat /\ attempt[ev].status \in AttemptStatus
      /\ Last = Len(txs) /\ Len(txs) \in Nat
  BY TxTypes DEF TypeInv, TypeOK, Last
<1>q. ASSUME UNCHANGED <<txs, attempt>> PROVE Live' \subseteq Live /\ Len(txs') = Len(txs)
  BY <1>q DEF Live
<1>1. CASE Startup \/ Reconcile \/ ApprovalPending \/ RpcFailure \/ SigningFails \/ NotAllowed
           \/ ReconcileFails \/ ReceiptGarbled \/ Stop
  <2>1. UNCHANGED <<txs, attempt>> /\ pc' \in {"startup", "idle", "recover"}
    BY <1>1 DEF Startup, Reconcile, ApprovalPending, RpcFailure, SigningFails, NotAllowed,
                ReconcileFails, ReceiptGarbled, Stop, GoIdle, Goto
  <2> QED
    BY <1>q, <2>1, QuietAttemptInv
<1>2. CASE Allowed
  <2>1. UNCHANGED <<txs, attempt>> /\ ev' = ev /\ step' = step + 1 /\ pc' = StepOf(ev, step + 1)
    BY <1>2 DEF Allowed, Advance
  <2>2. pc' = "base" => IsSwap'
    BY <1>t, <2>1, BaseIsSwap DEF TypeInv, TypeOK
  <2>3. pc' \in {"allowance", "base"}
    BY <2>1 DEF StepOf
  <2> QED
    BY <1>q, <2>1, <2>2, <2>3, QuietAttemptInv
<1>3. CASE NothingToRecover
  BY <1>q, <1>3, QuietAttemptInv DEF NothingToRecover, Goto
<1>4. CASE Reserve
  BY <1>q, <1>4, QuietAttemptInv DEF Reserve
<1>5. CASE Probe
  <2>1. /\ UNCHANGED <<txs, attempt>> /\ pc = "probe"
        /\ pc' = "idle" \/ (pc' = "record" /\ UNCHANGED <<ev, step>>)
    BY <1>5 DEF Probe, AfterSend, GoIdle
  <2> QED
    BY <1>q, <2>1, QuietAttemptInv
<1>6. ASSUME NEW e \in Event, Start(e) PROVE AttemptInv'
  <2>1. UNCHANGED <<txs, attempt>> /\ ev' = e /\ step' = 1 /\ pc' = StepOf(e, 1)
    BY <1>6 DEF Start
  <2>2. pc' = "base" => IsSwap'
    BY <2>1, BaseIsSwap
  <2>3. pc' \in {"allowance", "base"}
    BY <2>1 DEF StepOf
  <2> QED
    BY <1>q, <2>1, <2>2, <2>3, QuietAttemptInv
<1>7. ASSUME NEW e \in Event, SwapReceipt(e) \/ BuyNotFound(e) PROVE AttemptInv'
  <2>1. UNCHANGED <<txs, attempt>> /\ (UNCHANGED work \/ pc' = "reconcile")
    BY <1>7 DEF SwapReceipt, BuyNotFound, Goto
  <2> QED
    BY <1>q, <2>1, QuietAttemptInv
<1>8. CASE RecoverConfirmed \/ RecoverReverted
  <2> DEFINE i == attempt[ev].tx
  <2>1. PICK status \in {"CONFIRMED", "REVERTED"} :
          /\ ResolveAttempt(status)
          /\ txs[i].status \in {"ok", "reverted"}
          /\ UNCHANGED <<txs, ev>>
          /\ \/ status = "CONFIRMED" /\ Advance
             \/ status = "REVERTED" /\ pc' = "base"
    BY <1>8 DEF RecoverConfirmed, RecoverReverted, Advance, Goto
  <2>2. i \notin Live
    BY <2>1 DEF Live
  <2>3. attempt' = [attempt EXCEPT ![ev] = [status |-> status, tx |-> i]]
    <3>1. [attempt[ev] EXCEPT !.status = status] = [status |-> status, tx |-> i]
      BY <1>t
    <3>2. attempt' = [attempt EXCEPT ![ev] = [attempt[ev] EXCEPT !.status = status]]
      BY <2>1 DEF ResolveAttempt
    <3> QED
      BY <3>1, <3>2
  <2>4. CASE Advance
    <3>1. ev' = ev /\ step' = step + 1 /\ pc' = StepOf(ev, step + 1)
      BY <2>4 DEF Advance
    <3>2. pc' = "base" => IsSwap'
      BY <1>t, <3>1, BaseIsSwap DEF TypeInv, TypeOK
    <3>3. pc' \in {"allowance", "base"}
      BY <3>1 DEF StepOf
    <3> HIDE DEF i
    <3> QED
      BY <1>t, <2>1, <2>2, <2>3, <3>2, <3>3, WrittenAttemptInv DEF AttemptStatus, i
  <2>5. CASE status = "REVERTED" /\ pc' = "base"
    BY <1>t, <2>1, <2>2, <2>3, <2>5, WrittenAttemptInv DEF AttemptStatus
  <2> QED
    BY <2>1, <2>4, <2>5
<1>9. CASE Sign
  <2>1. /\ pc = "sign" /\ pc' = "send" /\ UNCHANGED <<ev, step, attempt>>
    BY <1>9, Zenon DEF Sign
  <2>2. Live' = Live /\ Len(txs') = Len(txs) + 1
    BY <1>9, SignKeepsLive, SignAppends
  <2>3. \A e \in Event : attempt[e].tx <= Len(txs) /\ attempt[e].tx \in Nat
    BY <1>t DEF TypeInv, TypeOK
  <2>4. \A e \in Event : attempt'[e].tx # Len(txs')
    BY <1>t, <2>1, <2>2, <2>3
  <2> QED
    BY <2>1, <2>2, <2>4, Zenon DEF AttemptInv, AttemptsFinal, AttemptFits, PendingAttempt, IsSwap
<1>10. CASE Send
  <2>1. /\ Len(txs') = Len(txs) /\ Live' \subseteq Live \cup {Last} /\ UNCHANGED attempt
    BY <1>10, SendTouchesLast DEF TxsStay
  <2>2. /\ pc = "send"
        /\ pc' = "idle" \/ (pc' \in {"probe", "record"} /\ UNCHANGED <<ev, step>>)
    BY <1>10, SendSets DEF Send, Broadcast, BroadcastError, BroadcastMismatch, BroadcastGarbled,
                           AfterSend, GoIdle, Goto
  <2>3. \A e \in Event : attempt[e].tx # Last
    BY <1>t, <2>2 DEF AttemptInv, AttemptFits
  <2>4. AttemptsFinal'
    BY <2>1, <2>3 DEF AttemptInv, AttemptsFinal, PendingAttempt
  <2>5. AttemptFits'
    BY <2>1, <2>2 DEF AttemptInv, AttemptFits, PendingAttempt, IsSwap
  <2> QED
    BY <2>4, <2>5 DEF AttemptInv
<1>11. CASE RecordAttempt
  <2> DEFINE status == IF ambiguous THEN "UNKNOWN" ELSE "SUBMITTED"
  <2>1. /\ Attempt(status) /\ UNCHANGED <<txs, ev>>
        /\ pc' = "idle" \/ (pc' = "wait" /\ status = "SUBMITTED")
    BY <1>11 DEF RecordAttempt, GoIdle, Goto
  <2>2. status \in {"UNKNOWN", "SUBMITTED"}
    OBVIOUS
  <2> HIDE DEF status
  <2>3. attempt' = [attempt EXCEPT ![ev] = [status |-> status, tx |-> Last]]
    BY <2>1 DEF Attempt
  <2> QED
    BY <1>t, <2>1, <2>2, <2>3, WrittenAttemptInv DEF AttemptStatus
<1>12. CASE WaitConfirmed \/ WaitReverted \/ WaitTimeout
  <2>1. PICK status \in {"CONFIRMED", "REVERTED", "UNKNOWN"} :
          /\ Attempt(status) /\ UNCHANGED <<txs, ev>>
          /\ status # "UNKNOWN" => txs[Last].status \in {"ok", "reverted"}
          /\ pc' = "idle" \/ Advance
    BY <1>12 DEF WaitConfirmed, WaitReverted, WaitTimeout, GoIdle, Advance
  <2>2. attempt' = [attempt EXCEPT ![ev] = [status |-> status, tx |-> Last]]
    BY <2>1 DEF Attempt
  <2>3. status # "UNKNOWN" => Last \notin Live
    BY <2>1 DEF Live
  <2>4. pc' \in {"idle", "allowance"} \/ (pc' = "base" /\ IsSwap')
    <3>1. CASE Advance
      <4>1. ev' = ev /\ step' = step + 1 /\ pc' = StepOf(ev, step + 1)
        BY <3>1 DEF Advance
      <4>2. pc' = "base" => IsSwap'
        BY <1>t, <4>1, BaseIsSwap DEF TypeInv, TypeOK
      <4>3. pc' \in {"allowance", "base"}
        BY <4>1 DEF StepOf
      <4> QED
        BY <4>2, <4>3
    <3> QED
      BY <2>1, <3>1
  <2> QED
    BY <1>t, <2>1, <2>2, <2>3, <2>4, WrittenAttemptInv DEF AttemptStatus
<1> QED
  BY <1>1, <1>2, <1>3, <1>4, <1>5, <1>6, <1>7, <1>8, <1>9, <1>10, <1>11, <1>12
     DEF AdapterStep, Ensure, Submit, Send

LEMMA NextAttemptInv ==
  ASSUME TypeInv, AttemptInv, [Next]_vars
  PROVE  AttemptInv'
<1>1. CASE AdapterStep \/ Stop
  BY <1>1, StepAttemptInv
<1>2. ASSUME NEW i \in DOMAIN txs, Include(i) \/ Lose(i) PROVE AttemptInv'
  <2>1. UNCHANGED attempt /\ Live' \subseteq Live /\ Len(txs') = Len(txs) /\ UNCHANGED work
    BY <1>2, IncludeTakes, LoseTakes DEF TxsStay
  <2> QED
    BY <2>1, QuietAttemptInv
<1>3. CASE UNCHANGED vars \/ \E e \in Event : Lapse(e)
  <2>1. UNCHANGED <<txs, attempt, work>>
    BY <1>3 DEF Lapse
  <2> QED
    BY <2>1, QuietAttemptInv DEF Live
<1> QED
  BY <1>1, <1>2, <1>3 DEF Next, ChainStep

\* The inductive invariant: what the rows of approvals say of the chain, wherever
\* ensure_token_approval and _submit are.
THEOREM AttemptInvariant == Spec => [](TypeInv /\ AttemptInv)
BY InitTypeInv, InitAttemptInv, NextTypeInv, NextAttemptInv, PTL DEF Spec

\* Only the signing of a transaction makes one more of them.
LEMMA OnlySignAppends ==
  ASSUME TypeInv, [Next]_vars
  PROVE  Sign \/ Len(txs') = Len(txs)
<1>1. CASE ChainStep
  <2>1. CASE \E i \in DOMAIN txs : Include(i) \/ Lose(i)
    BY <2>1, IncludeTakes, LoseTakes DEF TxsStay
  <2>2. CASE \E e \in Event : Lapse(e)
    BY <2>2 DEF Lapse
  <2> QED
    BY <1>1, <2>1, <2>2 DEF ChainStep
<1>2. CASE Send
  BY <1>2, SendTouchesLast DEF TxsStay
<1>3. CASE Ensure \/ RpcFailure \/ ReconcileFails \/ Startup \/ Reconcile \/ Reserve
           \/ SigningFails \/ ReceiptGarbled \/ Probe
           \/ RecordAttempt \/ WaitConfirmed \/ WaitReverted \/ WaitTimeout \/ Stop
           \/ \E e \in Event : Start(e) \/ SwapReceipt(e) \/ BuyNotFound(e)
  BY <1>3, Zenon
     DEF Ensure, RpcFailure, ReconcileFails, Startup, Reconcile, Reserve, Allowed, NotAllowed,
         NothingToRecover, ApprovalPending, RecoverConfirmed, RecoverReverted, SigningFails,
         ReceiptGarbled, Probe, RecordAttempt, WaitConfirmed, WaitReverted, WaitTimeout, Stop,
         Start, SwapReceipt, BuyNotFound
<1> QED
  BY <1>1, <1>2, <1>3 DEF Next, AdapterStep, Submit, Send

\* No approval is sent while one that was written down for the same event may
\* still be included, whatever the environment does (_recover_pending_approval).
THEOREM ApprovalsAwait == Spec => ApprovalAwaitsRecorded
<1>1. ASSUME TypeInv, AttemptInv, [Next]_vars, NEW e \in Event, SignsApproval(e)
      PROVE  attempt[e].tx \notin Live
  <2>1. Len(txs) \in Nat
    BY <1>1, TxTypes
  <2>2. Sign
    BY <1>1, <2>1, OnlySignAppends DEF SignsApproval
  <2>3. txs'[Len(txs')] = [event |-> ev, kind |-> Kind, nonce |-> nonce, status |-> "signed"]
    BY <1>1, <2>2, SignAppends
  <2>4. ev = e /\ Kind \in Approval
    BY <1>1, <2>3 DEF SignsApproval, IsApprovalOf
  <2>5. ~IsSwap
    BY <2>4 DEF Kind, Approval
  <2>6. ~PendingAttempt(e)
    BY <1>1, <2>2, <2>4, <2>5 DEF Sign, AttemptInv, AttemptFits
  <2> QED
    BY <1>1, <2>6 DEF AttemptInv, AttemptsFinal
<1>2. TypeInv /\ AttemptInv /\ [Next]_vars
        => [\A e \in Event : SignsApproval(e) => attempt[e].tx \notin Live]_vars
  BY <1>1
<1> QED
  BY <1>2, AttemptInvariant, PTL DEF Spec, ApprovalAwaitsRecorded

-----------------------------------------------------------------------------
(***************************************************************************)
(* Who will use a nonce that was handed out.  Until it is included, it is  *)
(* that of a transaction on its way, of the one in hand, or of one that an *)
(* order or an attempt in flight will look up.                             *)
(***************************************************************************)

\* The row of an event answers for transaction i.
Answers(e, i) ==
  \/ order[e] = "inflight" /\ hash[e] = i
  \/ PendingAttempt(e) /\ attempt[e].tx = i

InHand(i) == pc \in {"send", "probe", "record"} /\ i = Len(txs)

IncludedPast == \A i \in Included : txs[i].nonce < account

\* An order is in flight from before its swap is sent, and only then while its
\* event is worked on.
OrderFits ==
  /\ pc \in {"allowance", "recover", "base", "sign", "record", "wait"} => order[ev] # "inflight"
  /\ pc \in {"send", "probe"} =>
       IF IsSwap THEN order[ev] = "inflight" /\ hash[ev] = Len(txs) ELSE order[ev] # "inflight"

\* Unless the code forgets what it sent, each transaction on its way has somebody
\* who answers for it, so that losing it is not losing its nonce.
LiveAnswered ==
  faults \cap Forgetful = {} => \A i \in Live : InHand(i) \/ \E e \in Event : Answers(e, i)

NonceAnswered(n) ==
  \/ n \in LiveNonces
  \/ pc = "sign" /\ n = nonce
  \/ \E i \in DOMAIN txs : txs[i].nonce = n /\ (InHand(i) \/ \E e \in Event : Answers(e, i))

\* Where NoncesAccounted speaks, but for the place in the code.
Accountable == "silent" \notin faults /\ ("drop" \in faults => faults \cap Forgetful = {})

\* What may be forgotten without an answer about its receipt is on its way, or
\* its nonce is past, where nothing is lost.
ProbeFits == pc = "probe" /\ "drop" \notin faults => Last \in Live \/ txs[Last].nonce < account

NoncesAnswered ==
  Accountable /\ pc \notin {"startup", "reconcile"} =>
    \A n \in account .. nextNonce - 1 : NonceAnswered(n)

\* The inductive invariant about who answers for what.
AnswerInv == IncludedPast /\ OrderFits /\ ProbeFits /\ LiveAnswered /\ NoncesAnswered

LEMMA InitAnswerInv == Init => AnswerInv
<1> SUFFICES ASSUME Init PROVE AnswerInv
  OBVIOUS
<1>1. Live = {} /\ Included = {} /\ pc = "startup"
  BY DEF Init, Live, Included
<1> QED
  BY <1>1, Zenon DEF AnswerInv, IncludedPast, OrderFits, ProbeFits, LiveAnswered, NoncesAnswered

\* What a row answers for was signed.
LEMMA AnsweredSigned ==
  ASSUME TypeInv, NEW e \in Event, NEW i, Answers(e, i)
  PROVE  i \in DOMAIN txs
BY TxTypes DEF TypeInv, TypeOK, Answers

\* What is in hand after signing was signed.
LEMMA InHandSigned ==
  ASSUME TypeInv, pc \in {"send", "probe", "record"}
  PROVE  Len(txs) \in DOMAIN txs
<1>1. txs # <<>>
  BY Zenon DEF TypeInv, PlaceFits
<1> QED
  BY <1>1, TxTypes, EmptySeq DEF TypeInv, TypeOK

\* The adapter's part of a state: steps that leave it alone answer for the same.
LEMMA SameAnswers ==
  ASSUME UNCHANGED <<durable, work>>, Len(txs') = Len(txs)
  PROVE  /\ \A i : InHand(i)' <=> InHand(i)
         /\ \A e, i : Answers(e, i)' <=> Answers(e, i)
         /\ OrderFits => OrderFits'
BY DEF InHand, Answers, PendingAttempt, OrderFits, IsSwap

LEMMA ChainAnswerInv ==
  ASSUME TypeInv, AnswerInv, ChainStep
  PROVE  AnswerInv'
<1>1. ASSUME NEW i \in DOMAIN txs, Include(i) PROVE AnswerInv'
  <2>1. /\ TxsStay /\ UNCHANGED <<durable, work, faults>>
        /\ i \in Live /\ txs[i].nonce = account /\ account' = account + 1
        /\ Included' = Included \cup {i}
        /\ Live' = {j \in Live : txs[j].nonce # account}
    BY <1>1, IncludeTakes
  <2>2. /\ \A j : InHand(j)' <=> InHand(j)
        /\ \A e, j : Answers(e, j)' <=> Answers(e, j)
        /\ OrderFits'
    BY <2>1, SameAnswers DEF TxsStay, AnswerInv
  <2>3. IncludedPast'
    BY <2>1, TxTypes DEF AnswerInv, IncludedPast, TxsStay
  <2>4. LiveAnswered'
    BY <2>1, <2>2 DEF AnswerInv, LiveAnswered
  <2>p. ProbeFits'
    BY <2>1, TxTypes DEF AnswerInv, ProbeFits, TxsStay, Last
  <2>5. NoncesAnswered'
    <3> SUFFICES ASSUME Accountable', pc' \notin {"startup", "reconcile"},
                        NEW n \in account' .. nextNonce' - 1
                 PROVE  NonceAnswered(n)'
      BY DEF NoncesAnswered
    <3>1. n \in account .. nextNonce - 1 /\ n # account
      BY <2>1, TxTypes
    <3>2. NonceAnswered(n)
      BY <2>1, <3>1 DEF AnswerInv, NoncesAnswered, Accountable
    <3>3. n \in LiveNonces => n \in LiveNonces'
      BY <2>1, <3>1, TxTypes DEF LiveNonces, TxsStay
    <3> QED
      BY <2>1, <2>2, <3>2, <3>3 DEF NonceAnswered, TxsStay
  <2> QED
    BY <2>2, <2>3, <2>4, <2>p, <2>5 DEF AnswerInv
<1>2. ASSUME NEW i \in DOMAIN txs, Lose(i) PROVE AnswerInv'
  <2>1. /\ TxsStay /\ UNCHANGED <<durable, work, faults, account>>
        /\ "drop" \in faults
        /\ i \in Live /\ Included' = Included /\ Live' = Live \ {i}
    BY <1>2, LoseTakes
  <2>2. /\ \A j : InHand(j)' <=> InHand(j)
        /\ \A e, j : Answers(e, j)' <=> Answers(e, j)
        /\ OrderFits'
    BY <2>1, SameAnswers DEF TxsStay, AnswerInv
  <2>3. IncludedPast'
    BY <2>1, TxTypes DEF AnswerInv, IncludedPast, TxsStay
  <2>4. LiveAnswered'
    BY <2>1, <2>2 DEF AnswerInv, LiveAnswered
  <2>5. NoncesAnswered'
    <3> SUFFICES ASSUME Accountable', pc' \notin {"startup", "reconcile"},
                        NEW n \in account' .. nextNonce' - 1
                 PROVE  NonceAnswered(n)'
      BY DEF NoncesAnswered
    <3>1. faults \cap Forgetful = {} /\ NonceAnswered(n)
      BY <2>1 DEF AnswerInv, NoncesAnswered, Accountable
    <3>2. ASSUME n \in LiveNonces, n \notin LiveNonces' PROVE NonceAnswered(n)'
      <4>1. n = txs[i].nonce
        BY <2>1, <3>2, TxTypes DEF LiveNonces, TxsStay
      <4>2. InHand(i) \/ \E e \in Event : Answers(e, i)
        BY <2>1, <3>1 DEF AnswerInv, LiveAnswered
      <4> QED
        BY <2>1, <2>2, <4>1, <4>2 DEF NonceAnswered, TxsStay
    <3> QED
      BY <2>1, <2>2, <3>1, <3>2 DEF NonceAnswered, TxsStay
  <2>p. ProbeFits'
    BY <2>1 DEF ProbeFits
  <2> QED
    BY <2>2, <2>3, <2>4, <2>p, <2>5 DEF AnswerInv
<1>3. ASSUME NEW e \in Event, Lapse(e) PROVE AnswerInv'
  <2>1. UNCHANGED <<txs, account, durable, work, faults>>
    BY <1>3 DEF Lapse
  <2>2. /\ \A j : InHand(j)' <=> InHand(j)
        /\ \A f, j : Answers(f, j)' <=> Answers(f, j)
        /\ OrderFits'
    BY <2>1, SameAnswers DEF AnswerInv
  <2>3. Live' = Live /\ Included' = Included /\ LiveNonces' = LiveNonces
    BY <2>1 DEF Live, Included, LiveNonces
  <2> QED
    BY <2>1, <2>2, <2>3
       DEF AnswerInv, IncludedPast, ProbeFits, LiveAnswered, NoncesAnswered, NonceAnswered,
           Accountable, Last
<1> QED
  BY <1>1, <1>2, <1>3 DEF ChainStep

\* What is neither on its way nor of a nonce that is past.
Stranded == {i \in DOMAIN txs \ (Live \cup Included) : account <= txs[i].nonce}

\* A transaction whose owner gives it up is not on its way, and its nonce is
\* past, unless it is reconciled.
LEMMA QuietAnswerInv ==
  ASSUME TypeInv, AnswerInv, UNCHANGED <<chain, faults>>, OrderFits', pc' # "probe",
         \* who answered before still does, unless the transaction is included;
         \* or nothing is asked of the nonces here
         \A i \in Live :
           (InHand(i) \/ \E e \in Event : Answers(e, i)) =>
             \/ faults \cap Forgetful # {}
             \/ InHand(i)' \/ \E e \in Event : Answers(e, i)',
         \/ pc' \in {"startup", "reconcile"} \/ ~Accountable
         \/ ReconcileNonce
         \/ /\ UNCHANGED nextNonce /\ pc \notin {"startup", "reconcile", "sign"}
            /\ \A i \in Stranded : (InHand(i) \/ \E e \in Event : Answers(e, i)) =>
                               InHand(i)' \/ \E e \in Event : Answers(e, i)'
  PROVE  AnswerInv'
<1>1. Live' = Live /\ Included' = Included /\ LiveNonces' = LiveNonces
  BY DEF Live, Included, LiveNonces
<1>2. IncludedPast' /\ LiveAnswered' /\ ProbeFits'
  BY <1>1, Zenon DEF AnswerInv, IncludedPast, LiveAnswered, ProbeFits
<1>3. NoncesAnswered'
  <2> SUFFICES ASSUME Accountable', pc' \notin {"startup", "reconcile"},
                      NEW n \in account' .. nextNonce' - 1
               PROVE  NonceAnswered(n)'
    BY DEF NoncesAnswered
  <2>1. Accountable
    BY DEF Accountable
  <2>2. CASE ReconcileNonce
    <3>1. account .. nextNonce' - 1 \subseteq LiveNonces
      BY <2>2, TxTypes DEF ReconcileNonce, PendingCount
    <3> QED
      BY <1>1, <3>1 DEF NonceAnswered
  <2>3. CASE /\ UNCHANGED nextNonce /\ pc \notin {"startup", "reconcile", "sign"}
             /\ \A i \in Stranded : (InHand(i) \/ \E e \in Event : Answers(e, i)) =>
                               InHand(i)' \/ \E e \in Event : Answers(e, i)'
    <3>1. n \in account .. nextNonce - 1
      BY <2>3
    <3>2. NonceAnswered(n)
      BY <2>1, <2>3, <3>1 DEF AnswerInv, NoncesAnswered
    <3>3. CASE n \in LiveNonces
      BY <1>1, <3>3 DEF NonceAnswered
    <3>4. CASE \E i \in DOMAIN txs :
                 txs[i].nonce = n /\ (InHand(i) \/ \E e \in Event : Answers(e, i))
      <4>1. PICK i \in DOMAIN txs :
              txs[i].nonce = n /\ (InHand(i) \/ \E e \in Event : Answers(e, i))
        BY <3>4
      <4>2. i \notin Included
        BY <3>1, <4>1, TxTypes DEF AnswerInv, IncludedPast
      <4>3. CASE i \in Live
        BY <1>1, <4>1, <4>3 DEF NonceAnswered, LiveNonces
      <4>4. CASE i \notin Live
        <5>1. i \in Stranded
          BY <3>1, <4>1, <4>2, <4>4, TxTypes DEF Stranded
        <5>2. InHand(i)' \/ \E e \in Event : Answers(e, i)'
          BY <2>3, <4>1, <5>1
        <5> QED
          BY <4>1, <5>2 DEF NonceAnswered
      <4> QED
        BY <4>3, <4>4
    <3> QED
      BY <2>3, <3>2, <3>3, <3>4 DEF NonceAnswered
  <2> QED
    BY <2>1, <2>2, <2>3
<1> QED
  BY <1>2, <1>3 DEF AnswerInv

\* The quiet steps of the adapter.
LEMMA ReadAnswerInv ==
  ASSUME TypeInv, AnswerInv,
         \/ Startup \/ Reconcile \/ Allowed \/ NotAllowed \/ NothingToRecover
         \/ ApprovalPending \/ RpcFailure \/ ReconcileFails \/ SigningFails \/ Stop
         \/ \E e \in Event : Start(e)
  PROVE  AnswerInv'
<1>1. /\ UNCHANGED <<chain, faults, attempt, hash>>
      /\ pc \notin {"send", "probe", "record"} \/ "stop" \in faults
  BY DEF Startup, Reconcile, Allowed, NotAllowed, NothingToRecover, ApprovalPending, RpcFailure,
         ReconcileFails, SigningFails, Stop, Start
<1>2. \A e \in Event, i \in DOMAIN txs : Answers(e, i) => Answers(e, i)'
  <2>1. CASE RpcFailure
    <3>1. \A e \in Event : order[e] = "inflight" => order'[e] = "inflight"
      BY <2>1 DEF RpcFailure, TypeInv, TypeOK
    <3> QED
      BY <1>1, <3>1 DEF Answers, PendingAttempt
  <2>2. CASE UNCHANGED order
    BY <1>1, <2>2 DEF Answers, PendingAttempt
  <2> QED
    BY <2>1, <2>2 DEF Startup, Reconcile, Allowed, NotAllowed, NothingToRecover, ApprovalPending,
                      ReconcileFails, SigningFails, Stop, Start
<1>3. OrderFits' /\ pc' # "probe"
  <2>1. CASE \E e \in Event : Start(e)
    BY <1>1, <2>1 DEF OrderFits, Start, StepOf
  <2>2. CASE Allowed \/ NotAllowed \/ NothingToRecover
    BY <1>1, <2>2 DEF OrderFits, AnswerInv, Allowed, NotAllowed, NothingToRecover, Advance, Goto,
                      StepOf
  <2>3. CASE pc' \in {"idle", "startup"}
    BY <2>3 DEF OrderFits
  <2> QED
    BY <2>1, <2>2, <2>3 DEF Startup, Reconcile, ApprovalPending, RpcFailure, ReconcileFails,
                            SigningFails, Stop, GoIdle
<1>4. \/ pc' \in {"startup", "reconcile"} \/ ~Accountable
      \/ ReconcileNonce
      \/ /\ UNCHANGED nextNonce
         /\ pc \notin {"startup", "reconcile", "sign", "send", "probe", "record"}
  BY DEF Startup, Reconcile, Allowed, NotAllowed, NothingToRecover, ApprovalPending, RpcFailure,
         ReconcileFails, SigningFails, Stop, Start, Accountable
<1>5. pc \notin {"send", "probe", "record"} => \A i : ~InHand(i)
  BY DEF InHand
<1>6. "stop" \in faults => faults \cap Forgetful # {}
  BY DEF Forgetful
<1>7. Live \subseteq DOMAIN txs /\ Stranded \subseteq DOMAIN txs
  BY TxTypes DEF Stranded
<1> QED
  BY <1>1, <1>2, <1>3, <1>4, <1>5, <1>6, <1>7, QuietAnswerInv

\* The look for a receipt that raises what nobody expects: an approval that no
\* row has is forgotten.
LEMMA GarbledAnswerInv ==
  ASSUME TypeInv, AnswerInv, ReceiptGarbled
  PROVE  AnswerInv'
<1>1. /\ UNCHANGED <<chain, durable, faults>> /\ pc' = "idle"
      /\ pc \in {"probe", "wait"} /\ faults \cap Forgetful # {}
  BY DEF ReceiptGarbled, GoIdle, Forgetful
<1>2. \A e, i : Answers(e, i)' <=> Answers(e, i)
  BY <1>1 DEF Answers, PendingAttempt
<1>3. OrderFits'
  BY <1>1 DEF OrderFits
<1>4. ASSUME Accountable, NEW i \in Stranded PROVE ~InHand(i)
  <2>1. "drop" \notin faults
    BY <1>1, <1>4 DEF Accountable
  <2>2. pc = "probe" => Last \in Live \/ txs[Last].nonce < account
    BY <2>1 DEF AnswerInv, ProbeFits
  <2> QED
    BY <1>1, <1>4, <2>2, TxTypes DEF Stranded, InHand, Last
<1> QED
  BY <1>1, <1>2, <1>3, <1>4, QuietAnswerInv

\* What becomes of a swap in flight.
LEMMA OrderAnswerInv ==
  ASSUME TypeInv, AnswerInv, NEW e \in Event, SwapReceipt(e) \/ BuyNotFound(e)
  PROVE  AnswerInv'
<1>1. /\ UNCHANGED <<chain, faults, nextNonce, attempt, hash>>
      /\ pc = "idle" /\ pc' \in {"idle", "reconcile"} /\ order[e] = "inflight"
      /\ txs[hash[e]].status \in {"ok", "reverted", "signed", "lost"}
      /\ pc' = "reconcile" \/ hash[e] \in Included
  BY DEF SwapReceipt, BuyNotFound, Goto, Included
<1>2. \A f \in Event \ {e} : order'[f] = order[f]
  <2>1. PICK s : order' = [order EXCEPT ![e] = s]
    BY DEF SwapReceipt, BuyNotFound
  <2> QED
    BY <2>1 DEF TypeInv, TypeOK
<1>3. hash[e] \notin Live
  BY <1>1 DEF Live
<1>4. \A f \in Event, i \in DOMAIN txs :
        Answers(f, i) /\ i # hash[e] => Answers(f, i)'
  BY <1>1, <1>2 DEF Answers, PendingAttempt
<1>5. \A i : ~InHand(i)
  BY <1>1 DEF InHand
<1>6. OrderFits'
  BY <1>1 DEF OrderFits
<1>7. \A i \in Live : (InHand(i) \/ \E f \in Event : Answers(f, i)) =>
                        InHand(i)' \/ \E f \in Event : Answers(f, i)'
  BY <1>3, <1>4, <1>5, TxTypes
<1>8. \/ pc' \in {"startup", "reconcile"}
      \/ /\ UNCHANGED nextNonce /\ pc \notin {"startup", "reconcile", "sign"}
         /\ \A i \in Stranded : (InHand(i) \/ \E f \in Event : Answers(f, i)) =>
                            InHand(i)' \/ \E f \in Event : Answers(f, i)'
  BY <1>1, <1>4, <1>5 DEF Stranded
<1> QED
  BY <1>1, <1>6, <1>7, <1>8, QuietAnswerInv

\* The attempt's row is resolved, written, or left to be looked up.
LEMMA AttemptAnswerInv ==
  ASSUME TypeInv, AttemptInv, AnswerInv,
         \/ RecoverConfirmed \/ RecoverReverted
         \/ RecordAttempt \/ WaitConfirmed \/ WaitReverted \/ WaitTimeout
  PROVE  AnswerInv'
<1>1. /\ UNCHANGED <<chain, faults, nextNonce, hash, ev>>
      /\ pc \in {"recover", "record", "wait"}
      /\ pc' \in {"idle", "allowance", "base", "wait"}
      /\ UNCHANGED order \/ (pc' = "idle" /\ Fail)
  BY DEF RecoverConfirmed, RecoverReverted, RecordAttempt, WaitConfirmed, WaitReverted,
         WaitTimeout, Advance, Goto, GoIdle, StepOf
<1>o. \A e \in Event : order[e] = "inflight" => order'[e] = "inflight"
  <2>1. order[ev] # "inflight"
    BY <1>1 DEF AnswerInv, OrderFits
  <2> QED
    BY <1>1, <2>1 DEF Fail, TypeInv, TypeOK
<1>2. /\ ev \in Event /\ attempt \in [Event -> [status : AttemptStatus, tx : Nat]]
      /\ Last = Len(txs)
  BY DEF TypeInv, TypeOK, Last
<1>3. OrderFits'
  BY <1>1 DEF OrderFits, AnswerInv
<1>4. \A e \in Event \ {ev} : attempt'[e] = attempt[e]
  BY <1>2 DEF RecoverConfirmed, RecoverReverted, RecordAttempt, WaitConfirmed, WaitReverted,
              WaitTimeout, Attempt, ResolveAttempt
<1>5. ASSUME NEW i \in DOMAIN txs \ Included, InHand(i) \/ \E e \in Event : Answers(e, i)
      PROVE  \E e \in Event : Answers(e, i)'
  <2>1. ASSUME NEW e \in Event, Answers(e, i), e # ev \/ (order[e] = "inflight" /\ hash[e] = i)
        PROVE  Answers(e, i)'
    BY <1>1, <1>o, <1>4, <2>1 DEF Answers, PendingAttempt
  <2>2. ASSUME PendingAttempt(ev), attempt[ev].tx = i
        PROVE  \E e \in Event : Answers(e, i)'
    <3>1. CASE RecoverConfirmed \/ RecoverReverted
      BY <2>2, <3>1 DEF RecoverConfirmed, RecoverReverted, Included
    <3>2. CASE RecordAttempt
      <4>1. pc = "record" /\ ~IsSwap
        BY <3>2, <1>2, NeedsType DEF RecordAttempt, TypeInv, TypeOK, PlaceFits, IsSwap
      <4> QED
        BY <2>2, <4>1 DEF AttemptInv, AttemptFits
    <3>3. CASE WaitConfirmed \/ WaitReverted
      BY <1>2, <2>2, <3>3 DEF WaitConfirmed, WaitReverted, AttemptInv, AttemptFits, Included
    <3>4. CASE WaitTimeout
      <4>1. attempt[ev].tx = Last
        BY <1>2, <3>4 DEF WaitTimeout, AttemptInv, AttemptFits
      <4>2. attempt'[ev] = [status |-> "UNKNOWN", tx |-> Last]
        BY <1>2, <3>4 DEF WaitTimeout, Attempt
      <4> QED
        BY <1>1, <1>2, <2>2, <4>1, <4>2 DEF Answers, PendingAttempt
    <3> QED
      BY <3>1, <3>2, <3>3, <3>4
  <2>3. CASE InHand(i)
    <3>1. RecordAttempt /\ i = Last
      BY <1>2, <2>3 DEF InHand, RecoverConfirmed, RecoverReverted, WaitConfirmed, WaitReverted,
                        WaitTimeout
    <3>2. attempt'[ev] = [status |-> IF ambiguous THEN "UNKNOWN" ELSE "SUBMITTED", tx |-> Last]
      BY <1>2, <3>1 DEF RecordAttempt, Attempt
    <3> QED
      BY <1>1, <1>2, <3>1, <3>2 DEF Answers, PendingAttempt
  <2>4. CASE \E e \in Event : Answers(e, i)
    <3>1. PICK e \in Event : Answers(e, i)
      BY <2>4
    <3>2. CASE e # ev \/ (order[e] = "inflight" /\ hash[e] = i)
      BY <2>1, <3>1, <3>2
    <3>3. CASE e = ev /\ PendingAttempt(ev) /\ attempt[ev].tx = i
      BY <2>2, <3>3
    <3>4. \/ e # ev \/ (order[e] = "inflight" /\ hash[e] = i)
          \/ e = ev /\ PendingAttempt(ev) /\ attempt[ev].tx = i
      BY <3>1 DEF Answers
    <3> QED
      BY <3>2, <3>3, <3>4
  <2> QED
    BY <1>5, <2>3, <2>4
<1>6. \A i \in Live : i \in DOMAIN txs \ Included
  BY DEF Live, Included
<1>7. \A i \in Live : (InHand(i) \/ \E e \in Event : Answers(e, i)) =>
                        InHand(i)' \/ \E e \in Event : Answers(e, i)'
  BY <1>5, <1>6
<1>8. /\ UNCHANGED nextNonce /\ pc \notin {"startup", "reconcile", "sign"}
      /\ \A i \in Stranded : (InHand(i) \/ \E e \in Event : Answers(e, i)) =>
                         InHand(i)' \/ \E e \in Event : Answers(e, i)'
  BY <1>1, <1>5 DEF Stranded
<1> QED
  BY <1>1, <1>3, <1>7, <1>8, QuietAnswerInv

\* A swap that is no longer in hand is its order's.
LEMMA SentAnswers ==
  ASSUME TypeInv, AnswerInv, pc \in {"send", "probe"}, UNCHANGED <<order, hash>>,
         \/ IsSwap /\ GoIdle
         \/ pc' \in {"probe", "record"} /\ UNCHANGED <<ev, step>> /\ (pc' = "record" => ~IsSwap),
         Len(txs') = Len(txs), UNCHANGED attempt
  PROVE  /\ OrderFits'
         /\ \A i : (InHand(i) \/ \E e \in Event : Answers(e, i)) =>
                     InHand(i)' \/ \E e \in Event : Answers(e, i)'
<1>1. ev \in Event
  BY DEF TypeInv, TypeOK
<1>2. \A e, i : Answers(e, i)' <=> Answers(e, i)
  BY DEF Answers, PendingAttempt
<1>3. CASE IsSwap /\ GoIdle
  <2>1. Answers(ev, Len(txs))
    BY <1>3 DEF AnswerInv, OrderFits, Answers
  <2>2. OrderFits'
    BY <1>3 DEF GoIdle, OrderFits
  <2> QED
    BY <1>1, <1>2, <2>1, <2>2 DEF InHand
<1>4. CASE pc' \in {"probe", "record"} /\ UNCHANGED <<ev, step>> /\ (pc' = "record" => ~IsSwap)
  <2>1. \A i : InHand(i)' <=> InHand(i)
    BY <1>4 DEF InHand
  <2>2. OrderFits'
    BY <1>4 DEF AnswerInv, OrderFits, IsSwap
  <2> QED
    BY <1>2, <2>1, <2>2
<1> QED
  BY <1>3, <1>4

LEMMA ProbeAnswerInv ==
  ASSUME TypeInv, AnswerInv, Probe
  PROVE  AnswerInv'
<1>1. /\ pc = "probe" /\ UNCHANGED <<chain, durable, faults>>
      /\ \/ IsSwap /\ GoIdle
         \/ pc' \in {"probe", "record"} /\ UNCHANGED <<ev, step>> /\ (pc' = "record" => ~IsSwap)
  BY DEF Probe, AfterSend
<1>2. Len(txs') = Len(txs) /\ UNCHANGED <<order, hash, attempt, nextNonce>>
  BY <1>1
<1>3. /\ OrderFits'
      /\ \A i : (InHand(i) \/ \E e \in Event : Answers(e, i)) =>
                  InHand(i)' \/ \E e \in Event : Answers(e, i)'
  BY <1>1, <1>2, SentAnswers
<1>4. pc' # "probe"
  BY DEF Probe, AfterSend, GoIdle
<1>5. Live \subseteq DOMAIN txs /\ Stranded \subseteq DOMAIN txs
  BY TxTypes DEF Stranded
<1> QED
  BY <1>1, <1>2, <1>3, <1>4, <1>5, QuietAnswerInv

LEMMA SendAnswerInv ==
  ASSUME TypeInv, AnswerInv, Broadcast \/ BroadcastError
  PROVE  AnswerInv'
<1>1. /\ TxsStay /\ Last \in DOMAIN txs /\ UNCHANGED <<account, allowed, durable, faults>>
      /\ Included' \subseteq Included
      /\ Live' \subseteq Live \cup {Last} /\ Live \subseteq Live' \cup {Last}
      /\ "drop" \notin faults => Last \in Live' \/ txs[Last].nonce < account
  BY SendTouchesLast DEF Send, Broadcast, BroadcastError
<1>2. /\ pc = "send" /\ UNCHANGED <<order, hash, attempt, nextNonce>> /\ Len(txs') = Len(txs)
      /\ \/ IsSwap /\ GoIdle
         \/ pc' \in {"probe", "record"} /\ UNCHANGED <<ev, step>> /\ (pc' = "record" => ~IsSwap)
  BY <1>1 DEF Broadcast, BroadcastError, AfterSend, Goto, TxsStay
<1>3. /\ OrderFits'
      /\ \A i : (InHand(i) \/ \E e \in Event : Answers(e, i)) =>
                  InHand(i)' \/ \E e \in Event : Answers(e, i)'
  BY <1>2, SentAnswers
<1>4. InHand(Last)
  BY <1>2 DEF InHand, Last
<1>5. IncludedPast'
  BY <1>1, TxTypes DEF AnswerInv, IncludedPast, TxsStay
<1>6. LiveAnswered'
  BY <1>1, <1>3, <1>4 DEF AnswerInv, LiveAnswered
<1>7. NoncesAnswered'
  <2> SUFFICES ASSUME Accountable', NEW n \in account' .. nextNonce' - 1
               PROVE  NonceAnswered(n)'
    BY DEF NoncesAnswered
  <2>1. NonceAnswered(n)
    BY <1>1, <1>2 DEF AnswerInv, NoncesAnswered, Accountable
  <2>2. CASE \E i \in DOMAIN txs :
               txs[i].nonce = n /\ (InHand(i) \/ \E e \in Event : Answers(e, i))
    BY <1>1, <1>3, <2>2 DEF NonceAnswered, TxsStay
  <2>3. CASE n \in LiveNonces
    <3>1. PICK i \in Live : txs[i].nonce = n
      BY <2>3 DEF LiveNonces
    <3>2. CASE i = Last
      BY <1>1, <1>3, <1>4, <3>1, <3>2 DEF NonceAnswered, TxsStay
    <3>3. CASE i # Last
      BY <1>1, <3>1, <3>3, TxTypes DEF NonceAnswered, LiveNonces, TxsStay
    <3> QED
      BY <3>2, <3>3
  <2> QED
    BY <1>2, <2>1, <2>2, <2>3 DEF NonceAnswered
<1>8. ProbeFits'
  BY <1>1, TxTypes DEF ProbeFits, TxsStay, Last
<1> QED
  BY <1>3, <1>5, <1>6, <1>7, <1>8 DEF AnswerInv

\* What is sent and then forgotten is on its way, or was refused for a nonce
\* that is past, where nothing is lost.
LEMMA ForgetAnswerInv ==
  ASSUME TypeInv, AnswerInv, BroadcastMismatch \/ BroadcastGarbled
  PROVE  AnswerInv'
<1>1. /\ TxsStay /\ Last \in DOMAIN txs
      /\ UNCHANGED <<account, nextNonce, attempt, hash, faults>>
      /\ Included' \subseteq Included
      /\ Live \subseteq Live' \cup {Last}
      /\ "drop" \notin faults => Last \in Live' \/ txs[Last].nonce < account
  BY SendTouchesLast DEF Send
<1>2. /\ pc = "send" /\ pc' = "idle" /\ faults \cap Forgetful # {}
      /\ UNCHANGED order \/ Fail
  BY DEF BroadcastMismatch, BroadcastGarbled, GoIdle, Forgetful
<1>3. OrderFits' /\ ProbeFits' /\ LiveAnswered'
  BY <1>1, <1>2 DEF OrderFits, ProbeFits, LiveAnswered
<1>4. IncludedPast'
  BY <1>1, TxTypes DEF AnswerInv, IncludedPast, TxsStay
<1>5. ASSUME NEW e \in Event, NEW i \in DOMAIN txs, i # Last, Answers(e, i)
      PROVE  Answers(e, i)'
  <2>1. order[ev] = "inflight" => hash[ev] = Last
    BY <1>2 DEF AnswerInv, OrderFits, Last
  <2>2. \A f \in Event \ {ev} : order'[f] = order[f]
    BY <1>2 DEF Fail, TypeInv, TypeOK
  <2> QED
    BY <1>1, <1>5, <2>1, <2>2 DEF Answers, PendingAttempt
<1>6. NoncesAnswered'
  <2> SUFFICES ASSUME Accountable', NEW n \in account' .. nextNonce' - 1
               PROVE  NonceAnswered(n)'
    BY DEF NoncesAnswered
  <2>1. NonceAnswered(n)
    BY <1>1, <1>2 DEF AnswerInv, NoncesAnswered, Accountable
  <2>2. txs[Last].nonce = n => n \in LiveNonces'
    <3>1. "drop" \notin faults
      BY <1>1, <1>2 DEF Accountable
    <3> QED
      BY <1>1, <3>1, TxTypes DEF LiveNonces, TxsStay
  <2>3. CASE n \in LiveNonces
    <3>1. PICK i \in Live : txs[i].nonce = n
      BY <2>3 DEF LiveNonces
    <3>2. CASE i # Last
      BY <1>1, <3>1, <3>2, TxTypes DEF LiveNonces, NonceAnswered, TxsStay
    <3> QED
      BY <2>2, <3>1, <3>2 DEF NonceAnswered
  <2>4. CASE \E i \in DOMAIN txs :
               txs[i].nonce = n /\ (InHand(i) \/ \E e \in Event : Answers(e, i))
    <3>1. PICK i \in DOMAIN txs :
            txs[i].nonce = n /\ (InHand(i) \/ \E e \in Event : Answers(e, i))
      BY <2>4
    <3>2. CASE i # Last
      <4>1. \E e \in Event : Answers(e, i)'
        BY <1>5, <3>1, <3>2 DEF InHand, Last
      <4> QED
        BY <1>1, <3>1, <4>1 DEF NonceAnswered, TxsStay
    <3> QED
      BY <2>2, <3>1, <3>2 DEF NonceAnswered
  <2> QED
    BY <1>2, <2>1, <2>3, <2>4 DEF NonceAnswered
<1> QED
  BY <1>3, <1>4, <1>6 DEF AnswerInv

\* The nonce that is handed out skips none, but for what is on its way.
LEMMA ReserveAnswerInv ==
  ASSUME TypeInv, AnswerInv, Reserve
  PROVE  AnswerInv'
<1>1. /\ pc = "base" /\ pc' = "sign"
      /\ UNCHANGED <<ev, step, chain, attempt, order, hash, faults>>
      /\ ReserveNonce
  BY DEF Reserve
<1>2. PICK n \in account .. account + Len(txs) :
        /\ PendingCount(n)
        /\ nonce' = IF n < nextNonce THEN nextNonce ELSE n
        /\ nextNonce' = nonce' + 1
  BY <1>1 DEF ReserveNonce
<1>3. /\ \A i : ~InHand(i) /\ ~InHand(i)'
      /\ \A e, i : Answers(e, i)' <=> Answers(e, i)
      /\ Live' = Live /\ Included' = Included /\ LiveNonces' = LiveNonces
  BY <1>1 DEF InHand, Answers, PendingAttempt, Live, Included, LiveNonces
<1>4. IncludedPast' /\ LiveAnswered' /\ OrderFits' /\ ProbeFits'
  BY <1>1, <1>3 DEF AnswerInv, IncludedPast, LiveAnswered, OrderFits, ProbeFits
<1>5. NoncesAnswered'
  <2> SUFFICES ASSUME Accountable', NEW m \in account' .. nextNonce' - 1
               PROVE  NonceAnswered(m)'
    BY DEF NoncesAnswered
  <2>1. account .. n - 1 \subseteq LiveNonces
    BY <1>2, TxTypes DEF PendingCount
  <2>2. m \in account .. nextNonce - 1 \/ m \in account .. n - 1 \/ m = nonce'
    BY <1>1, <1>2, TxTypes
  <2>3. ASSUME m \in account .. nextNonce - 1 PROVE NonceAnswered(m)'
    <3>1. NonceAnswered(m)
      BY <1>1, <2>3 DEF AnswerInv, NoncesAnswered, Accountable
    <3> QED
      BY <1>1, <1>3, <3>1 DEF NonceAnswered
  <2> QED
    BY <1>1, <1>3, <2>1, <2>2, <2>3 DEF NonceAnswered
<1> QED
  BY <1>4, <1>5 DEF AnswerInv

\* The nonce in hand becomes that of the transaction in hand.
LEMMA SignAnswerInv ==
  ASSUME TypeInv, AnswerInv, Sign
  PROVE  AnswerInv'
<1>1. /\ pc = "sign" /\ pc' = "send"
      /\ UNCHANGED <<ev, step, account, nextNonce, attempt, faults>>
      /\ IF IsSwap
         THEN /\ order' = [order EXCEPT ![ev] = "inflight"]
              /\ hash' = [hash EXCEPT ![ev] = Len(txs')]
         ELSE UNCHANGED <<order, hash>>
  BY DEF Sign
<1>2. /\ Live' = Live /\ Included' = Included /\ LiveNonces' = LiveNonces
      /\ \A i \in DOMAIN txs : txs'[i] = txs[i]
      /\ DOMAIN txs' = DOMAIN txs \cup {Len(txs')}
      /\ txs'[Len(txs')].nonce = nonce
  BY SignKeepsLive DEF Last
<1>3. order[ev] # "inflight" /\ ev \in Event
  BY <1>1 DEF AnswerInv, OrderFits, TypeInv, TypeOK
<1>4. \A e \in Event \ {ev} : order'[e] = order[e] /\ hash'[e] = hash[e]
  BY <1>1, <1>3 DEF TypeInv, TypeOK
<1>5. \A e \in Event, i \in DOMAIN txs : Answers(e, i) => Answers(e, i)'
  BY <1>1, <1>3, <1>4 DEF Answers, PendingAttempt
<1>6. \A i : ~InHand(i) /\ (InHand(i)' <=> i = Len(txs'))
  BY <1>1 DEF InHand
<1>7. IncludedPast' /\ ProbeFits'
  BY <1>1, <1>2, TxTypes DEF AnswerInv, IncludedPast, ProbeFits
<1>8. OrderFits'
  BY <1>1, <1>3 DEF OrderFits, IsSwap, TypeInv, TypeOK
<1>9. LiveAnswered'
  BY <1>1, <1>2, <1>5, <1>6, TxTypes DEF AnswerInv, LiveAnswered
<1>10. NoncesAnswered'
  <2> SUFFICES ASSUME Accountable', NEW n \in account' .. nextNonce' - 1
               PROVE  NonceAnswered(n)'
    BY DEF NoncesAnswered
  <2>1. NonceAnswered(n)
    BY <1>1 DEF AnswerInv, NoncesAnswered, Accountable
  <2> QED
    BY <1>2, <1>5, <1>6, <2>1 DEF NonceAnswered
<1> QED
  BY <1>7, <1>8, <1>9, <1>10 DEF AnswerInv

LEMMA NextAnswerInv ==
  ASSUME TypeInv, AttemptInv, AnswerInv, [Next]_vars
  PROVE  AnswerInv'
<1>1. CASE UNCHANGED vars
  <2>1. /\ \A j : InHand(j)' <=> InHand(j)
        /\ \A f, j : Answers(f, j)' <=> Answers(f, j)
        /\ OrderFits'
    BY <1>1, SameAnswers DEF AnswerInv
  <2>2. Live' = Live /\ Included' = Included /\ LiveNonces' = LiveNonces
    BY <1>1 DEF Live, Included, LiveNonces
  <2> QED
    BY <1>1, <2>1, <2>2
       DEF AnswerInv, IncludedPast, ProbeFits, LiveAnswered, NoncesAnswered, NonceAnswered,
           Accountable, Last
<1> QED
  BY <1>1, ChainAnswerInv, ReadAnswerInv, GarbledAnswerInv, OrderAnswerInv, AttemptAnswerInv,
     ProbeAnswerInv, SendAnswerInv, ForgetAnswerInv, ReserveAnswerInv, SignAnswerInv
     DEF Next, AdapterStep, Ensure, Submit

\* The inductive invariant: who answers for every nonce that was handed out, where
\* no loss meets a restart, a wrong hash or a reply that is not read
\* (NonceManager.reserve, _submit, recover_submitted, _recover_pending_approval).
THEOREM AnswerInvariant == Spec => [](TypeInv /\ AttemptInv /\ AnswerInv)
BY InitTypeInv, InitAttemptInv, InitAnswerInv, NextTypeInv, NextAttemptInv, NextAnswerInv, PTL
   DEF Spec

\* A nonce that was handed out and that no transaction will use any more is that
\* of an order or an approval in flight, which its recovery looks up by hash: where
\* the sequencer loses transactions, for as long as the code forgets none of those
\* it sent; where it forgets some, as long as none is lost (NonceManager.reserve,
\* _submit, _submit_approval).
THEOREM NoncesAreAccounted == Spec => []NoncesAccounted
<1>1. TypeInv /\ AnswerInv => NoncesAccounted
  <2> SUFFICES ASSUME TypeInv, AnswerInv, pc = "idle", Accountable,
                      NEW n \in (account .. nextNonce - 1) \ LiveNonces
               PROVE  \E e \in Event :
                        \/ order[e] = "inflight" /\ txs[hash[e]].nonce = n
                        \/ PendingAttempt(e) /\ txs[attempt[e].tx].nonce = n
    BY DEF NoncesAccounted, Accountable
  <2>1. NonceAnswered(n)
    BY DEF AnswerInv, NoncesAnswered
  <2> QED
    BY <2>1 DEF NonceAnswered, InHand, Answers
<1> QED
  BY <1>1, AnswerInvariant, PTL
=============================================================================
