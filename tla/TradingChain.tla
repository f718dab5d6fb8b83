---------------------------- MODULE TradingChain ----------------------------
(***************************************************************************)
(* What the worker finds outside: the chain behind the RPC endpoints, the  *)
(* tokens in the wallet and the clock against which a signal expires.      *)
(* None of it is under src/: the statuses are those that execution.py,     *)
(* uniswap.py and rpc.py tell apart when they send a transaction and look  *)
(* for its receipt.                                                        *)
(***************************************************************************)
EXTENDS TradingStore

CONSTANTS
  Token,     \* the tokens that the signals name
  TokenOf,   \* the token of each event
  Faults     \* what the environment may do wrong in this run, from the set:
             \*   "drop"     the sequencer never includes what it was sent
             \*   "late"     a transaction that the read endpoint did not
             \*              know is published afterwards
             \*   "mismatch" the send endpoint answers with another hash
             \*   "manual"   the owner sells tokens by hand
             \*   "stop"     the process stops, or the round ends with an
             \*              exception that no handler of worker.py names

ASSUME ChainAssumption ==
  /\ TokenOf \in [Event -> Token]
  /\ Faults \subseteq {"drop", "late", "mismatch", "manual", "stop"}
  /\ "mismatch" \in Faults => "manual" \in Faults

\* What one buy delivers and one sell takes; 1 is a partial balance.
Lot == 2

(***************************************************************************)
(* The latest transaction of an order.  "signed" has not left the process, *)
(* "sent" was handed to the send endpoint, "net" is known to the read      *)
(* endpoint, and the last four are final.  "empty" succeeded, but its      *)
(* receipt shows no output.                                                *)
(***************************************************************************)
TxStatus == {"none", "signed", "sent", "net", "ok", "empty", "reverted", "dropped"}
Final == {"ok", "empty", "reverted"}

VARIABLES
  tx,       \* the status of the latest transaction of each order
  wallet,   \* the wallet's balance of each token
  expired   \* the events whose expires_at has passed

chain == <<tx, wallet, expired>>

ChainTypeOK ==
  /\ tx \in [Side -> [Event -> TxStatus]]
  /\ wallet \in [Token -> Nat]
  /\ expired \in SUBSET Event

ChainInit ==
  /\ tx = [s \in Side |-> [e \in Event |-> "none"]]
  /\ wallet = [t \in Token |-> 0]
  /\ expired = {}

Receipt(side, e) == tx[side][e] \in Final

\* transaction_by_hash finds nothing.  Without the fault "late" a transaction
\* that was sent is known to the read endpoint by the time it is asked for.
NotFound(side, e) ==
  tx[side][e] \in {"signed", "dropped"} \cup (IF "late" \in Faults THEN {"sent"} ELSE {})

-----------------------------------------------------------------------------
\* Time passes.  A signal is not expired when the API accepts it, and its
\* expiry is read only until its buy is decided.
Expire(e) ==
  /\ e \notin expired
  /\ signal[e] \in {"RECEIVED", "BUY_PENDING", "BUY_SUBMITTED"}
  /\ expired' = expired \cup {e}
  /\ UNCHANGED <<tx, wallet>>

Publish(side, e) ==
  /\ tx[side][e] = "sent"
  /\ tx' = [tx EXCEPT ![side][e] = "net"]
  /\ UNCHANGED <<wallet, expired>>

Drop(side, e) ==
  /\ "drop" \in Faults
  /\ tx[side][e] = "sent"
  /\ tx' = [tx EXCEPT ![side][e] = "dropped"]
  /\ UNCHANGED <<wallet, expired>>

MineRevert(side, e) ==
  /\ tx[side][e] = "net"
  /\ tx' = [tx EXCEPT ![side][e] = "reverted"]
  /\ UNCHANGED <<wallet, expired>>

MineBuy(e) ==
  /\ tx["BUY"][e] = "net"
  /\ \/ /\ tx' = [tx EXCEPT !["BUY"][e] = "ok"]
        /\ wallet' = [wallet EXCEPT ![TokenOf[e]] = @ + Lot]
     \/ /\ tx' = [tx EXCEPT !["BUY"][e] = "empty"]
        /\ UNCHANGED wallet
  /\ UNCHANGED expired

\* A sell takes the whole tracked quantity, and reverts if it is not there.
MineSell(e) ==
  /\ tx["SELL"][e] = "net"
  /\ wallet[TokenOf[e]] >= Lot
  /\ \E result \in {"ok", "empty"} : tx' = [tx EXCEPT !["SELL"][e] = result]
  /\ wallet' = [wallet EXCEPT ![TokenOf[e]] = @ - Lot]
  /\ UNCHANGED expired

\* The owner sells some of a token; an earlier sell that the worker took for
\* failed and that is included after all (see Sign) has the same effect.
ManualSell(t) ==
  /\ "manual" \in Faults
  /\ \E n \in 1 .. wallet[t] : wallet' = [wallet EXCEPT ![t] = @ - n]
  /\ UNCHANGED <<tx, expired>>

Mine == \E e \in Event :
          \/ MineBuy(e)
          \/ MineSell(e)
          \/ \E side \in Side : MineRevert(side, e)

ChainNext ==
  \/ Mine
  \/ \E e \in Event : Expire(e)
  \/ \E side \in Side, e \in Event : Publish(side, e)
  \/ \E side \in Side, e \in Event : Drop(side, e)
  \/ \E t \in Token : ManualSell(t)

=============================================================================
