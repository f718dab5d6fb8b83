----------------------------- MODULE RpcClient ------------------------------
(***************************************************************************)
(* RPC.call of rpc.py with several callers at once.  A call is a task of   *)
(* asyncio.  It passes the throttle, which lets one request start every    *)
(* Interval, waits for one of MaxInFlight slots, posts its request, and    *)
(* after a transient failure sleeps and begins again, Retries times.       *)
(***************************************************************************)
EXTENDS Naturals, FiniteSets

CONSTANTS
  Task,          \* the calls that may be under way at a time
  MaxInFlight,   \* RPC's max_in_flight
  Interval,      \* 1 / requests_per_second, in ticks
  Retries,       \* the retries of a read
  Errors         \* what else than a result may come back, from the set:
                 \*   "reverted"  a deterministic JSON-RPC rejection
                 \*   "forbidden" an HTTP error below 500 without a JSON-RPC
                 \*               error, like 403
                 \*   "limited"   a JSON-RPC error that may pass
                 \*   "silent"    a timeout, a lost connection, an HTTP 5xx
                 \*   "garbled"   a body that is not a JSON object

ASSUME RpcAssumption ==
  /\ IsFiniteSet(Task)
  /\ MaxInFlight \in Nat \ {0}
  /\ Interval \in Nat \ {0}
  /\ Retries \in Nat
  /\ Errors \subseteq {"reverted", "forbidden", "limited", "silent", "garbled"}

VARIABLES
  at,        \* where each task is in call
  attempt,   \* its attempt, counted from 0
  free,      \* the slots of the semaphore that nobody has
  gap        \* the ticks until next_request

client == <<at, attempt, free, gap>>

RpcTypeOK ==
  /\ at \in [Task -> {"idle", "throttle", "slot", "post", "backoff"}]
  /\ attempt \in [Task -> 0 .. Retries]
  /\ free \in 0 .. MaxInFlight
  /\ gap \in 0 .. Interval

RpcInit ==
  /\ at = [t \in Task |-> "idle"]
  /\ attempt = [t \in Task |-> 0]
  /\ free = MaxInFlight
  /\ gap = 0

\* A new process.
RpcReset ==
  /\ at' = [t \in Task |-> "idle"]
  /\ attempt' = [t \in Task |-> 0]
  /\ free' = MaxInFlight
  /\ gap' = 0

Idle == {t \in Task : at[t] = "idle"}

Tick ==
  /\ gap > 0
  /\ gap' = gap - 1
  /\ UNCHANGED <<at, attempt, free>>

\* The tasks of a gather begin together.
Begin(tasks) ==
  /\ at' = [t \in Task |-> IF t \in tasks THEN "throttle" ELSE at[t]]
  /\ attempt' = [t \in Task |-> IF t \in tasks THEN 0 ELSE attempt[t]]
  /\ UNCHANGED <<free, gap>>

Throttle(t) ==
  /\ at[t] = "throttle"
  /\ gap = 0
  /\ gap' = Interval
  /\ at' = [at EXCEPT ![t] = "slot"]
  /\ UNCHANGED <<attempt, free>>

\* Mutant: no slot is waited for.
AcquireUnchecked(t) ==
  /\ at[t] = "slot"
  /\ free' = free - 1
  /\ at' = [at EXCEPT ![t] = "post"]
  /\ UNCHANGED <<attempt, gap>>

Acquire(t) ==
  /\ at[t] = "slot"
  /\ free > 0
  /\ free' = free - 1
  /\ at' = [at EXCEPT ![t] = "post"]
  /\ UNCHANGED <<attempt, gap>>

\* What a call makes of an answer: its result, an exception, or "again".
Outcome(t, answer) ==
  CASE answer = "ok" -> "ok"
    [] answer \in {"reverted", "forbidden"} -> "refused"
    [] answer = "garbled" -> "broken"
    [] OTHER -> IF attempt[t] < Retries THEN "again"
                ELSE IF answer = "limited" THEN "limited" ELSE "unavailable"

\* Mutant: attempts are not counted.
AnswerUncounted(t, answer) ==
  /\ at[t] = "post"
  /\ at' = [at EXCEPT ![t] = IF Outcome(t, answer) = "again" THEN "backoff" ELSE "idle"]
  /\ free' = free + 1
  /\ UNCHANGED <<attempt, gap>>

Answer(t, answer) ==
  /\ at[t] = "post"
  /\ IF Outcome(t, answer) = "again"
     THEN /\ at' = [at EXCEPT ![t] = "backoff"]
          /\ attempt' = [attempt EXCEPT ![t] = @ + 1]
     ELSE /\ at' = [at EXCEPT ![t] = "idle"]
          /\ attempt' = [attempt EXCEPT ![t] = 0]
  /\ free' = free + 1
  /\ UNCHANGED gap

TryAgain(t) ==
  /\ at[t] = "backoff"
  /\ at' = [at EXCEPT ![t] = "throttle"]
  /\ UNCHANGED <<attempt, free, gap>>

Step(t) == Throttle(t) \/ Acquire(t) \/ TryAgain(t)

=============================================================================
