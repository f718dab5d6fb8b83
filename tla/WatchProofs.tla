---------------------------- MODULE WatchProofs -----------------------------
(***************************************************************************)
(* What a failed quote means, what is traded and when a position is sold,  *)
(* for any number of tasks, slots, retries, routes and quotes: whatever    *)
(* the calls of earlier rounds that nobody waits for bring, and when.      *)
(***************************************************************************)
EXTENDS Watch, FunctionTheorems, FiniteSetTheorems, SequenceTheorems, TLAPS

USE DEF client, round, rows, vars

-----------------------------------------------------------------------------
(* Finite sets.                                                            *)

LEMMA MaximumExists ==
  ASSUME NEW S, IsFiniteSet(S), S # {}, NEW f, \A s \in S : f[s] \in Nat
  PROVE  \E m \in S : \A s \in S : f[s] <= f[m]
<1> DEFINE Above(c) == {s \in S : f[c] < f[s]}
           All == {Above(c) : c \in S}
<1>1. All # {} /\ All \subseteq FiniteSubsetsOf(S)
  <2>1. All # {}
    OBVIOUS
  <2>2. ASSUME NEW c \in S
        PROVE  Above(c) \in FiniteSubsetsOf(S)
    BY FS_Subset DEF FiniteSubsetsOf
  <2> QED
    BY <2>1, <2>2
<1>2. PICK x \in All : \A y \in All : <<y, x>> \notin StrictSubsetOrdering(S)
  <2> HIDE DEF All
  <2> QED
    BY <1>1, FS_StrictSubsetOrderingWellFounded, WFMin
<1>3. PICK m \in S : x = Above(m)
  OBVIOUS
<1>4. ASSUME NEW s \in S, f[m] < f[s]
      PROVE  FALSE
  <2>1. Above(s) \subseteq Above(m) /\ s \in Above(m) /\ s \notin Above(s)
    BY <1>4
  <2>2. <<Above(s), Above(m)>> \in StrictSubsetOrdering(S)
    BY <2>1 DEF StrictSubsetOrdering
  <2>3. Above(s) \in All
    OBVIOUS
  <2> QED
    BY <1>2, <1>3, <2>2, <2>3
<1> QED
  BY <1>4

LEMMA InjectionExists ==
  ASSUME NEW S, NEW T, IsFiniteSet(S), IsFiniteSet(T), Cardinality(S) <= Cardinality(T)
  PROVE  \E f : f \in Injection(S, T)
<1>1. PICK b \in Bijection(1 .. Cardinality(S), S) : TRUE
  BY FS_CardinalityType DEF ExistsBijection
<1>2. PICK c \in Bijection(1 .. Cardinality(T), T) : TRUE
  BY FS_CardinalityType DEF ExistsBijection
<1>3. PICK i \in [S -> 1 .. Cardinality(S)] : \A x, y \in S : i[x] = i[y] => x = y
  <2>1. Inverse(b, 1 .. Cardinality(S), S) \in Bijection(S, 1 .. Cardinality(S))
    BY Fun_BijInverse
  <2> QED
    BY <2>1 DEF Bijection, Injection, IsInjective
<1>4. /\ c \in [1 .. Cardinality(T) -> T]
      /\ \A k, l \in 1 .. Cardinality(T) : c[k] = c[l] => k = l
  BY <1>2 DEF Bijection, Injection, IsInjective
<1>5. \A k \in 1 .. Cardinality(S) : k \in 1 .. Cardinality(T)
  BY FS_CardinalityType
<1>6. [x \in S |-> c[i[x]]] \in Injection(S, T)
  BY <1>4, <1>3, <1>5, Fun_IsInj
<1> QED
  BY <1>6

-----------------------------------------------------------------------------
(* RPC.call: each request that is posted has a slot.                       *)

Posts == {t \in Task : at[t] = "post"}

SlotsFit == free + Cardinality(Posts) = MaxInFlight

RpcInv == RpcTypeOK /\ SlotsFit

LEMMA PostsFinite == IsFiniteSet(Posts) /\ Cardinality(Posts) \in Nat
BY RpcAssumption, FS_Subset, FS_CardinalityType DEF Posts

LEMMA NoPosts ==
  ASSUME at = [t \in Task |-> "idle"], free = MaxInFlight
  PROVE  SlotsFit
<1>1. Posts = {}
  BY DEF Posts
<1> QED
  BY <1>1, FS_EmptySet, RpcAssumption DEF SlotsFit

LEMMA InitRpc == RpcInit => RpcInv
BY NoPosts, RpcAssumption DEF RpcInit, RpcInv, RpcTypeOK

LEMMA ResetRpc == RpcReset => RpcInv'
<1> SUFFICES ASSUME RpcReset
             PROVE  RpcInv'
  OBVIOUS
<1>1. Posts' = {}
  BY DEF RpcReset, Posts
<1> QED
  BY <1>1, FS_EmptySet, RpcAssumption DEF RpcReset, RpcInv, RpcTypeOK, SlotsFit

LEMMA SamePosts ==
  ASSUME SlotsFit, Posts' = Posts, free' = free
  PROVE  SlotsFit'
BY DEF SlotsFit

LEMMA BeginRpc ==
  ASSUME RpcInv, NEW tasks \in SUBSET Idle, Begin(tasks)
  PROVE  RpcInv'
<1>1. Posts' = Posts
  BY DEF Begin, Posts, Idle, RpcInv, RpcTypeOK
<1> QED
  BY <1>1, SamePosts, RpcAssumption DEF Begin, RpcInv, RpcTypeOK

LEMMA TickRpc == RpcInv /\ Tick => RpcInv'
<1> SUFFICES ASSUME RpcInv, Tick
             PROVE  RpcInv'
  OBVIOUS
<1>1. Posts' = Posts
  BY DEF Tick, Posts
<1> QED
  BY <1>1, SamePosts, RpcAssumption DEF Tick, RpcInv, RpcTypeOK

LEMMA StepRpc ==
  ASSUME RpcInv, NEW t \in Task, Step(t)
  PROVE  RpcInv'
<1> USE RpcAssumption DEF RpcInv, RpcTypeOK
<1>1. CASE Throttle(t)
  <2>1. Posts' = Posts
    BY <1>1 DEF Throttle, Posts
  <2> QED
    BY <1>1, <2>1, SamePosts DEF Throttle
<1>2. CASE Acquire(t)
  <2>1. Posts' = Posts \cup {t} /\ t \notin Posts
    BY <1>2 DEF Acquire, Posts
  <2>2. Cardinality(Posts') = Cardinality(Posts) + 1
    BY <2>1, PostsFinite, FS_AddElement
  <2> QED
    BY <1>2, <2>2, PostsFinite DEF Acquire, SlotsFit
<1>3. CASE TryAgain(t)
  <2>1. Posts' = Posts
    BY <1>3 DEF TryAgain, Posts
  <2> QED
    BY <1>3, <2>1, SamePosts DEF TryAgain
<1> QED
  BY <1>1, <1>2, <1>3 DEF Step

LEMMA AnswerRpc ==
  ASSUME RpcInv, NEW t \in Task, NEW answer \in Errors \cup {"ok"}, Answer(t, answer)
  PROVE  RpcInv'
<1> USE RpcAssumption DEF RpcInv, RpcTypeOK
<1>1. Posts' = Posts \ {t} /\ t \in Posts
  BY DEF Answer, Posts
<1>2. Cardinality(Posts') = Cardinality(Posts) - 1
  BY <1>1, PostsFinite, FS_RemoveElement
<1>3. Cardinality(Posts) # 0
  BY <1>1, PostsFinite, FS_EmptySet
<1>4. SlotsFit' /\ free' \in 0 .. MaxInFlight
  BY <1>2, <1>3, PostsFinite DEF Answer, SlotsFit
<1>5. Outcome(t, answer) = "again" => attempt[t] < Retries
  BY DEF Outcome
<1> QED
  BY <1>4, <1>5 DEF Answer

-----------------------------------------------------------------------------
(***************************************************************************)
(* The inductive invariant.  Only what the gather of this round waits for  *)
(* is a job, and each call of the round is the job of one task at most, so *)
(* an orphan has none.  While it waits nothing is decided, and what it has *)
(* heard is a result or, of a pool's candidate, a refusal to leave out.    *)
(***************************************************************************)
JobsFit ==
  \A t \in Task : job[t] # none =>
    /\ phase = "gather"
    /\ job[t] \in Calls
    /\ heard[job[t]] = Waiting
    /\ \A u \in Task : job[u] = job[t] => u = t

MayBeLeftOut(c) ==
  pool.lenient /\ c # "permit2" /\ heard[c].tag \in {"reverted", "forbidden"}

RoundFits ==
  phase = "gather" =>
    /\ side # "END"
    /\ verdict = "none"
    /\ \A c \in Calls : heard[c] = Waiting \/ heard[c].tag = "ok" \/ MayBeLeftOut(c)

\* The rows remember what sell_once is to know of the quotes before.
MemoryFits ==
  side # "END" =>
    /\ prev = IF quotes = << >> THEN 0 ELSE quotes[Len(quotes)]
    /\ latch <=> \E i \in DOMAIN quotes : Crash(i)

WatchInv == TypeOK /\ SlotsFit /\ JobsFit /\ RoundFits /\ MemoryFits

LEMMA InitWatch == Init => WatchInv
<1> SUFFICES ASSUME Init
             PROVE  WatchInv
  OBVIOUS
<1>1. RpcInv
  BY InitRpc DEF Init
<1>2. << >> \in Seq(Quote) /\ DOMAIN << >> = {}
  BY EmptySeq
<1> QED
  BY <1>1, <1>2 DEF Init, WatchInv, TypeOK, RpcInv, JobsFit, RoundFits, MemoryFits, Reply

LEMMA PoolFacts ==
  ASSUME pool \in Pools
  PROVE  /\ pool.routes \in Candidates /\ pool.routes \subseteq Route
         /\ pool.routes # {} /\ IsFiniteSet(pool.routes)
         /\ pool.routes \subseteq Calls /\ Calls \subseteq Route \cup {"permit2"}
         /\ Calls # {} /\ IsFiniteSet(Calls) /\ none \notin Calls
<1>1. pool.routes \in Candidates /\ pool.routes # {} /\ IsFiniteSet(pool.routes)
  BY WatchAssumption DEF Pools
<1>2. pool.routes \subseteq Route
  BY <1>1 DEF Route
<1>3. IsFiniteSet(Calls)
  BY <1>1, FS_AddElement DEF Calls
<1> QED
  BY <1>1, <1>2, <1>3, WatchAssumption DEF Calls

LEMMA ReplyFacts ==
  ASSUME NEW reply \in Reply
  PROVE  /\ reply.tag \in Errors \cup {"ok"}
         /\ reply.out \in Quote \cup {0} /\ reply.out \in Nat
         /\ reply.tag # "ok" => reply.out = 0
         /\ reply # Waiting
BY RpcAssumption, WatchAssumption DEF Reply, Waiting

LEMMA BestIsBest ==
  ASSUME pool \in Pools,
         NEW replies \in [Route \cup {"permit2"} -> Reply \cup {Waiting}]
  PROVE  /\ Best(replies) \in pool.routes
         /\ \A d \in pool.routes : replies[d].out <= replies[Best(replies)].out
<1> DEFINE f == [d \in pool.routes |-> replies[d].out]
<1>1. \A d \in pool.routes : f[d] \in Nat
  BY PoolFacts, ReplyFacts DEF Waiting
<1>2. \E c \in pool.routes : \A d \in pool.routes : f[d] <= f[c]
  <2> HIDE DEF f
  <2> QED
    BY <1>1, PoolFacts, MaximumExists
<1> QED
  BY <1>2 DEF Best

LEMMA OutcomeFacts ==
  ASSUME NEW t \in Task, NEW answer \in Errors \cup {"ok"}
  PROVE  /\ Outcome(t, answer) = "ok" <=> answer = "ok"
         /\ Outcome(t, answer) = "refused" <=> answer \in {"reverted", "forbidden"}
BY RpcAssumption DEF Outcome

-----------------------------------------------------------------------------
(* The steps.                                                              *)

LEMMA StartWatch ==
  ASSUME WatchInv, StartRound
  PROVE  WatchInv'
<1> USE DEF WatchInv
<1> DEFINE task == CHOOSE f \in Injection(Calls, Idle) : TRUE
           back == Inverse(task, Calls, Idle)
<1>1. task \in Injection(Calls, Idle)
  <2>1. IsFiniteSet(Idle)
    BY RpcAssumption, FS_Subset DEF Idle
  <2> QED
    BY <2>1, PoolFacts, InjectionExists DEF StartRound, TypeOK
<1>2. /\ task \in [Calls -> Idle]
      /\ \A a, b \in Calls : task[a] = task[b] => a = b
  BY <1>1 DEF Injection, IsInjective
<1>3. Range(task) \subseteq Idle
  BY <1>2 DEF Range
<1>4. \A t \in Range(task) : back[t] \in Calls /\ task[back[t]] = t
  BY <1>2, <1>3, PoolFacts, Fun_InverseProperties DEF TypeOK
<1>5. /\ Begin(Range(task))
      /\ job' = [t \in Task |-> IF t \in Range(task) THEN back[t] ELSE job[t]]
  BY DEF StartRound
<1> HIDE DEF task, back
<1>6. \A t \in Task : job[t] = none
  BY DEF JobsFit, StartRound
<1>7. RpcInv'
  BY <1>3, <1>5, BeginRpc DEF RpcInv, TypeOK
<1>8. Calls' = Calls
  BY DEF StartRound, Calls
<1>9. JobsFit'
  BY <1>3, <1>4, <1>5, <1>6, <1>8, PoolFacts DEF JobsFit, StartRound, TypeOK
<1>10. RoundFits'
  BY <1>8, PoolFacts DEF RoundFits, StartRound, TypeOK
<1>11. MemoryFits'
  BY DEF MemoryFits, StartRound, Crash
<1>12. TypeOK'
  BY <1>4, <1>5, <1>7, PoolFacts, WatchAssumption
  DEF TypeOK, StartRound, RpcInv, Waiting
<1> QED
  BY <1>7, <1>9, <1>10, <1>11, <1>12 DEF RpcInv

\* What a delivery makes of the gather, whatever is then decided.
Heard(t, reply) == [heard EXCEPT ![job[t]] = reply]

Quoted(t, reply) == \A d \in pool.routes : Heard(t, reply)[d] # Waiting

Raises(t, reply) ==
  Outcome(t, reply.tag) # "ok" /\ ~LeftOut(job[t], Outcome(t, reply.tag))

BestHeard(t, reply) == Heard(t, reply)[Best(Heard(t, reply))].out

Fails(t, reply) == Raises(t, reply) \/ (Quoted(t, reply) /\ BestHeard(t, reply) = 0)

LEMMA HeardFacts ==
  ASSUME WatchInv, NEW t \in Task, NEW reply \in Reply, job[t] # none
  PROVE  /\ phase = "gather" /\ side # "END" /\ verdict = "none"
         /\ job[t] \in Calls /\ job[t] \in Route \cup {"permit2"}
         /\ Heard(t, reply) \in [Route \cup {"permit2"} -> Reply \cup {Waiting}]
         /\ Heard(t, reply)[job[t]] = reply
         /\ \A c \in Route \cup {"permit2"} : c # job[t] => Heard(t, reply)[c] = heard[c]
         /\ Best(Heard(t, reply)) \in pool.routes
         /\ \A d \in pool.routes : Heard(t, reply)[d].out <= BestHeard(t, reply)
         /\ BestHeard(t, reply) \in Quote \cup {0}
<1>1. /\ phase = "gather" /\ side # "END" /\ verdict = "none"
      /\ job[t] \in Calls /\ job[t] \in Route \cup {"permit2"}
  BY PoolFacts DEF WatchInv, JobsFit, RoundFits, TypeOK
<1>2. Heard(t, reply) \in [Route \cup {"permit2"} -> Reply \cup {Waiting}]
  BY DEF Heard, WatchInv, TypeOK
<1>3. /\ Heard(t, reply)[job[t]] = reply
      /\ \A c \in Route \cup {"permit2"} : c # job[t] => Heard(t, reply)[c] = heard[c]
  BY <1>1 DEF Heard, WatchInv, TypeOK
<1>4. /\ Best(Heard(t, reply)) \in pool.routes
      /\ \A d \in pool.routes : Heard(t, reply)[d].out <= BestHeard(t, reply)
  BY <1>2, BestIsBest DEF WatchInv, TypeOK, BestHeard
<1>5. BestHeard(t, reply) \in Quote \cup {0}
  BY <1>2, <1>4, PoolFacts, ReplyFacts DEF WatchInv, TypeOK, BestHeard, Waiting
<1> QED
  BY <1>1, <1>2, <1>3, <1>4, <1>5

\* A result, or a refusal of a candidate that may be left out.
LEMMA NotRaised ==
  ASSUME NEW t \in Task, NEW reply \in Reply, ~Raises(t, reply)
  PROVE  \/ reply.tag = "ok"
         \/ pool.lenient /\ job[t] # "permit2" /\ reply.tag \in {"reverted", "forbidden"}
BY OutcomeFacts, ReplyFacts DEF Raises, LeftOut

LEMMA DeliverDef ==
  ASSUME NEW t, NEW reply, Deliver(t, reply)
  PROVE  /\ heard' = Heard(t, reply)
         /\ job' = [d \in Task |-> IF Fails(t, reply) \/ d = t THEN none ELSE job[d]]
         /\ path' = IF Fails(t, reply) THEN path
                    ELSE PathAfter(job[t], Heard(t, reply), Quoted(t, reply))
         /\ UNCHANGED pool
         /\ \/ /\ Raises(t, reply) /\ job[t] = "permit2"
               /\ Outcome(t, reply.tag) = "refused" /\ Refused("unsupported")
            \/ Raises(t, reply) /\ Transient
            \/ ~Raises(t, reply) /\ Fails(t, reply) /\ Refused("zero")
            \/ /\ ~Fails(t, reply)
               /\ \E d \in Calls : Heard(t, reply)[d] = Waiting
               /\ UNCHANGED <<side, phase, rows>>
            \/ /\ ~Fails(t, reply)
               /\ ~\E d \in Calls : Heard(t, reply)[d] = Waiting
               /\ side = "BUY" /\ BuyQuoted
            \/ /\ ~Fails(t, reply)
               /\ ~\E d \in Calls : Heard(t, reply)[d] = Waiting
               /\ side # "BUY" /\ SellQuoted(BestHeard(t, reply))
BY DEF Deliver, Heard, Quoted, Raises, BestHeard, Fails

\* An exception, or a zero, sends the worker to its next round.
LEMMA Ended ==
  ASSUME WatchInv, NEW t \in Task, NEW reply \in Reply, job[t] # none,
         Deliver(t, reply), Fails(t, reply)
  PROVE  phase' = "rest"
BY DeliverDef DEF Fails, Refused, Transient, Decided

LEMMA DeliverJobs ==
  ASSUME WatchInv, NEW t \in Task, NEW reply \in Reply, job[t] # none, Deliver(t, reply)
  PROVE  JobsFit' /\ RoundFits'
<1>1. CASE Fails(t, reply)
  BY <1>1, DeliverDef, Ended DEF JobsFit, RoundFits
<1>2. CASE ~Fails(t, reply) /\ \E d \in Calls : Heard(t, reply)[d] = Waiting
  <2>1. heard' = Heard(t, reply) /\ UNCHANGED <<pool, side, phase, verdict>>
    BY <1>2, DeliverDef DEF Fails
  <2>2. Calls' = Calls
    BY <2>1 DEF Calls
  <2>3. JobsFit'
    BY <1>2, <2>1, <2>2, DeliverDef, HeardFacts, PoolFacts DEF JobsFit, WatchInv, TypeOK
  <2>4. RoundFits'
    BY <1>2, <2>1, <2>2, NotRaised, HeardFacts, PoolFacts
    DEF RoundFits, MayBeLeftOut, Fails, WatchInv, TypeOK
  <2> QED
    BY <2>3, <2>4
<1>3. CASE ~Fails(t, reply) /\ ~\E d \in Calls : Heard(t, reply)[d] = Waiting
  <2>1. phase' # "gather"
    BY <1>3, DeliverDef DEF Fails, BuyQuoted, SellQuoted, Decided
  <2>2. \A u \in Task : job[u] # none => u = t
    <3> SUFFICES ASSUME NEW u \in Task, job[u] # none, u # t
                 PROVE  FALSE
      OBVIOUS
    <3>1. job[u] \in Calls /\ heard[job[u]] = Waiting /\ job[u] # job[t]
      BY DEF WatchInv, JobsFit
    <3>2. Heard(t, reply)[job[u]] = Waiting
      BY <3>1, HeardFacts, PoolFacts DEF WatchInv, TypeOK
    <3> QED
      BY <1>3, <3>1, <3>2
  <2> QED
    BY <2>1, <2>2, DeliverDef DEF JobsFit, RoundFits
<1> QED
  BY <1>1, <1>2, <1>3

\* A quote is remembered with what it means for those that follow.
LEMMA QuoteRemembered ==
  ASSUME WatchInv, side # "END", NEW q \in Quote, SellQuoted(q)
  PROVE  /\ quotes' \in Seq(Quote) /\ quotes' # << >> /\ quotes'[Len(quotes')] = q
         /\ prev' = q
         /\ latch' \in BOOLEAN
         /\ latch' <=> \E i \in DOMAIN quotes' : Crash(i)'
         /\ verdict' = IF latch' \/ Reached(q) THEN "sell" ELSE "hold"
<1>1. PICK n \in Nat : n = Len(quotes)
  BY LenProperties DEF WatchInv, TypeOK
<1>2. /\ quotes' \in Seq(Quote) /\ quotes' # << >> /\ Len(quotes') = n + 1
      /\ \A i \in 1 .. n : quotes'[i] = quotes[i]
      /\ quotes'[n + 1] = q
      /\ DOMAIN quotes = 1 .. n /\ DOMAIN quotes' = 1 .. n + 1
      /\ \A i \in 1 .. n : quotes[i] \in Quote
  BY <1>1, AppendProperties, LenProperties, ElementOfSeq DEF WatchInv, TypeOK, SellQuoted
<1>3. Quote \subseteq Nat \ {0} /\ Cost \in Nat
  BY WatchAssumption
<1>4. IF n = 0 THEN prev = 0 ELSE prev = quotes[n] /\ prev # 0
  <2>1. quotes = << >> <=> n = 0
    BY <1>1, EmptySeq DEF WatchInv, TypeOK
  <2> QED
    BY <1>1, <1>2, <1>3, <2>1 DEF WatchInv, MemoryFits
<1>5. \A i \in 1 .. n : Crash(i)' <=> Crash(i)
  <2> SUFFICES ASSUME NEW i \in 1 .. n
               PROVE  Crash(i)' <=> Crash(i)
    OBVIOUS
  <2>1. quotes'[i] = quotes[i] /\ (i > 1 => quotes'[i - 1] = quotes[i - 1])
    BY <1>2
  <2> QED
    BY <2>1 DEF Crash
<1>6. Crash(n + 1)' <=> FromEntry(q) \/ FromPrevious(q)
  <2>1. Crash(n + 1)' <=> q * 10 <= Cost \/ (n + 1 > 1 /\ q * 10 <= quotes'[n])
    BY <1>2 DEF Crash
  <2>2. n + 1 > 1 => quotes'[n] = prev /\ prev # 0
    BY <1>2, <1>4
  <2> QED
    BY <1>4, <2>1, <2>2 DEF FromEntry, FromPrevious
<1>7. latch' <=> latch \/ FromEntry(q) \/ FromPrevious(q)
  BY DEF SellQuoted
<1>8. latch <=> \E i \in 1 .. n : Crash(i)
  BY <1>2 DEF WatchInv, MemoryFits
<1>9. \A i : i \in 1 .. n + 1 <=> i \in 1 .. n \/ i = n + 1
  OBVIOUS
<1>10. (\E i \in 1 .. n + 1 : Crash(i)') <=> (\E i \in 1 .. n : Crash(i)) \/ Crash(n + 1)'
  BY <1>5, <1>9
<1>11. latch' <=> \E i \in DOMAIN quotes' : Crash(i)'
  BY <1>2, <1>6, <1>7, <1>8, <1>10
<1> QED
  BY <1>2, <1>11 DEF SellQuoted, Decided, WatchInv, TypeOK

LEMMA DeliverRows ==
  ASSUME WatchInv, NEW t \in Task, NEW reply \in Reply, job[t] # none, Deliver(t, reply)
  PROVE  /\ MemoryFits'
         /\ UNCHANGED pool
         /\ side' \in {"BUY", "SELL", "END"} /\ phase' \in {"rest", "gather", "trade"}
         /\ prev' \in Quote \cup {0} /\ latch' \in BOOLEAN /\ quotes' \in Seq(Quote)
         /\ verdict' \in {"none", "transient", "zero", "unsupported", "buy", "hold", "sell"}
<1> USE DEF WatchInv, TypeOK
<1>0. side # "END" /\ UNCHANGED pool
  BY HeardFacts, DeliverDef
<1>1. CASE UNCHANGED <<prev, latch, quotes>>
  <2>1. MemoryFits'
    BY <1>0, <1>1 DEF MemoryFits, Crash
  <2>2. /\ side' \in {"BUY", "SELL", "END"} /\ phase' \in {"rest", "gather", "trade"}
        /\ verdict' \in {"none", "transient", "zero", "unsupported", "buy", "hold", "sell"}
    BY DeliverDef DEF Refused, Transient, Decided, BuyQuoted, SellQuoted
  <2> QED
    BY <1>0, <1>1, <2>1, <2>2
<1>2. CASE ~Fails(t, reply) /\ SellQuoted(BestHeard(t, reply))
           /\ ~\E d \in Calls : Heard(t, reply)[d] = Waiting
  <2>1. BestHeard(t, reply) \in Quote
    BY <1>2, HeardFacts, PoolFacts DEF Fails, Quoted
  <2>2. UNCHANGED side /\ phase' \in {"trade", "rest"}
    BY <1>2 DEF SellQuoted, Decided
  <2> QED
    BY <1>0, <1>2, <2>1, <2>2, QuoteRemembered DEF MemoryFits
<1> QED
  BY <1>1, <1>2, DeliverDef DEF Refused, Transient, BuyQuoted

LEMMA DeliverTypes ==
  ASSUME WatchInv, NEW t \in Task, NEW reply \in Reply, job[t] # none, Deliver(t, reply)
  PROVE  /\ job' \in [Task -> Route \cup {"permit2", none}]
         /\ heard' \in [Route \cup {"permit2"} -> Reply \cup {Waiting}]
         /\ path' \in Route \cup {none}
<1>1. heard' = Heard(t, reply)
  BY DeliverDef
<1>2. path' \in {path, Best(Heard(t, reply))}
  BY DeliverDef DEF PathAfter
<1> QED
  BY <1>1, <1>2, DeliverDef, HeardFacts, PoolFacts DEF WatchInv, TypeOK

LEMMA ReturnWatch ==
  ASSUME WatchInv, NEW t \in Task, Return(t)
  PROVE  WatchInv'
<1>1. PICK reply \in Reply :
        /\ Answer(t, reply.tag)
        /\ \/ UNCHANGED <<round, rows>>
           \/ job[t] # none /\ Deliver(t, reply)
  BY DEF Return
<1>2. RpcInv'
  BY <1>1, ReplyFacts, AnswerRpc DEF WatchInv, TypeOK, RpcInv
<1>3. CASE UNCHANGED <<round, rows>>
  BY <1>2, <1>3 DEF RpcInv, WatchInv, TypeOK, JobsFit, RoundFits, MayBeLeftOut, MemoryFits,
     Calls, Crash
<1>4. CASE job[t] # none /\ Deliver(t, reply)
  <2>1. JobsFit' /\ RoundFits' /\ MemoryFits'
    BY <1>4, DeliverJobs, DeliverRows
  <2>2. TypeOK'
    BY <1>2, <1>4, DeliverRows, DeliverTypes DEF RpcInv, WatchInv, TypeOK
  <2> QED
    BY <1>2, <2>1, <2>2 DEF RpcInv, WatchInv
<1> QED
  BY <1>1, <1>3, <1>4

\* The steps of RPC.call that end none.
LEMMA RpcWatch ==
  ASSUME WatchInv, RpcInv', UNCHANGED <<round, rows>>
  PROVE  WatchInv'
BY DEF RpcInv, WatchInv, TypeOK, JobsFit, RoundFits, MayBeLeftOut, MemoryFits, Calls, Crash

LEMMA TradeWatch ==
  ASSUME WatchInv, Bought \/ Sold \/ NotTraded
  PROVE  WatchInv'
<1>1. /\ phase = "trade" /\ phase' = "rest"
      /\ UNCHANGED client /\ UNCHANGED <<pool, job, heard, quotes>>
  BY DEF Bought, Sold, NotTraded
<1>2. JobsFit' /\ RoundFits'
  BY <1>1 DEF WatchInv, JobsFit, RoundFits
<1>3. SlotsFit' /\ RpcTypeOK'
  BY <1>1 DEF WatchInv, TypeOK, SlotsFit, RpcTypeOK, Posts
<1>4. CASE Bought
  BY <1>1, <1>2, <1>3, <1>4 DEF Bought, WatchInv, TypeOK, MemoryFits, Crash
<1>5. CASE Sold
  BY <1>1, <1>2, <1>3, <1>5 DEF Sold, WatchInv, TypeOK, MemoryFits
<1>6. CASE NotTraded
  BY <1>1, <1>2, <1>3, <1>6 DEF NotTraded, WatchInv, TypeOK, MemoryFits, Crash
<1> QED
  BY <1>4, <1>5, <1>6

LEMMA StopWatch ==
  ASSUME WatchInv, Stop
  PROVE  WatchInv'
<1>1. RpcInv'
  BY ResetRpc DEF Stop
<1>2. JobsFit' /\ RoundFits'
  BY DEF Stop, JobsFit, RoundFits
<1>3. MemoryFits' /\ TypeOK'
  BY <1>1 DEF Stop, RpcInv, WatchInv, TypeOK, MemoryFits, Crash
<1> QED
  BY <1>1, <1>2, <1>3 DEF RpcInv, WatchInv

LEMMA NextWatch == WatchInv /\ [Next]_vars => WatchInv'
<1> SUFFICES ASSUME WatchInv, [Next]_vars
             PROVE  WatchInv'
  OBVIOUS
<1>1. RpcInv
  BY DEF RpcInv, WatchInv, TypeOK
<1>2. CASE StartRound
  BY <1>2, StartWatch
<1>3. CASE Tick /\ UNCHANGED <<round, rows>>
  BY <1>1, <1>3, TickRpc, RpcWatch
<1>4. ASSUME NEW t \in Task, Work(t)
      PROVE  WatchInv'
  BY <1>1, <1>4, ReturnWatch, StepRpc, RpcWatch DEF Work
<1>5. CASE Bought \/ Sold \/ NotTraded
  BY <1>5, TradeWatch
<1>6. CASE Stop
  BY <1>6, StopWatch
<1>7. CASE UNCHANGED vars
  BY <1>7 DEF WatchInv, TypeOK, RpcTypeOK, SlotsFit, Posts, JobsFit, RoundFits, MayBeLeftOut,
     MemoryFits, Calls, Crash
<1> QED
  BY <1>2, <1>3, <1>4, <1>5, <1>6, <1>7 DEF Next

\* The inductive invariant: only what this round's gather waits for is a task's
\* job, and the rows remember what every earlier quote means (gather, sell_once).
THEOREM WatchInvariant == Spec => []WatchInv
BY InitWatch, NextWatch, PTL DEF Spec

\* Every row and label keeps its type, and no more requests are posted at a time
\* than there are slots (RPC.call).
THEOREM TypeCorrect == Spec => []TypeOK
<1>1. WatchInv => TypeOK
  BY DEF WatchInv
<1> QED
  BY <1>1, WatchInvariant, PTL

-----------------------------------------------------------------------------
(* What a failed quote means.                                              *)

\* No request is answered with an HTTP error that RPC.call takes for a contract's
\* refusal: with one the property fails, as the run forbidden_quote shows.
NotForbidden == "forbidden" \notin Errors

LEMMA DeliverRefusals ==
  ASSUME NotForbidden, WatchInv,
         NEW t \in Task, NEW reply \in Reply, job[t] # none, Deliver(t, reply)
  PROVE  RefusalsAreTheMarkets'
<1>1. heard' = Heard(t, reply) /\ UNCHANGED pool
  BY DeliverDef
<1>2. ASSUME Raises(t, reply), job[t] = "permit2", Outcome(t, reply.tag) = "refused"
      PROVE  heard'["permit2"].tag = "reverted"
  <2>1. reply.tag \in {"reverted", "forbidden"} /\ reply.tag # "forbidden"
    BY <1>2, OutcomeFacts, ReplyFacts DEF NotForbidden
  <2> QED
    BY <1>1, <1>2, <2>1, HeardFacts
<1>3. ASSUME ~Raises(t, reply), Fails(t, reply)
      PROVE  \A c \in pool.routes : heard'[c].out = 0 /\ heard'[c].tag \in {"ok", "reverted"}
  <2> SUFFICES ASSUME NEW c \in pool.routes
               PROVE  heard'[c].out = 0 /\ heard'[c].tag \in {"ok", "reverted"}
    OBVIOUS
  <2>1. BestHeard(t, reply) = 0 /\ Heard(t, reply)[c] # Waiting
    BY <1>3 DEF Fails, Quoted
  <2>2. Heard(t, reply)[c] \in Reply
    BY <2>1, HeardFacts, PoolFacts DEF WatchInv, TypeOK
  <2>3. Heard(t, reply)[c].out = 0
    BY <2>1, <2>2, HeardFacts, ReplyFacts
  <2>4. Heard(t, reply)[c].tag \in {"ok", "reverted", "forbidden"}
    <3>1. CASE c = job[t]
      BY <1>3, <3>1, HeardFacts, NotRaised
    <3>2. CASE c # job[t]
      BY <2>1, <3>2, HeardFacts, PoolFacts DEF WatchInv, RoundFits, MayBeLeftOut, TypeOK
    <3> QED
      BY <3>1, <3>2
  <2>5. Heard(t, reply)[c].tag # "forbidden"
    BY <2>2, ReplyFacts DEF NotForbidden
  <2> QED
    BY <1>1, <2>3, <2>4, <2>5
<1>4. verdict' = "zero" => ~Raises(t, reply) /\ Fails(t, reply)
  BY DeliverDef, HeardFacts DEF Refused, Transient, Decided, BuyQuoted, SellQuoted
<1>5. verdict' = "unsupported" =>
        Raises(t, reply) /\ job[t] = "permit2" /\ Outcome(t, reply.tag) = "refused"
  BY DeliverDef, HeardFacts DEF Refused, Transient, Decided, BuyQuoted, SellQuoted
<1> QED
  BY <1>1, <1>2, <1>3, <1>4, <1>5 DEF RefusalsAreTheMarkets

LEMMA NextRefusals ==
  ASSUME NotForbidden, WatchInv, RefusalsAreTheMarkets, [Next]_vars
  PROVE  RefusalsAreTheMarkets'
<1>1. CASE verdict' = "none"
  BY <1>1 DEF RefusalsAreTheMarkets
<1>2. CASE UNCHANGED <<pool, verdict, heard>>
  BY <1>2 DEF RefusalsAreTheMarkets
<1>3. ASSUME NEW t \in Task, Return(t)
      PROVE  RefusalsAreTheMarkets'
  BY <1>2, <1>3, DeliverRefusals DEF Return
<1> QED
  BY <1>1, <1>2, <1>3 DEF Next, StartRound, Work, Bought, Sold, NotTraded, Stop

\* A buy is given up for a zero quote, or a token for Permit2, only on the word of
\* the contracts, whatever endpoint or network did (_quote_v3, _quote_v4).
THEOREM MarketsRefuse ==
  ASSUME NotForbidden
  PROVE  Spec => []RefusalsAreTheMarkets
<1>1. Init => RefusalsAreTheMarkets
  BY DEF Init, RefusalsAreTheMarkets
<1>2. WatchInv /\ RefusalsAreTheMarkets /\ [Next]_vars => RefusalsAreTheMarkets'
  BY NextRefusals
<1> QED
  BY <1>1, <1>2, WatchInvariant, PTL DEF Spec

-----------------------------------------------------------------------------
(* What is traded, and when a position is sold.                            *)

LEMMA DeliverBest ==
  ASSUME WatchInv, NEW t \in Task, NEW reply \in Reply, job[t] # none, Deliver(t, reply)
  PROVE  TradesTheBestQuote'
<1> SUFFICES ASSUME phase' = "trade"
             PROVE  /\ path' \in pool'.routes
                    /\ \A c \in pool'.routes :
                         heard'[c] # Waiting /\ heard'[c].out <= heard'[path'].out
                    /\ side' = "SELL" => heard'[path'].out = quotes'[Len(quotes')]
  BY DEF TradesTheBestQuote
<1>1. /\ heard' = Heard(t, reply) /\ UNCHANGED pool
      /\ ~Fails(t, reply) /\ ~\E d \in Calls : Heard(t, reply)[d] = Waiting
      /\ \/ side = "BUY" /\ BuyQuoted
         \/ side # "BUY" /\ SellQuoted(BestHeard(t, reply))
  BY DeliverDef, HeardFacts DEF Refused, Transient, Decided
<1>2. Quoted(t, reply)
  BY <1>1, PoolFacts DEF Quoted, WatchInv, TypeOK
<1>3. path' = Best(Heard(t, reply)) /\ heard'[path'].out = BestHeard(t, reply)
  BY <1>1, <1>2, DeliverDef DEF PathAfter, BestHeard
<1>4. BestHeard(t, reply) \in Quote
  BY <1>1, <1>2, HeardFacts DEF Fails
<1>5. side' = "SELL" => heard'[path'].out = quotes'[Len(quotes')]
  BY <1>1, <1>3, <1>4, HeardFacts, QuoteRemembered DEF BuyQuoted
<1> QED
  BY <1>1, <1>2, <1>3, <1>5, HeardFacts DEF Quoted, BestHeard

LEMMA NextBest ==
  ASSUME WatchInv, TradesTheBestQuote, [Next]_vars
  PROVE  TradesTheBestQuote'
<1>1. CASE phase' # "trade"
  BY <1>1 DEF TradesTheBestQuote
<1>2. CASE UNCHANGED <<round, rows>>
  BY <1>2 DEF TradesTheBestQuote
<1>3. ASSUME NEW t \in Task, Return(t)
      PROVE  TradesTheBestQuote'
  BY <1>2, <1>3, DeliverBest DEF Return
<1> QED
  BY <1>1, <1>2, <1>3 DEF Next, StartRound, Work, Bought, Sold, NotTraded, Stop

\* What is traded is the best of this round's quotes, on the path it was quoted
\* for, however many candidates there are and whatever orphans bring
\* (quote_candidate, path_buy, path_sell).
THEOREM BestIsTraded == Spec => []TradesTheBestQuote
<1>1. Init => TradesTheBestQuote
  BY DEF Init, TradesTheBestQuote
<1>2. WatchInv /\ TradesTheBestQuote /\ [Next]_vars => TradesTheBestQuote'
  BY NextBest
<1> QED
  BY <1>1, <1>2, WatchInvariant, PTL DEF Spec

LEMMA DeliverExits ==
  ASSUME WatchInv, NEW t \in Task, NEW reply \in Reply, job[t] # none, Deliver(t, reply)
  PROVE  ExitsWhenDue'
<1> SUFFICES ASSUME verdict' \in {"hold", "sell"}
             PROVE  ExitsWhenDue'
  BY DEF ExitsWhenDue
<1>1. /\ ~Fails(t, reply) /\ ~\E d \in Calls : Heard(t, reply)[d] = Waiting
      /\ SellQuoted(BestHeard(t, reply))
  BY DeliverDef, HeardFacts DEF Refused, Transient, Decided, BuyQuoted
<1>2. BestHeard(t, reply) \in Quote
  BY <1>1, HeardFacts, PoolFacts DEF Fails, Quoted, WatchInv, TypeOK
<1>3. /\ quotes'[Len(quotes')] = BestHeard(t, reply)
      /\ latch' <=> \E i \in DOMAIN quotes' : Crash(i)'
      /\ verdict' = IF latch' \/ Reached(BestHeard(t, reply)) THEN "sell" ELSE "hold"
  BY <1>1, <1>2, HeardFacts, QuoteRemembered
<1> QED
  BY <1>3 DEF ExitsWhenDue, Reached

LEMMA NextExits ==
  ASSUME WatchInv, ExitsWhenDue, [Next]_vars
  PROVE  ExitsWhenDue'
<1>1. CASE verdict' = "none"
  BY <1>1 DEF ExitsWhenDue
<1>2. CASE UNCHANGED <<verdict, quotes>>
  BY <1>2 DEF ExitsWhenDue, Crash, Reached
<1>3. ASSUME NEW t \in Task, Return(t)
      PROVE  ExitsWhenDue'
  BY <1>2, <1>3, DeliverExits DEF Return
<1> QED
  BY <1>1, <1>2, <1>3 DEF Next, StartRound, Work, Bought, Sold, NotTraded, Stop

\* A quote sells if and only if it reaches the target, or it or one before it was
\* a crash, however many sales, rounds or processes failed in between (sell_once).
THEOREM ExitsAreDue == Spec => []ExitsWhenDue
<1>1. Init => ExitsWhenDue
  BY DEF Init, ExitsWhenDue
<1>2. WatchInv /\ ExitsWhenDue /\ [Next]_vars => ExitsWhenDue'
  BY NextExits
<1> QED
  BY <1>1, <1>2, WatchInvariant, PTL DEF Spec

=============================================================================
