---------------------------- MODULE RoutesProofs ----------------------------
(***************************************************************************)
(* Where routes lead, what the discovery of bridges leaves out and how     *)
(* proceeds are read, for any pools, assets and liquidity.                 *)
(***************************************************************************)
EXTENDS Routes, SequenceTheorems, TLAPS

USE DEF chain, resolver, sale, vars

-----------------------------------------------------------------------------
(* Pools and their pairs.                                                  *)

LEMMA PairFacts ==
  ASSUME NEW p \in Pool
  PROVE  /\ Len(p.pair) = 2 /\ ToSet(p.pair) = {p.pair[1], p.pair[2]}
         /\ p.pair[1] \in Asset /\ p.pair[2] \in Asset /\ p.pair[1] # p.pair[2]
BY RoutesAssumption DEF ToSet

LEMMA InputFacts ==
  ASSUME mode \in {"ETH", "USD"}, NEW version
  PROVE  Input(version) # Token
BY DEF Input, Token

\* The other side of the token's pool.
LEMMA OtherFacts ==
  ASSUME NEW p \in Pool, Token \in ToSet(p.pair)
  PROVE  /\ ToSet(p.pair) = {Token, Other(p)} /\ Other(p) # Token
         /\ Other(p) \in Asset /\ Token \in Asset
BY PairFacts DEF Other

LEMMA WorldFacts ==
  ASSUME world \in Worlds
  PROVE  world \subseteq Pool
BY DEF Pool

-----------------------------------------------------------------------------
(***************************************************************************)
(* The inductive invariant.  A route is only kept of a pool that was       *)
(* vetted, and as long as the pool is the hint; bridges are looked for     *)
(* only with nothing kept; the cache holds, for each asset, bridges from   *)
(* the input asset to it, whichever pool was asked for when it was filled. *)
(***************************************************************************)
Vetted == hint.official /\ Token \in ToSet(hint.pair)

BridgesTo(version, asset) ==
  {b \in world : /\ b.version = version /\ b.official
                 /\ ToSet(b.pair) = {Input(version), asset}}

StepFits ==
  step = "bridge" =>
    hint # none /\ Vetted /\ ~Direct(hint) /\ routes = {} /\ verdict = "none"

KnownFits ==
  \A a \in Asset : known[a] # none => known[a] \subseteq BridgesTo("v4", a) \cap opened

RoutesFit ==
  \A path \in routes :
    /\ hint # none /\ Vetted
    /\ \/ Direct(hint) /\ path = <<hint>>
       \/ ~Direct(hint) /\ \E b \in Bridges(hint) : path = <<b, hint>>

ReceiptFits ==
  /\ booked # none => receipt # none
  /\ receipt # none =>
       /\ hint # none /\ Vetted
       /\ Direct(hint) => Len(receipt.paid) = 1
       /\ receipt.paid \in {<<last>> : last \in 1 .. 2} \cup ((1 .. 2) \X (1 .. 2))

RouteInv == TypeOK /\ StepFits /\ KnownFits /\ RoutesFit /\ ReceiptFits

LEMMA InitRoutes == Init => RouteInv
<1> SUFFICES ASSUME Init
             PROVE  RouteInv
  OBVIOUS
<1>1. TypeOK
  BY RoutesAssumption, WorldFacts DEF Init, TypeOK
<1> QED
  BY <1>1 DEF Init, RouteInv, StepFits, KnownFits, RoutesFit, ReceiptFits

-----------------------------------------------------------------------------
(* The chain.                                                              *)

LEMMA ChainRoutes ==
  ASSUME RouteInv, NEW p \in world, Open(p) \/ \E amount \in 0 .. MaxDepth : Flow(p, amount)
  PROVE  RouteInv'
<1> USE DEF RouteInv
<1>1. /\ UNCHANGED <<mode, world, swapOf, resolver, sale>> /\ opened \subseteq opened'
      /\ opened' \subseteq world /\ depth' \in [Pool -> 0 .. MaxDepth]
  BY WorldFacts DEF Open, Flow, TypeOK
<1>2. TypeOK'
  BY <1>1 DEF TypeOK
<1>3. StepFits' /\ RoutesFit' /\ ReceiptFits'
  BY <1>1 DEF StepFits, RoutesFit, ReceiptFits, Vetted, Direct, Other, Input, Bridges
<1>4. KnownFits'
  BY <1>1 DEF KnownFits, BridgesTo, Input
<1> QED
  BY <1>2, <1>3, <1>4

-----------------------------------------------------------------------------
(* resolve_pool.                                                           *)

LEMMA AskRoutes ==
  ASSUME RouteInv, NEW p \in world, Asks(p), UNCHANGED <<known, chain, sale>>,
         \/ Rejects("rejected") \/ Rejects("empty")
         \/ p.official /\ Token \in ToSet(p.pair) /\ Joins(p)
  PROVE  RouteInv'
<1> USE DEF RouteInv
<1>1. hint' = p /\ p \in Pool /\ p # none /\ routes = {} /\ step = "idle"
  BY WorldFacts, RoutesAssumption DEF Asks, TypeOK
<1>2. KnownFits'
  BY DEF KnownFits, BridgesTo, Input
<1>3. ReceiptFits'
  <2> SUFFICES ASSUME receipt # none
               PROVE  ReceiptFits'
    BY DEF ReceiptFits
  <2>1. hint' = hint
    BY DEF Asks
  <2> QED
    BY <2>1 DEF ReceiptFits, Vetted, Direct, Other, Input
<1>4. CASE Rejects("rejected") \/ Rejects("empty")
  <2>1. routes' = {} /\ step' = "idle" /\ verdict' \in {"rejected", "empty"}
    BY <1>1, <1>4 DEF Rejects
  <2> QED
    BY <1>1, <1>2, <1>3, <2>1 DEF TypeOK, StepFits, RoutesFit
<1>5. CASE p.official /\ Token \in ToSet(p.pair) /\ Joins(p)
  <2>1. Direct(hint)' <=> Direct(p)
    BY <1>1 DEF Direct, Other, Input
  <2>2. Vetted'
    BY <1>1, <1>5 DEF Vetted
  <2>3. CASE Direct(p)
    <3>1. routes' = {<<p>>} /\ verdict' = "routed" /\ step' = "idle"
      BY <1>1, <1>5, <2>3 DEF Joins
    <3> QED
      BY <1>1, <1>2, <1>3, <2>1, <2>2, <2>3, <3>1 DEF TypeOK, StepFits, RoutesFit
  <2>4. CASE ~Direct(p)
    <3>1. routes' = {} /\ verdict' = "none" /\ step' = "bridge"
      BY <1>1, <1>5, <2>4 DEF Joins
    <3> QED
      BY <1>1, <1>2, <1>3, <2>1, <2>2, <2>4, <3>1 DEF TypeOK, StepFits, RoutesFit
  <2> QED
    BY <2>3, <2>4
<1> QED
  BY <1>4, <1>5

LEMMA ResolveRoutes ==
  ASSUME RouteInv, NEW p \in world,
         ResolvePair(p) \/ \E keyed \in BOOLEAN : ResolveV4(p, keyed)
  PROVE  RouteInv'
<1>1. CASE ResolvePair(p)
  BY <1>1, AskRoutes DEF ResolvePair, Verified
<1>2. CASE \E keyed \in BOOLEAN : ResolveV4(p, keyed)
  BY <1>2, AskRoutes DEF ResolveV4, Verified
<1> QED
  BY <1>1, <1>2

\* Whichever bridges are kept, they are bridges.
LEMMA JoinedRoutes ==
  ASSUME RouteInv, step = "bridge", NEW kept \in SUBSET Bridges(hint), Joined(kept)
  PROVE  StepFits' /\ RoutesFit' /\ ReceiptFits' /\ verdict' \in {"unroutable", "routed"}
         /\ routes' \subseteq {<<b, hint>> : b \in world}
<1>1. /\ step' = "idle" /\ routes' = {<<b, hint>> : b \in kept}
      /\ verdict' \in {"unroutable", "routed"} /\ UNCHANGED <<hint, chain, sale>>
  BY DEF Joined
<1>2. hint # none /\ Vetted /\ ~Direct(hint)
  BY DEF RouteInv, StepFits
<1>3. /\ Vetted' <=> Vetted
      /\ Direct(hint)' <=> Direct(hint)
      /\ Bridges(hint)' = Bridges(hint)
  BY <1>1 DEF Vetted, Direct, Bridges, Other, Input
<1>4. RoutesFit'
  BY <1>1, <1>2, <1>3 DEF RoutesFit
<1>5. ReceiptFits'
  BY <1>1, <1>3 DEF RouteInv, ReceiptFits
<1> QED
  BY <1>1, <1>4, <1>5 DEF StepFits, Bridges

LEMMA JoinRoutes ==
  ASSUME RouteInv, JoinV2 \/ JoinV3
  PROVE  RouteInv'
<1>1. PICK kept \in SUBSET Bridges(hint) : Joined(kept)
  BY DEF JoinV2, JoinV3
<1>2. step = "bridge" /\ step' = "idle" /\ UNCHANGED <<known, hint, chain, sale>>
  BY DEF JoinV2, JoinV3, Joined
<1>3. KnownFits'
  BY <1>2 DEF RouteInv, KnownFits, BridgesTo, Input
<1> QED
  BY <1>1, <1>2, <1>3, JoinedRoutes DEF RouteInv, TypeOK

LEMMA ListedFacts ==
  ASSUME RouteInv, step = "bridge", hint.version = "v4",
         NEW listed, listed = IF known[Other(hint)] = none THEN Bridges(hint) \cap opened
                              ELSE known[Other(hint)]
  PROVE  Other(hint) \in Asset /\ listed \subseteq Bridges(hint) \cap opened
<1>1. hint \in Pool /\ Token \in ToSet(hint.pair)
  BY WorldFacts DEF RouteInv, TypeOK, StepFits, Vetted
<1>2. Other(hint) \in Asset
  BY <1>1, OtherFacts
<1>3. BridgesTo("v4", Other(hint)) = Bridges(hint)
  BY DEF BridgesTo, Bridges
<1> QED
  BY <1>2, <1>3 DEF RouteInv, KnownFits

LEMMA JoinV4Routes ==
  ASSUME RouteInv, NEW kept, JoinV4(kept)
  PROVE  RouteInv'
<1> DEFINE listed == IF known[Other(hint)] = none THEN Bridges(hint) \cap opened
                     ELSE known[Other(hint)]
<1>1. /\ step = "bridge" /\ hint.version = "v4" /\ kept \subseteq listed /\ Joined(kept)
      /\ known' = [known EXCEPT ![Other(hint)] = listed]
  BY DEF JoinV4, Keeps
<1>2. Other(hint) \in Asset /\ listed \subseteq Bridges(hint) \cap opened
  BY <1>1, ListedFacts
<1> HIDE DEF listed
<1>3. UNCHANGED <<hint, chain, sale>> /\ step' = "idle"
  BY <1>1 DEF Joined
<1>4. \A a \in Asset : known'[a] = IF a = Other(hint) THEN listed ELSE known[a]
  BY <1>1, <1>2 DEF RouteInv, TypeOK
<1>5. KnownFits'
  <2>1. \A a \in Asset : BridgesTo("v4", a)' = BridgesTo("v4", a)
    BY <1>3 DEF BridgesTo, Input
  <2>2. BridgesTo("v4", Other(hint)) = Bridges(hint)
    BY <1>1 DEF BridgesTo, Bridges
  <2> QED
    BY <1>2, <1>3, <1>4, <2>1, <2>2 DEF RouteInv, KnownFits
<1>6. known' \in [Asset -> {none} \cup SUBSET opened]
  BY <1>1, <1>2 DEF RouteInv, TypeOK
<1>7. kept \in SUBSET Bridges(hint)
  BY <1>1, <1>2
<1> QED
  BY <1>1, <1>3, <1>5, <1>6, <1>7, JoinedRoutes DEF RouteInv, TypeOK

LEMMA ForgetRoutes ==
  ASSUME RouteInv, Again \/ Restart
  PROVE  RouteInv'
<1>1. /\ UNCHANGED <<hint, chain, sale>> /\ routes' = {} /\ verdict' = "none"
      /\ known' \in [Asset -> {none} \cup SUBSET opened] /\ step' = "idle"
      /\ \A a \in Asset : known'[a] \in {none, known[a]}
  BY DEF Again, Restart, RouteInv, TypeOK, StepFits
<1>2. KnownFits'
  BY <1>1 DEF RouteInv, KnownFits, BridgesTo, Input
<1>3. ReceiptFits'
  BY <1>1 DEF RouteInv, ReceiptFits, Vetted, Direct, Other, Input
<1> QED
  BY <1>1, <1>2, <1>3 DEF RouteInv, TypeOK, StepFits, RoutesFit

-----------------------------------------------------------------------------
(* A sale.                                                                 *)

LEMMA RouteFacts ==
  ASSUME RouteInv, NEW path \in routes
  PROVE  /\ hint \in Pool /\ Vetted
         /\ \/ Len(path) = 1 /\ path = <<hint>> /\ Direct(hint)
            \/ /\ Len(path) = 2 /\ ~Direct(hint) /\ path[2] = hint
               /\ path[1] \in Bridges(hint) /\ path[1] \in Pool /\ path = <<path[1], hint>>
<1>1. hint \in Pool /\ Vetted
  BY WorldFacts DEF RouteInv, TypeOK, RoutesFit
<1>2. CASE Direct(hint) /\ path = <<hint>>
  BY <1>1, <1>2
<1>3. CASE ~Direct(hint) /\ \E b \in Bridges(hint) : path = <<b, hint>>
  <2>1. PICK b \in Bridges(hint) : path = <<b, hint>>
    BY <1>3
  <2>2. b \in Pool
    BY WorldFacts DEF RouteInv, TypeOK, Bridges
  <2> QED
    BY <1>1, <1>3, <2>1, <2>2
<1> QED
  BY <1>2, <1>3 DEF RouteInv, RoutesFit

LEMMA SellRoutes ==
  ASSUME RouteInv, NEW path \in routes, NEW first \in 1 .. 2, NEW last \in 1 .. 2,
         Sell(path, IF Len(path) = 1 THEN <<last>> ELSE <<first, last>>)
  PROVE  RouteInv'
<1> DEFINE amounts == IF Len(path) = 1 THEN <<last>> ELSE <<first, last>>
<1>1. /\ UNCHANGED <<booked, chain, resolver>>
      /\ receipt' = [pools |-> SellPath(path), paid |-> amounts]
      /\ Len(amounts) = Len(path) /\ receipt = none
  BY DEF Sell
<1>2. Len(SellPath(path)) = Len(path) /\ Len(path) \in 1 .. 2
  BY RouteFacts DEF SellPath, Reverse
<1>3. TypeOK'
  BY <1>1, <1>2 DEF RouteInv, TypeOK
<1>4. StepFits' /\ KnownFits' /\ RoutesFit'
  <2>0. UNCHANGED <<mode, world, hint, step, verdict, routes>>
    BY <1>1 DEF chain, resolver
  <2>1. StepFits' /\ RoutesFit'
    BY <2>0 DEF RouteInv, StepFits, RoutesFit, Vetted, Direct, Bridges, Other, Input
  <2>2. KnownFits'
    BY <1>1 DEF RouteInv, KnownFits, BridgesTo, Input
  <2> QED
    BY <2>1, <2>2
<1>5. hint # none /\ Vetted /\ (Direct(hint) => Len(path) = 1)
  BY RouteFacts, RoutesAssumption
<1>6. amounts \in {<<l>> : l \in 1 .. 2} \cup ((1 .. 2) \X (1 .. 2))
  OBVIOUS
<1>7. booked' = none
  BY <1>1 DEF RouteInv, ReceiptFits
<1> HIDE DEF amounts
<1>8. (Vetted' <=> Vetted) /\ (Direct(hint)' <=> Direct(hint)) /\ hint' = hint
  BY <1>1 DEF Vetted, Direct, Other, Input
<1>9. ReceiptFits'
  BY <1>1, <1>5, <1>6, <1>7, <1>8 DEF ReceiptFits
<1> QED
  BY <1>3, <1>4, <1>9 DEF RouteInv

\* The pool of the token has its other side where the code looks for it.
LEMMA OutIndexFacts ==
  ASSUME RouteInv, receipt # none, Direct(hint)
  PROVE  hint.pair[OutIndex(hint)] # Token
<1>1. hint \in Pool /\ Token \in ToSet(hint.pair)
  BY WorldFacts DEF RouteInv, TypeOK, ReceiptFits, Vetted
<1>2. {hint.pair[1], hint.pair[2]} = {Token, Input(hint.version)}
  BY <1>1, PairFacts, OtherFacts DEF Direct
<1>3. Input(hint.version) # Token
  BY InputFacts DEF RouteInv, TypeOK
<1>4. hint.pair[1] # hint.pair[2]
  BY <1>1, PairFacts
<1> QED
  BY <1>2, <1>3, <1>4 DEF OutIndex

LEMMA BookRoutes ==
  ASSUME RouteInv, Book
  PROVE  RouteInv'
<1>1. UNCHANGED <<receipt, chain, resolver>> /\ booked' = Proceeds /\ receipt # none
  BY DEF Book
<1>2. receipt.paid \in {<<last>> : last \in 1 .. 2} \cup ((1 .. 2) \X (1 .. 2))
  BY <1>1 DEF RouteInv, ReceiptFits
<1>3. receipt.paid[1] \in 0 .. 2 /\ Last(receipt.paid) \in 0 .. 2
  BY <1>2 DEF Last
<1>4. Change(OutIndex(hint)) \in {1, -receipt.paid[1]}
  BY DEF Change
<1>5. \A c \in {1, -1, receipt.paid[1], -receipt.paid[1]} : Loss(c) \in 0 .. 2
  BY <1>3 DEF Loss
<1>6. Proceeds \in 0 .. 2
  <2>1. PICK c \in {1, -receipt.paid[1]} : Change(OutIndex(hint)) = c
    BY <1>4
  <2>2. -c \in {-1, receipt.paid[1]}
    BY <1>3, <2>1
  <2>3. Loss(c) \in 0 .. 2 /\ Loss(-c) \in 0 .. 2
    BY <1>5, <2>1, <2>2
  <2> QED
    BY <1>3, <2>1, <2>3 DEF Proceeds
<1>7. TypeOK'
  BY <1>1, <1>6 DEF RouteInv, TypeOK
<1>8. UNCHANGED <<mode, world, opened, hint, step, verdict, routes, known, receipt>>
  BY <1>1 DEF chain, resolver
<1>9. StepFits' /\ RoutesFit'
  BY <1>8 DEF RouteInv, StepFits, RoutesFit, Vetted, Direct, Bridges, Other, Input
<1>10. KnownFits'
  BY <1>8 DEF RouteInv, KnownFits, BridgesTo, Input
<1>11. ReceiptFits'
  BY <1>1, <1>8 DEF RouteInv, ReceiptFits, Vetted, Direct, Other, Input
<1> QED
  BY <1>7, <1>9, <1>10, <1>11 DEF RouteInv

LEMMA NextRoutes == RouteInv /\ [Next]_vars => RouteInv'
<1> SUFFICES ASSUME RouteInv, [Next]_vars
             PROVE  RouteInv'
  OBVIOUS
<1>1. CASE \E p \in world : Open(p) \/ \E amount \in 0 .. MaxDepth : Flow(p, amount)
  BY <1>1, ChainRoutes
<1>2. CASE \E p \in world : ResolvePair(p) \/ \E keyed \in BOOLEAN : ResolveV4(p, keyed)
  BY <1>2, ResolveRoutes
<1>3. CASE JoinV2 \/ JoinV3
  BY <1>3, JoinRoutes
<1>4. CASE \E kept \in SUBSET world : JoinV4(kept)
  BY <1>4, JoinV4Routes
<1>5. CASE Again \/ Restart
  BY <1>5, ForgetRoutes
<1>6. CASE \E path \in routes, first, last \in 1 .. 2 :
             Sell(path, IF Len(path) = 1 THEN <<last>> ELSE <<first, last>>)
  BY <1>6, SellRoutes
<1>7. CASE Book
  BY <1>7, BookRoutes
<1>8. CASE UNCHANGED vars
  <2>1. TypeOK'
    BY <1>8 DEF RouteInv, TypeOK
  <2>2. StepFits' /\ RoutesFit' /\ ReceiptFits'
    BY <1>8 DEF RouteInv, StepFits, RoutesFit, ReceiptFits, Vetted, Direct, Bridges, Other, Input
  <2>3. KnownFits'
    BY <1>8 DEF RouteInv, KnownFits, BridgesTo, Input
  <2> QED
    BY <2>1, <2>2, <2>3 DEF RouteInv
<1> QED
  BY <1>1, <1>2, <1>3, <1>4, <1>5, <1>6, <1>7, <1>8 DEF Next

\* The inductive invariant: what is kept was vetted, and what is cached are bridges,
\* whatever is asked for in between (resolve_pool, _v4_pair_cache).
THEOREM RouteInvariant == Spec => []RouteInv
BY InitRoutes, NextRoutes, PTL DEF Spec

\* Every entry of the resolver and of a sale keeps its type.
THEOREM TypeCorrect == Spec => []TypeOK
<1>1. RouteInv => TypeOK
  BY DEF RouteInv
<1> QED
  BY <1>1, RouteInvariant, PTL

-----------------------------------------------------------------------------
(* Where routes lead.                                                      *)

LEMMA LeadsDirect ==
  ASSUME NEW p \in Pool, NEW from \in Asset, NEW to \in Asset, from # to,
         ToSet(p.pair) = {from, to}
  PROVE  Leads(<<p>>, from, to)
<1> DEFINE asset == [i \in 0 .. 1 |-> IF i = 0 THEN from ELSE to]
<1>1. asset \in [0 .. Len(<<p>>) -> Asset] /\ asset[0] = from /\ asset[Len(<<p>>)] = to
  OBVIOUS
<1>2. \A i \in 1 .. Len(<<p>>) :
        asset[i - 1] # asset[i] /\ ToSet(<<p>>[i].pair) = {asset[i - 1], asset[i]}
  <2> SUFFICES ASSUME NEW i \in 1 .. 1
               PROVE  asset[i - 1] # asset[i] /\ ToSet(<<p>>[i].pair) = {asset[i - 1], asset[i]}
    OBVIOUS
  <2>1. i = 1 /\ asset[0] = from /\ asset[1] = to /\ <<p>>[1] = p
    OBVIOUS
  <2> QED
    BY <2>1
<1> HIDE DEF asset
<1> QED
  BY <1>1, <1>2 DEF Leads

LEMMA LeadsOver ==
  ASSUME NEW p \in Pool, NEW q \in Pool, NEW from \in Asset, NEW over \in Asset, NEW to \in Asset,
         from # over, over # to, ToSet(p.pair) = {from, over}, ToSet(q.pair) = {over, to}
  PROVE  Leads(<<p, q>>, from, to)
<1> DEFINE asset == [i \in 0 .. 2 |-> IF i = 0 THEN from ELSE IF i = 1 THEN over ELSE to]
<1>1. asset \in [0 .. Len(<<p, q>>) -> Asset] /\ asset[0] = from /\ asset[Len(<<p, q>>)] = to
  OBVIOUS
<1>2. \A i \in 1 .. Len(<<p, q>>) :
        asset[i - 1] # asset[i] /\ ToSet(<<p, q>>[i].pair) = {asset[i - 1], asset[i]}
  <2> SUFFICES ASSUME NEW i \in 1 .. 2
               PROVE  /\ asset[i - 1] # asset[i]
                      /\ ToSet(<<p, q>>[i].pair) = {asset[i - 1], asset[i]}
    OBVIOUS
  <2>1. /\ asset[0] = from /\ asset[1] = over /\ asset[2] = to
        /\ <<p, q>>[1] = p /\ <<p, q>>[2] = q
    OBVIOUS
  <2>2. CASE i = 1
    BY <2>1, <2>2
  <2>3. CASE i = 2
    BY <2>1, <2>3
  <2> QED
    BY <2>2, <2>3
<1> HIDE DEF asset
<1> QED
  BY <1>1, <1>2 DEF Leads

\* What is traded on leads through vetted pools of one protocol from the input
\* asset to the token and back, for any number of pools and assets
\* (resolve_pool, _discover_v3_bridge_routes, _resolve_v4).
THEOREM RoutesAlwaysLead == Spec => []RoutesLead
<1>1. RouteInv => RoutesLead
  <2> SUFFICES ASSUME RouteInv, NEW path \in routes
               PROVE  /\ Last(path) = hint
                      /\ \A p \in ToSet(path) : p.official /\ p.version = hint.version
                      /\ Leads(path, Input(hint.version), Token)
                      /\ Leads(SellPath(path), Token, Input(hint.version))
    BY DEF RoutesLead
  <2>1. /\ hint \in Pool /\ hint.official
        /\ ToSet(hint.pair) = {Token, Other(hint)} /\ Other(hint) # Token
        /\ Other(hint) \in Asset /\ Token \in Asset /\ Input(hint.version) # Token
    BY RouteFacts, OtherFacts, InputFacts DEF Vetted, RouteInv, TypeOK
  <2>2. CASE path = <<hint>> /\ Direct(hint)
    <3>1. Input(hint.version) \in Asset /\ ToSet(hint.pair) = {Token, Input(hint.version)}
      BY <2>1, <2>2 DEF Direct
    <3>2. SellPath(path) = <<hint>>
      BY <2>2 DEF SellPath, Reverse
    <3>3. Last(path) = hint /\ ToSet(path) = {hint}
      BY <2>2 DEF Last, ToSet
    <3> QED
      BY <2>1, <2>2, <3>1, <3>2, <3>3, LeadsDirect
  <2>3. CASE ~Direct(hint) /\ path[1] \in Bridges(hint) /\ path = <<path[1], hint>>
    <3>1. PICK b \in Pool : b \in Bridges(hint) /\ path = <<b, hint>>
      BY <2>3, WorldFacts DEF RouteInv, TypeOK, Bridges
    <3>2. /\ b.official /\ b.version = hint.version
          /\ ToSet(b.pair) = {Input(hint.version), Other(hint)}
          /\ Input(hint.version) # Other(hint)
      BY <2>3, <3>1 DEF Bridges, Direct
    <3>3. Input(hint.version) \in Asset
      BY <3>2, PairFacts
    <3>4. SellPath(path) = <<hint, b>>
      BY <3>1 DEF SellPath, Reverse
    <3>5. Last(path) = hint /\ ToSet(path) = {b, hint}
      BY <3>1 DEF Last, ToSet
    <3>6. Leads(<<b, hint>>, Input(hint.version), Token)
      BY <2>1, <3>2, <3>3, LeadsOver
    <3>7. Leads(<<hint, b>>, Token, Input(hint.version))
      BY <2>1, <3>2, <3>3, LeadsOver
    <3> QED
      BY <2>1, <3>1, <3>2, <3>4, <3>5, <3>6, <3>7
  <2> QED
    BY <2>2, <2>3, RouteFacts
<1> QED
  BY <1>1, RouteInvariant, PTL

-----------------------------------------------------------------------------
(* What is left out.                                                       *)

LEMMA JoinsTheBest ==
  ASSUME RouteInv, [Next]_vars, step = "bridge", verdict' # "none",
         NEW b \in Bridges(hint) \cap opened
  PROVE  \/ <<b, hint>> \in routes'
         \/ hint.version \in {"v2", "v4"} /\ depth[b] = 0
         \/ hint.version = "v4" /\ b \notin known'[Other(hint)]
         \/ hint.version = "v4" /\ MaxCandidates =
              Cardinality({c \in Bridges(hint) : <<c, hint>> \in routes' /\ depth[c] >= depth[b]})
<1>1. verdict = "none" /\ routes = {}
  BY DEF RouteInv, StepFits
<1>2. depth[b] \in Nat
  BY WorldFacts, RoutesAssumption DEF RouteInv, TypeOK, Bridges
<1>3. CASE JoinV2
  BY <1>2, <1>3 DEF JoinV2, Joined
<1>4. CASE JoinV3
  BY <1>4 DEF JoinV3, Joined
<1>5. ASSUME NEW kept \in SUBSET world, JoinV4(kept),
             <<b, hint>> \notin routes', depth[b] # 0, b \in known'[Other(hint)]
      PROVE  MaxCandidates =
               Cardinality({c \in Bridges(hint) : <<c, hint>> \in routes' /\ depth[c] >= depth[b]})
  <2> DEFINE listed == IF known[Other(hint)] = none THEN Bridges(hint) \cap opened
                       ELSE known[Other(hint)]
             liquid == {c \in listed : depth[c] > 0}
  <2>1. /\ Keeps(kept, listed) /\ known' = [known EXCEPT ![Other(hint)] = listed]
        /\ routes' = {<<c, hint>> : c \in kept} /\ hint.version = "v4"
    BY <1>5 DEF JoinV4, Joined
  <2>2. Other(hint) \in Asset /\ listed \subseteq Bridges(hint) \cap opened
    BY <2>1, ListedFacts
  <2>3. b \in liquid \ kept
    BY <1>2, <1>5, <2>1, <2>2 DEF RouteInv, TypeOK
  <2>4. Cardinality(kept) = MaxCandidates /\ \A c \in kept : depth[b] <= depth[c]
    BY <2>1, <2>3 DEF Keeps
  <2>5. {c \in Bridges(hint) : <<c, hint>> \in routes' /\ depth[c] >= depth[b]} = kept
    <3>1. kept \subseteq Bridges(hint)
      BY <2>1, <2>2 DEF Keeps
    <3>2. \A c : <<c, hint>> \in routes' <=> c \in kept
      BY <2>1
    <3> HIDE DEF listed
    <3> QED
      BY <2>4, <3>1, <3>2
  <2> QED
    BY <2>4, <2>5
<1>6. ASSUME NEW kept \in SUBSET world, JoinV4(kept)
      PROVE  hint.version = "v4"
  BY <1>6 DEF JoinV4
<1>7. (JoinV2 \/ JoinV3) \/ \E kept \in SUBSET world : JoinV4(kept)
  BY <1>1 DEF Next, Open, Flow, ResolvePair, ResolveV4, Asks, Again, Restart, Sell, Book
<1> QED
  BY <1>3, <1>4, <1>5, <1>6, <1>7

\* A bridge is left out only without liquidity, if it came after the list of its
\* pair was cached, or for as many that are as deep, whichever pools were asked
\* for before (_discover_v4_keys_between).
THEOREM NoneBetter == Spec => NoBetterBridge
<1>1. RouteInv /\ [Next]_vars =>
        [step = "bridge" /\ verdict' # "none" =>
           \A b \in Bridges(hint) \cap opened :
             \/ <<b, hint>> \in routes'
             \/ hint.version \in {"v2", "v4"} /\ depth[b] = 0
             \/ hint.version = "v4" /\ b \notin known'[Other(hint)]
             \/ hint.version = "v4" /\ MaxCandidates =
                  Cardinality({c \in Bridges(hint) :
                                 <<c, hint>> \in routes' /\ depth[c] >= depth[b]})]_vars
  BY JoinsTheBest
<1> QED
  BY <1>1, RouteInvariant, PTL DEF Spec, NoBetterBridge

-----------------------------------------------------------------------------
(* What is booked.                                                         *)

LEMMA NextBooked ==
  ASSUME RouteInv, BookedIsReceived, [Next]_vars
  PROVE  BookedIsReceived'
<1>1. CASE Book
  <2> DEFINE unseen == mode = "ETH" /\ hint.version = "v4" /\ swapOf = "swapper"
  <2> SUFFICES ASSUME mode = "USD" \/ hint.version = "v3" \/ Direct(hint)
               PROVE  Proceeds = IF unseen THEN 0 ELSE Last(receipt.paid)
    BY <1>1 DEF Book, BookedIsReceived, Direct, Other, Input
  <2>1. CASE mode = "USD" \/ hint.version = "v3"
    BY <2>1 DEF Proceeds
  <2>2. CASE Direct(hint) /\ mode # "USD" /\ hint.version # "v3"
    <3>1. Len(receipt.paid) = 1 /\ hint.pair[OutIndex(hint)] # Token
      BY <1>1, <2>2, OutIndexFacts DEF Book, RouteInv, ReceiptFits
    <3>2. receipt.paid[1] \in 1 .. 2 /\ Last(receipt.paid) = receipt.paid[1]
      BY <1>1, <3>1 DEF Book, RouteInv, ReceiptFits, Last
    <3>3. Change(OutIndex(hint)) = -receipt.paid[1]
      BY <3>1 DEF Change
    <3>4. mode = "ETH"
      BY <2>2 DEF RouteInv, TypeOK
    <3> QED
      BY <2>2, <3>2, <3>3, <3>4 DEF Proceeds, Loss
  <2> QED
    BY <2>1, <2>2
<1>2. CASE booked' = none
  BY <1>2 DEF BookedIsReceived
<1>3. CASE UNCHANGED <<mode, swapOf, receipt, booked, hint>>
  BY <1>3 DEF BookedIsReceived, Direct, Other, Input
<1>4. booked' = none \/ UNCHANGED <<mode, swapOf, receipt, booked, hint>> \/ Book
  <2>1. \A p \in world : Asks(p) => receipt = none \/ hint' = hint
    BY DEF Asks
  <2>2. booked # none => receipt # none
    BY DEF RouteInv, ReceiptFits
  <2> QED
    BY <2>1, <2>2 DEF Next, Open, Flow, ResolvePair, ResolveV4, JoinV2, JoinV3, JoinV4, Joined,
       Again, Restart, Sell
<1> QED
  BY <1>1, <1>2, <1>3, <1>4

\* The proceeds that are read from a receipt are what the wallet received, for any
\* pool whose other side is the input asset, for V3 and in USD, on whichever side of
\* its pair the token is; but nothing for a V4 sale in ETH, if the event states the
\* swapper's gain (parse_actual_sell_proceeds).
THEOREM ProceedsAreReceived == Spec => []BookedIsReceived
<1>1. Init => BookedIsReceived
  BY DEF Init, BookedIsReceived
<1>2. RouteInv /\ BookedIsReceived /\ [Next]_vars => BookedIsReceived'
  BY NextBooked
<1> QED
  BY <1>1, <1>2, RouteInvariant, PTL DEF Spec

=============================================================================
