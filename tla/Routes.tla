-------------------------------- MODULE Routes ------------------------------
(***************************************************************************)
(* The routes of pools.py: the pool that a signal names is verified and    *)
(* joined to the asset that is paid with, directly or over one pool of the *)
(* same protocol; then the proceeds that uniswap.py reads from the receipt *)
(* of a sale.  Pools are opened, and liquidity comes and goes, between any *)
(* two reads.  What an endpoint may do to a read is in Watch.              *)
(***************************************************************************)
EXTENDS Integers, FiniteSets, Sequences, SequencesExt

CONSTANTS
  Worlds,         \* the sets of pools in play together: records with the
                  \* fields id, version, pair and official (made by the
                  \* official factory; for V4, the key has the pool's id)
  MaxDepth,       \* bounds the liquidity of a pool
  MaxCandidates,  \* MAX_V4_BRIDGE_CANDIDATES
  none            \* a model value

Pool == UNION Worlds
Asset == UNION {ToSet(p.pair) : p \in Pool}
Token == "token"

ASSUME RoutesAssumption ==
  /\ \A p \in Pool :
       /\ p.version \in {"v2", "v3", "v4"} /\ p.official \in BOOLEAN
       /\ p.pair \in Asset \X Asset /\ p.pair[1] # p.pair[2]
  /\ none \notin Pool
  /\ MaxDepth \in Nat \ {0}
  /\ MaxCandidates \in Nat \ {0}

VARIABLES
  mode,     \* settings.amount_mode
  world,    \* the pools that exist or may be opened
  opened,   \* those that were
  swapOf,   \* whose gain a V4 Swap event states, the "pool" or the "swapper": the
            \* code takes it for the pool's, and nothing beside it says so
  depth,    \* the reserves or the liquidity of each, 0 if it has none
  hint,     \* the pool that the signal names
  step,     \* of resolve_pool: "idle" or "bridge"
  verdict,  \* how the last resolve_pool ended; "unroutable" is ROUTE_NOT_FOUND
            \* or ROUTE_HAS_NO_RESERVES
  routes,   \* the entry of the position: its candidates, as paths of a buy
  known,    \* _v4_pair_cache, by the asset that is joined to the input asset
  receipt,  \* of the sale
  booked    \* the proceeds that the position is closed with

chain == <<mode, world, swapOf, opened, depth>>
resolver == <<hint, step, verdict, routes, known>>
sale == <<receipt, booked>>
vars == <<chain, resolver, sale>>

Init ==
  /\ mode \in {"ETH", "USD"}
  /\ world \in Worlds
  /\ swapOf \in {"pool", "swapper"}
  /\ opened \in SUBSET world
  /\ depth = [p \in Pool |-> IF p \in opened THEN 1 ELSE 0]
  /\ hint = none /\ step = "idle" /\ verdict = "none"
  /\ routes = {} /\ known = [a \in Asset |-> none]
  /\ receipt = none /\ booked = none

-----------------------------------------------------------------------------
(* The chain.                                                              *)

Open(p) ==
  /\ p \in world \ opened
  /\ opened' = opened \cup {p}
  /\ UNCHANGED <<mode, world, swapOf, depth, resolver, sale>>

Flow(p, amount) ==
  /\ p \in opened /\ amount # depth[p]
  /\ depth' = [depth EXCEPT ![p] = amount]
  /\ UNCHANGED <<mode, world, swapOf, opened, resolver, sale>>

-----------------------------------------------------------------------------
(* resolve_pool.                                                           *)

Input(version) ==
  CASE mode = "USD" -> "usd"
    [] mode = "ETH" -> IF version = "v4" THEN "eth" ELSE "weth"

Other(p) == CHOOSE asset \in ToSet(p.pair) : asset # Token

Direct(p) == Other(p) = Input(p.version)

\* The pools of p's protocol between the input asset and p, whether opened or not.
Bridges(p) ==
  {b \in world : /\ b.version = p.version /\ b.official
                 /\ ToSet(b.pair) = {Input(p.version), Other(p)}}

\* Mutant: any contract that looks like a pool will do.
VerifiedByShape(p, keyed) == (keyed \/ p \in opened) /\ Token \in ToSet(p.pair)

\* A V4 pool whose key is in the signal only has to have the key's id; V2 and V3
\* pools have to be there.
Verified(p, keyed) ==
  /\ keyed \/ p \in opened
  /\ p.official
  /\ Token \in ToSet(p.pair)

\* For a buy the pool is resolved in every round; for a position, in the first
\* round of a process that asks for it, be it after the sale to read the receipt.
Asks(p) ==
  /\ step = "idle" /\ routes = {}
  /\ receipt # none => p = hint /\ booked = none /\ mode = "ETH"
  /\ hint' = p

Rejects(code) == verdict' = code /\ UNCHANGED <<step, routes>>

Joins(p) ==
  IF Direct(p)
  THEN verdict' = "routed" /\ routes' = {<<p>>} /\ UNCHANGED step
  ELSE verdict' = "none" /\ step' = "bridge" /\ UNCHANGED routes

ResolvePair(p) ==
  /\ p.version # "v4" /\ Asks(p)
  /\ CASE ~Verified(p, FALSE)                                       -> Rejects("rejected")
       [] Verified(p, FALSE) /\ p.version = "v2" /\ depth[p] = 0 -> Rejects("empty")
       [] OTHER                                                    -> Joins(p)
  /\ UNCHANGED <<known, chain, sale>>

ResolveV4(p, keyed) ==
  /\ p.version = "v4" /\ Asks(p)
  /\ IF Verified(p, keyed) THEN Joins(p) ELSE Rejects("rejected")
  /\ UNCHANGED <<known, chain, sale>>

\* Mutant: the first pools that are listed are kept, whatever their liquidity.
KeepsAny(kept, listed) ==
  /\ kept \subseteq {b \in listed : depth[b] > 0}
  /\ Cardinality(kept) <= MaxCandidates
  /\ kept = {} => \A b \in listed : depth[b] = 0

\* The MaxCandidates deepest of those that have liquidity.
Keeps(kept, listed) ==
  LET liquid == {b \in listed : depth[b] > 0}
  IN  /\ kept \subseteq liquid
      /\ Cardinality(kept) <= MaxCandidates
      /\ kept # liquid => Cardinality(kept) = MaxCandidates
      /\ \A b \in kept, c \in liquid \ kept : depth[c] <= depth[b]

Joined(kept) ==
  /\ step' = "idle"
  /\ routes' = {<<b, hint>> : b \in kept}
  /\ verdict' = IF kept = {} THEN "unroutable" ELSE "routed"
  /\ UNCHANGED <<hint, chain, sale>>

\* The pair, if it has reserves.
JoinV2 ==
  /\ step = "bridge" /\ hint.version = "v2"
  /\ Joined({b \in Bridges(hint) \cap opened : depth[b] > 0})
  /\ UNCHANGED known

\* Every tier.
JoinV3 ==
  /\ step = "bridge" /\ hint.version = "v3"
  /\ Joined(Bridges(hint) \cap opened)
  /\ UNCHANGED known

\* The best of a list that is fetched once.
JoinV4(kept) ==
  LET pair == Other(hint)
      listed == IF known[pair] = none THEN Bridges(hint) \cap opened ELSE known[pair]
  IN  /\ step = "bridge" /\ hint.version = "v4"
      /\ Keeps(kept, listed)
      /\ Joined(kept)
      /\ known' = [known EXCEPT ![pair] = listed]

\* The next round of a buy, or the next signal, resolves anew.
Again ==
  /\ routes # {} /\ receipt = none
  /\ routes' = {} /\ verdict' = "none"
  /\ UNCHANGED <<hint, step, known, chain, sale>>

Restart ==
  /\ step' = "idle" /\ verdict' = "none"
  /\ routes' = {} /\ known' = [a \in Asset |-> none]
  /\ UNCHANGED <<hint, chain, sale>>

-----------------------------------------------------------------------------
(* A sale.                                                                 *)

\* Mutant: a sell goes the way of the buy.
SellPathOfBuy(path) == path

SellPath(path) == Reverse(path)

\* The path that was quoted best; each of its pools says what it paid out, the
\* last one in the input asset.
Sell(path, amounts) ==
  /\ path \in routes /\ receipt = none
  /\ \A p \in ToSet(path) : p \in opened /\ depth[p] > 0
  /\ Len(amounts) = Len(path)
  /\ receipt' = [pools |-> SellPath(path), paid |-> amounts]
  /\ UNCHANGED <<booked, chain, resolver>>

\* Mutant: the output is taken for the other side of the pair.
OutIndexSwapped(p) ==
  IF p.version = "v2" THEN (IF p.pair[1] = Input("v2") THEN 2 ELSE 1)
                      ELSE (IF p.pair[1] = Token THEN 1 ELSE 2)

OutIndex(p) ==
  IF p.version = "v2" THEN (IF p.pair[1] = Input("v2") THEN 1 ELSE 2)
                      ELSE (IF p.pair[1] = Token THEN 2 ELSE 1)

\* Mutant: every swap of the transaction is counted.
ProceedsOfAllPools == FoldLeft(LAMBDA sum, out : sum + out, 0, receipt.paid)

\* What the sale changed in the pool of the signal, of the asset on one side: it
\* took the tokens, one unit of them, and paid out the other asset.
Change(i) == IF hint.pair[i] = Token THEN 1 ELSE -receipt.paid[1]

\* Only a loss is counted.
Loss(change) == IF change < 0 THEN -change ELSE 0

\* The transfers to the wallet in USD, the router's withdrawal of WETH for V3;
\* else what the event of the signal's pool states as paid out on one side.
Proceeds ==
  LET change == Change(OutIndex(hint))
  IN  IF mode = "USD" \/ hint.version = "v3"
      THEN Last(receipt.paid)
      ELSE Loss(IF hint.version = "v4" /\ swapOf = "swapper" THEN -change ELSE change)

\* Only proceeds in USD are read without the entry of the pool.
Book ==
  /\ receipt # none /\ booked = none
  /\ mode = "USD" \/ routes # {}
  /\ booked' = Proceeds
  /\ UNCHANGED <<receipt, chain, resolver>>

-----------------------------------------------------------------------------
Next ==
  \/ \E p \in world : Open(p) \/ \E amount \in 0 .. MaxDepth : Flow(p, amount)
  \/ \E p \in world : ResolvePair(p) \/ \E keyed \in BOOLEAN : ResolveV4(p, keyed)
  \/ JoinV2
  \/ JoinV3
  \/ \E kept \in SUBSET world : JoinV4(kept)
  \/ Again
  \/ Restart
  \/ \E path \in routes, first, last \in 1 .. 2 :
       Sell(path, IF Len(path) = 1 THEN <<last>> ELSE <<first, last>>)
  \/ Book

Spec == Init /\ [][Next]_vars

TypeOK ==
  /\ mode \in {"ETH", "USD"}
  /\ world \in Worlds
  /\ swapOf \in {"pool", "swapper"}
  /\ opened \subseteq world
  /\ depth \in [Pool -> 0 .. MaxDepth]
  /\ hint \in world \cup {none}
  /\ step \in {"idle", "bridge"}
  /\ verdict \in {"none", "rejected", "empty", "unroutable", "routed"}
  /\ routes \subseteq {<<hint>>} \cup {<<b, hint>> : b \in world}
  /\ known \in [Asset -> {none} \cup SUBSET opened]
  /\ receipt = none \/ (Len(receipt.pools) \in 1 .. 2 /\ Len(receipt.paid) = Len(receipt.pools))
  /\ booked \in {none} \cup 0 .. 2

-----------------------------------------------------------------------------
\* A trade through these pools, one after the other, turns one asset into another.
Leads(path, from, to) ==
  \E asset \in [0 .. Len(path) -> Asset] :
    /\ asset[0] = from /\ asset[Len(path)] = to
    /\ \A i \in 1 .. Len(path) :
         asset[i - 1] # asset[i] /\ ToSet(path[i].pair) = {asset[i - 1], asset[i]}

\* What is traded on leads, through official pools of one protocol, from the
\* input asset to the token and from the token back, and the pool of the signal
\* is the one beside the token (resolve_pool, _discover_v3_bridge_routes,
\* _resolve_v4, _v4_path).
RoutesLead ==
  \A path \in routes :
    /\ Last(path) = hint
    /\ \A p \in ToSet(path) : p.official /\ p.version = hint.version
    /\ Leads(path, Input(hint.version), Token)
    /\ Leads(SellPath(path), Token, Input(hint.version))

\* A bridge that is there is left out of the candidates only if it has no
\* liquidity, or was opened after this process first listed its pair, or if as
\* many as are kept are at least as deep (_discover_v4_keys_between): a pool is
\* given up as ROUTE_NOT_FOUND for no other reason.
NoBetterBridge ==
  [][step = "bridge" /\ verdict' # "none" =>
       \A b \in Bridges(hint) \cap opened :
         \/ <<b, hint>> \in routes'
         \/ hint.version \in {"v2", "v4"} /\ depth[b] = 0
         \/ hint.version = "v4" /\ b \notin known'[Other(hint)]
         \/ hint.version = "v4" /\ MaxCandidates =
              Cardinality({c \in Bridges(hint) : <<c, hint>> \in routes' /\ depth[c] >= depth[b]})]_vars

\* The proceeds that are read from a receipt are what the wallet received, on a
\* pool that trades the input asset itself, through V3, and in USD, or nothing, and
\* nothing only of a V4 sale in ETH whose event states the swapper's gain: never
\* another amount (parse_actual_sell_proceeds).  Of nothing the worker makes a stuck
\* position; bridged V2 and V4 sales in ETH are read in another asset's units, or as
\* nothing.
BookedIsReceived ==
  booked # none /\ (mode = "USD" \/ hint.version = "v3" \/ Direct(hint)) =>
    booked = IF mode = "ETH" /\ hint.version = "v4" /\ swapOf = "swapper"
             THEN 0
             ELSE Last(receipt.paid)

\* A sale of which the receipt is there is not refused for what has become of its
\* pool: a restart "may verify the pool's context again to read what a sale
\* brought" (docs/ARCHITECTURE.md:32).
SoldIsReadable ==
  receipt # none /\ booked = none => verdict \notin {"rejected", "empty", "unroutable"}
=============================================================================
