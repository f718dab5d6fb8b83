------------------------------- MODULE MCRoutes -----------------------------
(* The values of Routes' constants for TLC: for each protocol a pool that  *)
(* trades the input asset and one that does not (in USD the other way      *)
(* round), their bridges, and one that no factory made, or whose key does  *)
(* not have its id.                                                        *)
EXTENDS Routes

P(id, version, first, second, official) ==
  [id |-> id, version |-> version, pair |-> <<first, second>>, official |-> official]

V2 == {P(1, "v2", "token", "weth", TRUE), P(2, "v2", "token", "usd", TRUE),
       P(3, "v2", "usd", "weth", TRUE), P(4, "v2", "usd", "token", FALSE)}
V3 == {P(1, "v3", "token", "weth", TRUE), P(2, "v3", "usd", "token", TRUE),
       P(3, "v3", "usd", "weth", TRUE), P(4, "v3", "usd", "weth", TRUE)}
V4 == {P(2, "v4", "token", "usd", TRUE), P(3, "v4", "eth", "usd", TRUE),
       P(4, "v4", "eth", "usd", TRUE), P(5, "v4", "eth", "usd", TRUE)}
V4Direct == {P(1, "v4", "eth", "token", TRUE), P(3, "v4", "eth", "usd", TRUE),
             P(6, "v4", "eth", "token", FALSE)}
Protocols == {V2, V3, V4, V4Direct}
=============================================================================
