---------------------------- MODULE MCSubmission ----------------------------
(* The values of Submission's constants for TLC: a buy in ETH, which needs *)
(* no approval, a sell through V4, which needs two, and one through V2 or  *)
(* V3, which needs one.                                                    *)
EXTENDS Submission

CONSTANTS buy, sell, other   \* model values

BuyAndSell == [e \in {buy, sell} |-> IF e = buy THEN <<>> ELSE <<"erc20", "permit2">>]
TwoSells == [e \in {sell, other} |-> IF e = other THEN <<"erc20">> ELSE <<"erc20", "permit2">>]
=============================================================================
