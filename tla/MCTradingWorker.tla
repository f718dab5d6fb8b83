-------------------------- MODULE MCTradingWorker ---------------------------
(* The values of TradingWorker's constants for TLC.                        *)
EXTENDS TradingWorker

CONSTANTS coin, gem   \* model values

TwoTokens == [e \in 1 .. 2 |-> IF e = 1 THEN coin ELSE gem]
OneToken == [e \in 1 .. 2 |-> coin]
OneEvent == [e \in 1 .. 1 |-> coin]
=============================================================================
