--------------------------- MODULE TradeLifecycle ---------------------------
(***************************************************************************)
(* What the worker promises of each accepted signal, whatever its rows say *)
(* in between: one life that ends once.                                    *)
(***************************************************************************)
EXTENDS Naturals, FiniteSets

CONSTANTS
  Trade,     \* the signals that may be accepted
  MaxOpen    \* how many may be held, or be on their way to it, at a time

VARIABLES
  stage,     \* where each trade is in its life
  single     \* is this a session of a single buy?

\* The stages that may follow a stage.  "buying" is entered once and "void" and
\* "gone" are never left; "stuck" may be held again, or sold by hand.
Life == [unknown |-> {"new"},
         new     |-> {"buying", "void"},
         buying  |-> {"held", "void"},
         held    |-> {"selling", "stuck", "gone"},
         selling |-> {"held", "stuck", "gone"},
         stuck   |-> {"held", "gone"},
         gone    |-> {},
         void    |-> {}]

Stage == DOMAIN Life
At(stages) == {t \in Trade : stage[t] \in stages}

Init ==
  /\ stage = [t \in Trade |-> "unknown"]
  /\ single \in BOOLEAN

\* One buy at a time, into a free slot, and only the first one of a session.
Room ==
  /\ At({"buying"}) = {}
  /\ Cardinality(At({"held", "selling", "stuck"})) < MaxOpen
  /\ single => At({"held", "selling", "stuck", "gone"}) = {}

Advance(t) ==
  /\ stage'[t] \in Life[stage[t]]
  /\ stage' = [stage EXCEPT ![t] = stage'[t]]
  /\ stage'[t] = "buying" => Room
  /\ UNCHANGED single

Next == \E t \in Trade : Advance(t)

Spec == Init /\ [][Next]_<<stage, single>>
=============================================================================
