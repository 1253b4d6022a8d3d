----------------------------- MODULE LatestWins -----------------------------
(***************************************************************************)
(* What a display promises that asks a server questions and draws the       *)
(* answers: a new question replaces the one that waits, only the question   *)
(* that waits is ever answered, and what is drawn stays until then.         *)
(* CoverageClient implements it.                                            *)
(***************************************************************************)
CONSTANT Questions

VARIABLES
  pending,  \* the question that waits for its answer; {} if none does
  shown     \* the question whose answer is drawn; {} before the first

Init == pending = {} /\ shown = {}

Ask(q) == pending' = {q} /\ UNCHANGED shown

Show == pending # {} /\ shown' = pending /\ pending' = {}

Lose == pending # {} /\ pending' = {} /\ UNCHANGED shown

Next == (\E q \in Questions : Ask(q)) \/ Show \/ Lose

Spec == Init /\ [][Next]_<<pending, shown>>
=============================================================================
