---------------------------- MODULE SkillShuffle -----------------------------
(***************************************************************************)
(* The order in which the skills of a team come (skill_shuffle.rs): the    *)
(* game shuffles the places at which the cards are shown, with weights     *)
(* that are not equal; the card in the middle is the captain, whose skill  *)
(* comes again at the end.                                                 *)
(***************************************************************************)
EXTENDS TeamModes

CONSTANT ShuffleWeight   \* of the 1024 paths, those to each order of the shown places

Turns == {p \in [Places -> Places] : \A i, j \in Places : i # j => p[i] # p[j]}

ASSUME ShuffleAssumption ==
    ShuffleWeight \in [Turns -> Nat] /\ \E p \in Turns : ShuffleWeight[p] > 0

(* SHUFFLE_PATH_COUNT *)
PathCount == MapThenSumSet(LAMBDA turn : ShuffleWeight[turn], Turns)

CaptainSlot == (TeamSize + 1) \div 2

(* layout[p] is the card shown at p. *)
DisplayLayouts(team) == {f \in [Places -> team] : \A p, q \in Places : p # q => f[p] # f[q]}

OrderOf(layout, turn) == [p \in Places |-> layout[turn[p]]]

=============================================================================
