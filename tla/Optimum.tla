------------------------------- MODULE Optimum -------------------------------
(***************************************************************************)
(* What a search for the best team promises.  A problem is the set of the  *)
(* scores that can be reached; the search closes them in steps, keeping    *)
(* the best score it has seen.  It may pass over an open score only for    *)
(* one that is at least as good, open or already seen; and it never shows  *)
(* a score above all that can be reached.                                  *)
(***************************************************************************)
EXTENDS Integers

CONSTANT None     \* not an integer

VARIABLES possible, open, best

vars == <<possible, open, best>>

Init ==
    /\ possible \in SUBSET Int
    /\ open = possible
    /\ best = None

(* best is the score of a team that was looked at, perhaps with its skills  *)
(* at less than their value: it may lie below every score of the problem.   *)
Step ==
    /\ open' \subseteq open
    /\ \/ best' = best
       \/ /\ \E v \in possible : best' \in Int /\ best' <= v
          /\ best # None => best' > best
    /\ \A v \in open : \/ best' # None /\ v <= best'
                       \/ \E w \in open' : v <= w
    /\ UNCHANGED possible

Spec == Init /\ [][Step]_vars

(* When nothing is open, best is the highest score of the problem. *)
IsOptimum ==
    open = {} =>
        /\ \A v \in possible : best # None /\ v <= best
        /\ best # None => best \in possible

=============================================================================
