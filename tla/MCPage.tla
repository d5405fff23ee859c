-------------------------------- MODULE MCPage --------------------------------
(***************************************************************************)
(* Two models of the page: the handlers of player profiles and those of    *)
(* the result history.  They share nothing but the page they run in;       *)
(* `part` says which of them a behaviour is of, and the other rests in one *)
(* of its initial states, where none of its fair steps is enabled.         *)
(***************************************************************************)
EXTENDS PlayerSession, ResultCache

VARIABLE part    \* "profiles" or "history"
allVars == <<vars, historyVars, part>>

OnlyDefault == InitWith({Default})

NoHistory == activeProfile = (CHOOSE p \in Profiles : TRUE) /\ HistoryInit

MCInit ==
    \/ part = "profiles" /\ Init /\ NoHistory
    \/ part = "history" /\ OnlyDefault /\ HistoryInit

ProfilesPart == part = "profiles" /\ Next /\ UNCHANGED <<historyVars, part>>
HistoryPart == part = "history" /\ HistoryNext /\ UNCHANGED <<vars, part>>

MCSpec ==
    /\ MCInit /\ [][ProfilesPart \/ HistoryPart]_allVars
    /\ FairSession /\ FairHistory
===============================================================================
