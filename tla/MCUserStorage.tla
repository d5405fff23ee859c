---------------------------- MODULE MCUserStorage ----------------------------
(***************************************************************************)
(* Two instances of UserStorage, told apart by `tabs`.  With one tab every *)
(* function may be called, one call at a time, from every form of the old  *)
(* data.  With two tabs calls interleave: both tabs create and delete      *)
(* profiles of a new store, and identifiers are handed out in one order.   *)
(***************************************************************************)
EXTENDS UserStorage

VARIABLE tabs
allVars == <<vars, tabs>>

MCInit ==
    /\ Init
    /\ tabs \in {"one", "two"}
    /\ IF tabs = "one" THEN cut = "none"
                    ELSE legacyKey = None /\ legacyDb = None /\ cut = "some"

Sequential == tabs = "one"
Concurrent(c) ==
    /\ call'[c].op \in {"create", "delete"}
    /\ call'[c].op = "create" => call'[c].id = CHOOSE id \in Ids \ used : TRUE
    /\ call'[c].val \in {Sample, CHOOSE v \in Contents : TRUE}

Step(c) ==
    /\ \/ Begin(c) /\ (IF Sequential THEN c = caller ELSE Concurrent(c))
       \/ Close(c)
       \/ Run(c)
    /\ UNCHANGED tabs

MCNext == \E c \in Callers : Step(c)
Working == Run(caller) /\ UNCHANGED tabs
Calling == Begin(caller) /\ Sequential /\ UNCHANGED tabs
MCSpec == MCInit /\ [][MCNext]_allVars /\ WF_allVars(Working) /\ WF_allVars(Calling)

\* The properties UserStorage states of a single caller.
ConsistentAlone == Sequential => EnsuredActive /\ ListMatchesConfigs
ImplementsStoreAlone ==
    /\ Sequential => Store!StoreInit
    /\ [][Sequential /\ cut' = "none" => Store!StoreNext]_<<visibleStore, visibleActive>>
MigrationCompletesAlone == Sequential => MigrationCompletes
=============================================================================
