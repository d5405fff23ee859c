---------------------------- MODULE ProfileStore ----------------------------
(***************************************************************************)
(* What a store of player profiles promises its callers: a non-empty set   *)
(* of profiles, each with one complete configuration, exactly one of them  *)
(* active, and operations that take effect at once.                        *)
(*                                                                         *)
(* UserStorage (the IndexedDB store of the web client) is shown to         *)
(* implement it, and PlayerSession uses it as the store behind the runtime *)
(* adapter.                                                                *)
(***************************************************************************)
EXTENDS FiniteSets

CONSTANTS Ids,        \* profile identifiers
          Default,    \* the identifier of the profile made on the first start
          Values,     \* complete player configurations
          Sample      \* samplePlayerConfig()

ASSUME StoreAssumption ==
    /\ Default \in Ids
    /\ Sample \in Values

VARIABLES store,      \* function from the existing profiles to their content
          active      \* the active profile

storeVars == <<store, active>>

StoreTypeOK ==
    /\ DOMAIN store \in SUBSET Ids
    /\ store \in [DOMAIN store -> Values]
    /\ active \in Ids

\* The promise the rest of the client relies on.
ActiveExists == active \in DOMAIN store

StoreInit ==
    /\ \E v \in Values : store = [id \in {Default} |-> v]
    /\ active = Default

StoreSave(id, v) ==
    /\ id \in DOMAIN store
    /\ store' = [store EXCEPT ![id] = v]
    /\ UNCHANGED active

StoreSelect(id) ==
    /\ id \in DOMAIN store
    /\ active' = id
    /\ UNCHANGED store

\* A new profile becomes the active one at once.
StoreCreate(id, v) ==
    /\ id \in Ids \ DOMAIN store
    /\ store' = [p \in DOMAIN store \cup {id} |->
                   IF p = id THEN v ELSE store[p]]
    /\ active' = id

\* The last profile cannot be deleted; deleting the active one activates
\* another.
StoreDelete(id) ==
    /\ id \in DOMAIN store
    /\ DOMAIN store \ {id} # {}
    /\ store' = [p \in DOMAIN store \ {id} |-> store[p]]
    /\ IF active = id THEN active' \in DOMAIN store \ {id}
                      ELSE UNCHANGED active

\* Clearing leaves one default profile with the sample configuration.
StoreClear ==
    /\ store' = [id \in {Default} |-> Sample]
    /\ active' = Default

StoreNext ==
    \/ StoreClear
    \/ \E id \in Ids :
         \/ StoreSelect(id)
         \/ StoreDelete(id)
         \/ \E v \in Values : StoreSave(id, v) \/ StoreCreate(id, v)

StoreSpec == StoreInit /\ [][StoreNext]_storeVars
=============================================================================
