-------------------------- MODULE UserStorageProofs --------------------------
(***************************************************************************)
(* Proofs about UserStorage, for any profiles, contents and page closes.   *)
(*                                                                         *)
(* For any number of calls at a time: the types, and that no call but      *)
(* clearing the store leaves an empty list.  For calls one at a time: that *)
(* list, configurations and active profile agree, and that the calls       *)
(* implement ProfileStore step by step.                                    *)
(***************************************************************************)
EXTENDS MCUserStorage, FiniteSetTheorems, TLAPS

\* The steps of a call between which it holds a non-empty list it has read.
Listed == {"dropKey", "dropDb", "putList", "getActive", "putActive",
           "getConfig", "putSample", "body", "touchPut", "createConfig",
           "createActive"}

\* A call that has read the list has read at least one profile, and a
\* deletion in progress leaves at least one.
HoldsProfiles ==
    \A c \in Callers :
      /\ call[c].pc \in Listed => call[c].profs # {}
      /\ call[c].pc = "deleteList" => call[c].profs \ {call[c].id} # {}

IInv == TypeOK /\ HoldsProfiles

\* A set of profiles that passes deletePlayerConfig's length check keeps a
\* member when any one profile is taken out.
LEMMA DeletionLeavesOne ==
    ASSUME NEW S \in SUBSET Ids, NEW id \in Ids, Cardinality(S) > 1
    PROVE  S \ {id} # {}
<1> SUFFICES ASSUME S \ {id} = {} PROVE FALSE
  OBVIOUS
<1>1. S \subseteq {id}
  OBVIOUS
<1>2. IsFiniteSet({id}) /\ Cardinality({id}) = 1
  BY FS_Singleton
<1>3. Cardinality(S) <= 1
  BY <1>1, <1>2, FS_Subset
<1>4. IsFiniteSet(S) /\ Cardinality(S) \in Nat
  BY <1>1, <1>2, FS_Subset, FS_CardinalityType
<1> QED
  BY <1>3, <1>4

LEMMA InitInv == Init => IInv
BY StorageAssumption DEF Init, IInv, TypeOK, HoldsProfiles, Idle, CallRecord,
   Values, OpNames, Pcs, NoList, Listed

\* The calls keep their record type when one of them stores a set of profiles.
LEMMA HoldList ==
    ASSUME TypeOK, NEW c \in Callers, NEW S \in SUBSET Ids, NEW pc \in Pcs,
           call' = [call EXCEPT ![c].profs = S, ![c].pc = pc]
    PROVE  call' \in [Callers -> CallRecord]
<1> DEFINE held == [call[c] EXCEPT !.profs = S, !.pc = pc]
<1>1. call \in [Callers -> CallRecord]
  BY DEF TypeOK
<1>2. held \in CallRecord
  BY <1>1 DEF CallRecord
<1>3. call' = [call EXCEPT ![c] = held]
  BY <1>1
<1> HIDE DEF held
<1> QED BY <1>1, <1>2, <1>3

\* A new call starts from a well-typed record.
LEMMA BeginInv ==
    ASSUME IInv, NEW c \in Callers, Begin(c)
    PROVE  IInv' /\ list' = list
<1>1. PICK op \in Ops, id \in Ids, v \in Contents \cup {Sample} :
         /\ used' = used \cup {id}
         /\ call' = [call EXCEPT ![c] =
              [Idle EXCEPT !.op = op, !.id = id, !.val = v,
                 !.pc = IF op = "clear" THEN "clearStore" ELSE "getList"]]
  BY DEF Begin
<1> DEFINE start == [Idle EXCEPT !.op = op, !.id = id, !.val = v,
                 !.pc = IF op = "clear" THEN "clearStore" ELSE "getList"]
<1>2. start \in CallRecord
  BY StorageAssumption DEF CallRecord, Idle, Values, OpNames, Pcs
<1>3. start.pc \notin Listed \cup {"deleteList"}
  BY DEF Idle, Listed
<1>4. call' = [call EXCEPT ![c] = start]
  BY <1>1
<1>5. UNCHANGED <<db, cut>>
  BY DEF Begin
<1> HIDE DEF start
<1>6. TypeOK'
  BY <1>1, <1>2, <1>4, <1>5 DEF IInv, TypeOK, db
<1>7. HoldsProfiles'
  BY <1>3, <1>4 DEF IInv, TypeOK, HoldsProfiles
<1> QED
  BY <1>5, <1>6, <1>7 DEF IInv, db

\* Reading the list: only a non-empty one is kept for the steps that use it.
LEMMA GetListInv ==
    ASSUME IInv, NEW c \in Callers, GetList(c)
    PROVE  IInv' /\ list' = list
<1> DEFINE pc == IF list = NoList THEN "getLegacyKey" ELSE "dropKey"
<1>1. call' = [call EXCEPT ![c].profs = list, ![c].pc = pc] /\ UNCHANGED <<db, used, cut>>
  BY DEF GetList
<1>2. pc \in Pcs
  BY DEF Pcs
<1>3. call' \in [Callers -> CallRecord]
  BY <1>1, <1>2, HoldList DEF IInv, TypeOK
<1>4. TypeOK'
  BY <1>1, <1>3 DEF IInv, TypeOK, db
<1>5. HoldsProfiles'
  BY <1>1, <1>3 DEF IInv, TypeOK, HoldsProfiles, Listed, NoList
<1> QED
  BY <1>1, <1>4, <1>5 DEF IInv, db

\* The same for the second read in touchPlayerProfile.
LEMMA TouchGetInv ==
    ASSUME IInv, NEW c \in Callers, TouchGet(c)
    PROVE  IInv' /\ list' = list
<1>1. UNCHANGED <<db, used, cut>>
  BY DEF TouchGet
<1>2. CASE call[c].id \in list
  <2>1. call' = [call EXCEPT ![c].profs = list, ![c].pc = "touchPut"]
    BY <1>2 DEF TouchGet
  <2>2. call' \in [Callers -> CallRecord]
    BY <2>1, HoldList DEF IInv, TypeOK, Pcs
  <2>3. TypeOK'
    BY <1>1, <2>2 DEF IInv, TypeOK, db
  <2>4. HoldsProfiles'
    BY <1>2, <2>1 DEF IInv, TypeOK, HoldsProfiles, Listed
  <2> QED
    BY <1>1, <2>3, <2>4 DEF IInv, db
<1>3. CASE call[c].id \notin list
  <2>1. call' = [call EXCEPT ![c] = Idle]
    BY <1>3 DEF TouchGet, Finish
  <2>2. Idle \in CallRecord /\ Idle.pc \notin Listed \cup {"deleteList"}
    BY StorageAssumption DEF Idle, CallRecord, Values, OpNames, Pcs, Listed
  <2>3. TypeOK'
    BY <1>1, <2>1, <2>2 DEF IInv, TypeOK, db
  <2>4. HoldsProfiles'
    BY <2>1, <2>2 DEF IInv, TypeOK, HoldsProfiles
  <2> QED
    BY <1>1, <2>3, <2>4 DEF IInv, db
<1> QED
  BY <1>2, <1>3

\* Every step of a call keeps the types, what calls hold, and the list.
LEMMA StepInv ==
    ASSUME IInv, NEW c \in Callers, Begin(c) \/ Close(c) \/ Run(c)
    PROVE  /\ IInv'
           /\ list # NoList => list' # NoList \/ ClearStore(c)
<1>1. CASE Begin(c)
  BY <1>1, BeginInv
<1>2. CASE GetList(c)
  BY <1>2, GetListInv
<1>3. CASE TouchGet(c)
  BY <1>3, TouchGetInv
<1> USE StorageAssumption DEF IInv, TypeOK, HoldsProfiles, CallRecord, Listed,
      Values, Pcs, At, Goto, Finish, Idle, db, OpNames, NoList
<1>4. CASE Close(c)
  BY <1>4 DEF Close
<1>5. CASE DropKey(c)
  BY <1>5 DEF DropKey
<1>6. CASE DropDb(c)
  BY <1>6 DEF DropDb
<1>7. CASE PutList(c)
  BY <1>7 DEF PutList
<1>8. CASE GetActive(c)
  BY <1>8 DEF GetActive, ActiveOrFirst
<1>9. CASE PutActive(c)
  BY <1>9 DEF PutActive
<1>10. CASE GetConfig(c)
  BY <1>10 DEF GetConfig, NeedsSample
<1>11. CASE PutSample(c)
  BY <1>11 DEF PutSample
<1>12. CASE GetLegacyKey(c)
  BY <1>12 DEF GetLegacyKey
<1>13. CASE GetLegacyDb(c)
  BY <1>13 DEF GetLegacyDb
<1>14. CASE TakeLegacyDb(c)
  BY <1>14 DEF TakeLegacyDb
<1>15. CASE NewList(c)
  BY <1>15 DEF NewList
<1>16. CASE NewConfig(c)
  BY <1>16 DEF NewConfig, Migrated
<1>17. CASE NewActive(c)
  BY <1>17 DEF NewActive
<1>18. CASE NewDropKey(c)
  BY <1>18 DEF NewDropKey
<1>19. CASE NewDropDb(c)
  BY <1>19 DEF NewDropDb
<1>20. CASE Reject(c)
  BY <1>20 DEF Reject
<1>21. CASE Reply(c)
  BY <1>21 DEF Reply
<1>22. CASE SaveConfig(c)
  BY <1>22 DEF SaveConfig
<1>23. CASE TouchPut(c)
  BY <1>23 DEF TouchPut
<1>24. CASE Select(c)
  BY <1>24 DEF Select
<1>25. CASE CreateList(c)
  BY <1>25 DEF CreateList
<1>26. CASE CreateConfig(c)
  BY <1>26 DEF CreateConfig
<1>27. CASE CreateActive(c)
  BY <1>27 DEF CreateActive
<1>28. CASE Rename(c)
  BY <1>28 DEF Rename
<1>29. CASE DeleteConfig(c)
  <2>1. call[c].profs \in SUBSET Ids /\ call[c].id \in Ids
    OBVIOUS
  <2>2. call[c].profs \ {call[c].id} # {}
    BY <1>29, <2>1, DeletionLeavesOne DEF DeleteConfig, MayDelete
  <2> QED
    BY <1>29, <2>1, <2>2 DEF DeleteConfig, MayDelete, NextActive
<1>30. CASE DeleteList(c)
  BY <1>30 DEF DeleteList, Remaining
<1>31. CASE DeleteActive(c)
  BY <1>31 DEF DeleteActive
<1>32. CASE ClearStore(c)
  BY <1>32 DEF ClearStore
<1>33. CASE ClearDb(c)
  BY <1>33 DEF ClearDb
<1> QED
  BY <1>1, <1>2, <1>3, <1>4, <1>5, <1>6, <1>7, <1>8, <1>9, <1>10, <1>11,
     <1>12, <1>13, <1>14, <1>15, <1>16, <1>17, <1>18, <1>19, <1>20,
     <1>21, <1>22, <1>23, <1>24, <1>25, <1>26, <1>27, <1>28, <1>29,
     <1>30, <1>31, <1>32, <1>33
  DEF Run, Ensure, Migrate, Body

LEMMA NextInv == IInv /\ [Next]_vars => IInv'
<1> SUFFICES ASSUME IInv, [Next]_vars PROVE IInv'
  OBVIOUS
<1>1. CASE Next
  BY <1>1, StepInv DEF Next
<1>2. CASE UNCHANGED vars
  BY <1>2 DEF vars, db, IInv, TypeOK, HoldsProfiles
<1> QED
  BY <1>1, <1>2

\* Types, and that no call in flight holds an empty list, for any number of
\* concurrent calls, profiles and page closes.
THEOREM TypeCorrect == Spec => []IInv
<1>1. Init => IInv
  BY InitInv
<1>2. IInv /\ [Next]_vars => IInv'
  BY NextInv
<1> QED
  BY <1>1, <1>2, PTL DEF Spec

\* At least one profile is kept: for any interleaving of any calls of
\* storage/user.js and any page closes, only clearing the store empties the list.
THEOREM OneProfileKept == Spec => KeepsOneProfile
<1>1. IInv /\ [Next]_vars =>
        [list # NoList => list' # NoList \/ \E c \in Callers : ClearStore(c)]_vars
  <2> SUFFICES ASSUME IInv, Next
               PROVE  list # NoList =>
                        list' # NoList \/ \E c \in Callers : ClearStore(c)
    OBVIOUS
  <2> QED
    BY StepInv DEF Next
<1> QED
  BY <1>1, TypeCorrect, PTL DEF Spec, KeepsOneProfile

-----------------------------------------------------------------------------
(* One call at a time: the database between two transactions of it.        *)

me == call[caller]

OthersIdle == \A c \in Callers \ {caller} : At(c, "idle")

\* What the list holds while the call is at some transaction.
HeldList ==
    /\ me.pc \in {"dropKey", "dropDb", "putList", "getActive", "putActive", "getConfig",
                  "putSample", "body", "touchPut", "deleteList"} => list = me.profs
    /\ me.pc = "createConfig" => list = me.profs \cup {me.id}
    /\ me.pc = "createActive" => me.id \in list
    /\ me.pc \in {"getLegacyKey", "getLegacyDb", "takeLegacyDb", "newList", "clearDb"}
         => list = NoList
    /\ me.pc \in {"newConfig", "newActive", "newDropKey", "newDropDb"} => list = {Default}
    /\ me.pc = "deleteActive" => me.id \notin list

\* Which profile is active, or will be.
HeldActive ==
    /\ me.pc \in {"putActive", "getConfig", "putSample", "body"} => me.act \in me.profs
    /\ me.pc \in {"getConfig", "putSample", "body"} => active = me.act
    /\ me.pc \in {"newDropKey", "newDropDb"} => active = Default
    /\ me.pc = "deleteList" => me.act \in me.profs \ {me.id}
    /\ me.pc = "deleteActive" => me.act \in list

\* Which configurations and old data there are.
HeldConfig ==
    /\ me.pc = "body" => config[me.act] # None
    /\ me.pc \in {"newActive", "newDropKey", "newDropDb"} => config[Default] # None
    /\ me.pc = "createActive" => config[me.id] = me.val
    /\ me.pc \in {"getLegacyDb", "clearDb"} => legacyKey = None

\* Identifiers are fresh when they are handed out.
HeldIds ==
    /\ list \subseteq used /\ Default \in used /\ me.id \in used
    /\ me.op = "create" /\ me.pc \notin {"createConfig", "createActive"}
         => me.id \notin list \cup {Default}

StoredAre(S) == \A id \in Ids : config[id] # None <=> id \in S

\* As long as no page was closed during a call, the list and the stored
\* configurations differ only between the transactions that change both, and
\* nothing needs a repair.
Uncut ==
    cut = "none" =>
      /\ me.pc \notin {"putActive", "putSample"}
      /\ me.pc = "newConfig" => StoredAre({})
      /\ me.pc = "createConfig" => StoredAre(me.profs)
      /\ me.pc = "deleteList" => StoredAre(me.profs \ {me.id})
      /\ me.pc \notin {"newConfig", "createConfig", "deleteList"} => StoredAre(list)
      /\ list # NoList /\ me.pc \notin {"newConfig", "newActive", "deleteActive"}
           => active \in list

AloneInv == OthersIdle /\ HeldList /\ HeldActive /\ HeldConfig /\ HeldIds /\ Uncut

\* How the record of the call changes.
LEMMA MyRecord ==
    ASSUME IInv, caller \in Callers
    PROVE  /\ me \in CallRecord /\ me.id \in Ids /\ me.val \in Values /\ me.act \in Ids
           /\ me.profs \in SUBSET Ids /\ me.pc \in Pcs
           /\ me.legacy \in Values \cup {None} /\ me.val # None
           /\ list \in SUBSET Ids /\ config \in [Ids -> Values \cup {None}]
  BY StorageAssumption DEF IInv, TypeOK, CallRecord, me, Values

LEMMA MyStep ==
    ASSUME IInv, caller \in Callers, NEW r, call' = [call EXCEPT ![caller] = r]
    PROVE  me' = r /\ (OthersIdle => OthersIdle')
  BY DEF IInv, TypeOK, me, OthersIdle, At

LEMMA MyGoto ==
    ASSUME IInv, caller \in Callers, NEW pc, Goto(caller, pc)
    PROVE  /\ me'.pc = pc /\ me'.op = me.op /\ me'.id = me.id /\ me'.val = me.val
           /\ me'.profs = me.profs /\ me'.act = me.act /\ me'.legacy = me.legacy
           /\ OthersIdle => OthersIdle'
<1>1. me \in CallRecord
  BY MyRecord
<1>2. call' = [call EXCEPT ![caller] = [me EXCEPT !.pc = pc]]
  BY DEF Goto, IInv, TypeOK, me
<1>3. me' = [me EXCEPT !.pc = pc] /\ (OthersIdle => OthersIdle')
  BY <1>2, MyStep
<1> QED
  BY <1>1, <1>3 DEF CallRecord

LEMMA MyEnd ==
    ASSUME IInv, caller \in Callers, Finish(caller)
    PROVE  /\ me'.pc = "idle" /\ me'.op = "list" /\ me'.id = Default
           /\ OthersIdle => OthersIdle'
<1>1. me' = Idle /\ (OthersIdle => OthersIdle')
  BY MyStep DEF Finish
<1> QED
  BY <1>1 DEF Idle

\* Only the one caller is ever at work.
LEMMA OnlyCaller ==
    ASSUME IInv, OthersIdle, Sequential, NEW c \in Callers, Step(c)
    PROVE  c = caller /\ caller \in Callers
<1>1. caller \in Callers
  BY DEF caller
<1>2. CASE Begin(c) /\ (IF Sequential THEN c = caller ELSE Concurrent(c))
  BY <1>1, <1>2
<1>3. ~At(c, "idle") => c = caller
  BY DEF OthersIdle
<1>4. CASE Close(c)
  BY <1>1, <1>3, <1>4 DEF Close
<1>5. CASE Run(c)
  <2>1. CASE Ensure(c)
    BY <1>1, <1>3, <2>1 DEF Ensure, GetList, DropKey, DropDb, PutList, GetActive, PutActive,
       GetConfig, PutSample, At
  <2>2. CASE Migrate(c)
    BY <1>1, <1>3, <2>2 DEF Migrate, GetLegacyKey, GetLegacyDb, TakeLegacyDb, NewList,
       NewConfig, NewActive, NewDropKey, NewDropDb, At
  <2>3. CASE Body(c)
    BY <1>1, <1>3, <2>3 DEF Body, Reject, Reply, SaveConfig, TouchGet, TouchPut, Select,
       CreateList, CreateConfig, CreateActive, Rename, DeleteConfig, DeleteList,
       DeleteActive, ClearStore, ClearDb, At
  <2> QED
    BY <1>5, <2>1, <2>2, <2>3 DEF Run
<1> QED
  BY <1>2, <1>4, <1>5 DEF Step

LEMMA BeginAlone ==
    ASSUME IInv, AloneInv, caller \in Callers, Begin(caller)
    PROVE  AloneInv'
<1>1. PICK op \in Ops, id \in Ids, v \in Contents \cup {Sample} :
         /\ IF op = "create" THEN id \notin used ELSE id \in used
         /\ used' = used \cup {id}
         /\ call' = [call EXCEPT ![caller] =
              [Idle EXCEPT !.op = op, !.id = id, !.val = v,
                 !.pc = IF op = "clear" THEN "clearStore" ELSE "getList"]]
  BY DEF Begin
<1>2. me.pc = "idle" /\ UNCHANGED <<list, config, active, legacyKey, legacyDb, cut>>
  BY DEF Begin, At, db, me
<1>3. /\ me'.op = op /\ me'.id = id /\ me'.pc \in {"clearStore", "getList"} /\ OthersIdle'
  <2> DEFINE start == [Idle EXCEPT !.op = op, !.id = id, !.val = v,
                 !.pc = IF op = "clear" THEN "clearStore" ELSE "getList"]
  <2>1. start.op = op /\ start.id = id /\ start.pc \in {"clearStore", "getList"}
    BY DEF Idle
  <2>2. call' = [call EXCEPT ![caller] = start]
    BY <1>1
  <2> HIDE DEF start
  <2>3. me' = start /\ OthersIdle'
    BY <2>2, MyStep DEF AloneInv
  <2> QED
    BY <2>1, <2>3
<1>4. HeldList' /\ HeldActive' /\ HeldConfig'
  BY <1>2, <1>3 DEF HeldList, HeldActive, HeldConfig
<1>5. HeldIds'
  BY <1>1, <1>2, <1>3 DEF AloneInv, HeldIds
<1>6. Uncut'
  BY <1>2, <1>3 DEF AloneInv, Uncut, StoredAre
<1> QED
  BY <1>3, <1>4, <1>5, <1>6 DEF AloneInv

LEMMA CloseAlone ==
    ASSUME IInv, AloneInv, caller \in Callers, Close(caller)
    PROVE  AloneInv'
<1>1. /\ me'.pc = "idle" /\ me'.op = "list" /\ me'.id = Default /\ OthersIdle'
      /\ UNCHANGED <<list, used>> /\ cut' = "some"
  BY MyEnd DEF Close, AloneInv, db
<1> QED
  BY <1>1 DEF AloneInv, HeldList, HeldActive, HeldConfig, HeldIds, Uncut

\* The parts of a call that repair or migrate.
LEMMA EnsureAlone ==
    ASSUME IInv, AloneInv, caller \in Callers, Ensure(caller)
    PROVE  AloneInv'
<1> USE DEF AloneInv, HeldList, HeldActive, HeldConfig, HeldIds, Uncut, StoredAre, db
<1>1. CASE GetList(caller)
  <2>1. /\ me.pc = "getList" /\ UNCHANGED <<db, used, cut>>
        /\ call' = [call EXCEPT ![caller] = [me EXCEPT !.profs = list,
                      !.pc = IF list = NoList THEN "getLegacyKey" ELSE "dropKey"]]
    BY <1>1 DEF GetList, At, me, IInv, TypeOK
  <2>2. /\ me' = [me EXCEPT !.profs = list,
                      !.pc = IF list = NoList THEN "getLegacyKey" ELSE "dropKey"]
        /\ OthersIdle'
    BY <2>1, MyStep
  <2>3. /\ me'.pc = (IF list = NoList THEN "getLegacyKey" ELSE "dropKey")
        /\ me'.profs = list /\ me'.op = me.op /\ me'.id = me.id
    BY <2>2, MyRecord DEF CallRecord
  <2> QED
    BY <2>1, <2>2, <2>3
<1>2. CASE DropKey(caller)
  BY <1>2, MyGoto DEF DropKey, At, me
<1>3. CASE DropDb(caller)
  BY <1>3, MyGoto DEF DropDb, At, me
<1>4. CASE PutList(caller)
  BY <1>4, MyGoto DEF PutList, At, me
<1>5. CASE GetActive(caller)
  <2>0. PICK a \in ActiveOrFirst(caller) :
          call' = [call EXCEPT ![caller].act = a,
                     ![caller].pc = IF a = active THEN "getConfig" ELSE "putActive"]
    BY <1>5 DEF GetActive
  <2>1. call' = [call EXCEPT ![caller] = [me EXCEPT !.act = a,
                     !.pc = IF a = active THEN "getConfig" ELSE "putActive"]]
    BY <2>0 DEF me, IInv, TypeOK
  <2>2. /\ me.pc = "getActive" /\ UNCHANGED <<db, used, cut>>
        /\ a \in me.profs /\ (active \in me.profs => a = active)
    BY <1>5, <2>1 DEF GetActive, At, me, ActiveOrFirst
  <2>3. me' = [me EXCEPT !.act = a,
                     !.pc = IF a = active THEN "getConfig" ELSE "putActive"] /\ OthersIdle'
    BY <2>1, MyStep
  <2>4. /\ me'.pc = (IF a = active THEN "getConfig" ELSE "putActive")
        /\ me'.act = a /\ me'.profs = me.profs /\ me'.op = me.op /\ me'.id = me.id
    BY <2>3, MyRecord DEF CallRecord
  <2>5. me.profs # {} /\ NoList = {}
    BY <2>2 DEF NoList
  <2> QED
    BY <2>2, <2>3, <2>4, <2>5
<1>6. CASE PutActive(caller)
  BY <1>6, MyGoto DEF PutActive, At, me
<1>7. CASE GetConfig(caller)
  <2>1. me.pc = "getConfig" /\ UNCHANGED <<db, used, cut>>
        /\ Goto(caller, IF config[me.act] = None THEN "putSample" ELSE "body")
    BY <1>7 DEF GetConfig, NeedsSample, At, me
  <2>2. /\ me'.pc = (IF config[me.act] = None THEN "putSample" ELSE "body")
        /\ me'.op = me.op /\ me'.id = me.id /\ me'.profs = me.profs /\ me'.act = me.act
        /\ OthersIdle'
    BY <2>1, MyGoto
  <2>3. cut = "none" => config[me.act] # None
    BY <2>1, MyRecord
  <2> QED
    BY <2>1, <2>2, <2>3
<1>8. CASE PutSample(caller)
  <2>1. /\ me.pc = "putSample" /\ UNCHANGED <<list, active, legacyKey, legacyDb, used, cut>>
        /\ config' = [config EXCEPT ![me.act] = Sample] /\ Goto(caller, "body")
    BY <1>8 DEF PutSample, At, me
  <2>2. config'[me.act] # None
    BY <2>1, MyRecord, StorageAssumption
  <2>3. /\ me'.pc = "body" /\ me'.op = me.op /\ me'.id = me.id /\ me'.profs = me.profs
        /\ me'.act = me.act /\ OthersIdle'
    BY <2>1, MyGoto
  <2> QED
    BY <2>1, <2>2, <2>3
<1> QED
  BY <1>1, <1>2, <1>3, <1>4, <1>5, <1>6, <1>7, <1>8 DEF Ensure

LEMMA MigrateAlone ==
    ASSUME IInv, AloneInv, caller \in Callers, Migrate(caller)
    PROVE  AloneInv'
<1> USE DEF AloneInv, HeldList, HeldActive, HeldConfig, HeldIds, Uncut, StoredAre, db
<1>1. CASE GetLegacyKey(caller)
  <2>1. /\ me.pc = "getLegacyKey" /\ UNCHANGED <<db, used, cut>>
        /\ call' = [call EXCEPT ![caller] = [me EXCEPT !.legacy = legacyKey,
                      !.pc = IF legacyKey = None THEN "getLegacyDb" ELSE "newList"]]
    BY <1>1 DEF GetLegacyKey, At, me, IInv, TypeOK
  <2>2. /\ me' = [me EXCEPT !.legacy = legacyKey,
                      !.pc = IF legacyKey = None THEN "getLegacyDb" ELSE "newList"]
        /\ OthersIdle'
    BY <2>1, MyStep
  <2>3. /\ me'.pc = (IF legacyKey = None THEN "getLegacyDb" ELSE "newList")
        /\ me'.op = me.op /\ me'.id = me.id
    BY <2>2, MyRecord DEF CallRecord
  <2> QED
    BY <2>1, <2>2, <2>3
<1>2. CASE GetLegacyDb(caller)
  <2>1. /\ me.pc = "getLegacyDb" /\ UNCHANGED <<db, used, cut>>
        /\ call' = [call EXCEPT ![caller] =
                      [me EXCEPT !.legacy = legacyDb, !.pc = "takeLegacyDb"]]
    BY <1>2 DEF GetLegacyDb, At, me, IInv, TypeOK
  <2>2. me' = [me EXCEPT !.legacy = legacyDb, !.pc = "takeLegacyDb"] /\ OthersIdle'
    BY <2>1, MyStep
  <2>3. me'.pc = "takeLegacyDb" /\ me'.op = me.op /\ me'.id = me.id
    BY <2>2, MyRecord DEF CallRecord
  <2> QED
    BY <2>1, <2>2, <2>3
<1>3. CASE TakeLegacyDb(caller)
  BY <1>3, MyGoto DEF TakeLegacyDb, At, me
<1>4. CASE NewList(caller)
  BY <1>4, MyGoto DEF NewList, At, me, NoList
<1>5. CASE NewConfig(caller)
  <2>1. /\ me.pc = "newConfig" /\ UNCHANGED <<list, active, legacyKey, legacyDb, used, cut>>
        /\ config' = [config EXCEPT ![Default] = Migrated(caller)]
        /\ Goto(caller, "newActive")
    BY <1>5 DEF NewConfig, At, me
  <2>2. Migrated(caller) # None
    BY MyRecord, StorageAssumption DEF Migrated, Values, me
  <2>3. /\ config'[Default] # None /\ \A id \in Ids \ {Default} : config'[id] = config[id]
    BY <2>1, <2>2, MyRecord, StorageAssumption
  <2>4. me'.pc = "newActive" /\ me'.op = me.op /\ me'.id = me.id /\ OthersIdle'
    BY <2>1, MyGoto
  <2> QED
    BY <2>1, <2>3, <2>4
<1>6. CASE NewActive(caller)
  BY <1>6, MyGoto DEF NewActive, At, me
<1>7. CASE NewDropKey(caller)
  BY <1>7, MyGoto DEF NewDropKey, At, me
<1>8. CASE NewDropDb(caller)
  <2>1. /\ me.pc = "newDropDb" /\ UNCHANGED <<list, config, active, legacyKey, used, cut>>
        /\ call' = [call EXCEPT ![caller] =
                      [me EXCEPT !.profs = {Default}, !.act = Default, !.pc = "body"]]
    BY <1>8 DEF NewDropDb, At, me, IInv, TypeOK
  <2>2. me' = [me EXCEPT !.profs = {Default}, !.act = Default, !.pc = "body"] /\ OthersIdle'
    BY <2>1, MyStep
  <2>3. /\ me'.pc = "body" /\ me'.op = me.op /\ me'.id = me.id /\ me'.profs = {Default}
        /\ me'.act = Default
    BY <2>2, MyRecord DEF CallRecord
  <2> QED
    BY <2>1, <2>2, <2>3
<1> QED
  BY <1>1, <1>2, <1>3, <1>4, <1>5, <1>6, <1>7, <1>8 DEF Migrate

\* What the exported functions do after that.
LEMMA BodyAlone ==
    ASSUME IInv, AloneInv, caller \in Callers, Body(caller)
    PROVE  AloneInv'
<1> USE DEF AloneInv, HeldList, HeldActive, HeldConfig, HeldIds, Uncut, StoredAre, db
<1>1. CASE Reject(caller)
  BY <1>1, MyEnd DEF Reject, At, me
<1>2. CASE Reply(caller)
  BY <1>2, MyEnd DEF Reply, At, me
<1>3. CASE SaveConfig(caller)
  <2>1. /\ me.pc = "body" /\ me.op = "save" /\ me.id \in me.profs
        /\ UNCHANGED <<list, active, legacyKey, legacyDb, used, cut>>
        /\ config' = [config EXCEPT ![me.id] = me.val] /\ Goto(caller, "touchGet")
    BY <1>3 DEF SaveConfig, At, me
  <2>2. /\ config'[me.id] # None /\ \A id \in Ids \ {me.id} : config'[id] = config[id]
    BY <2>1, MyRecord
  <2>3. me'.pc = "touchGet" /\ me'.op = me.op /\ me'.id = me.id /\ OthersIdle'
    BY <2>1, MyGoto
  <2> QED
    BY <2>1, <2>2, <2>3
<1>4. CASE TouchGet(caller)
  <2>1. me.pc = "touchGet" /\ UNCHANGED <<db, used, cut>>
    BY <1>4 DEF TouchGet, At, me
  <2>2. CASE me.id \in list
    <3>1. call' = [call EXCEPT ![caller] = [me EXCEPT !.profs = list, !.pc = "touchPut"]]
      BY <1>4, <2>2 DEF TouchGet, me, IInv, TypeOK
    <3>2. me' = [me EXCEPT !.profs = list, !.pc = "touchPut"] /\ OthersIdle'
      BY <3>1, MyStep
    <3>3. me'.pc = "touchPut" /\ me'.op = me.op /\ me'.id = me.id /\ me'.profs = list
      BY <3>2, MyRecord DEF CallRecord
    <3> QED
      BY <2>1, <3>2, <3>3
  <2>3. CASE me.id \notin list
    BY <1>4, <2>1, <2>3, MyEnd DEF TouchGet, me
  <2> QED
    BY <2>2, <2>3
<1>5. CASE TouchPut(caller)
  BY <1>5, MyEnd DEF TouchPut, At, me
<1>6. CASE Select(caller)
  BY <1>6, MyEnd DEF Select, At, me
<1>7. CASE CreateList(caller)
  BY <1>7, MyGoto DEF CreateList, At, me
<1>8. CASE CreateConfig(caller)
  <2>1. /\ me.pc = "createConfig" /\ UNCHANGED <<list, active, legacyKey, legacyDb, used, cut>>
        /\ config' = [config EXCEPT ![me.id] = me.val] /\ Goto(caller, "createActive")
    BY <1>8 DEF CreateConfig, At, me
  <2>2. /\ config'[me.id] = me.val /\ me.val # None
        /\ \A id \in Ids \ {me.id} : config'[id] = config[id]
    BY <2>1, MyRecord
  <2>3. /\ me'.pc = "createActive" /\ me'.op = me.op /\ me'.id = me.id /\ me'.val = me.val
        /\ OthersIdle'
    BY <2>1, MyGoto
  <2> QED
    BY <2>1, <2>2, <2>3
<1>9. CASE CreateActive(caller)
  BY <1>9, MyEnd DEF CreateActive, At, me
<1>10. CASE Rename(caller)
  BY <1>10, MyEnd DEF Rename, At, me
<1>11. CASE DeleteConfig(caller)
  <2>1. /\ me.pc = "body" /\ me.op = "delete" /\ MayDelete(caller)
        /\ UNCHANGED <<list, active, legacyKey, legacyDb, used, cut>>
        /\ config' = [config EXCEPT ![me.id] = None]
    BY <1>11 DEF DeleteConfig, At, me
  <2>0. PICK a \in NextActive(caller) :
          call' = [call EXCEPT ![caller].act = a, ![caller].pc = "deleteList"]
    BY <1>11 DEF DeleteConfig
  <2>2. call' = [call EXCEPT ![caller] = [me EXCEPT !.act = a, !.pc = "deleteList"]]
    BY <2>0 DEF me, IInv, TypeOK
  <2>3. a \in me.profs \ {me.id}
    BY <2>1, <2>2 DEF NextActive, me
  <2>4. /\ config'[me.id] = None /\ \A id \in Ids \ {me.id} : config'[id] = config[id]
    BY <2>1, MyRecord
  <2>5. me' = [me EXCEPT !.act = a, !.pc = "deleteList"] /\ OthersIdle'
    BY <2>2, MyStep
  <2>6. /\ me'.pc = "deleteList" /\ me'.op = me.op /\ me'.id = me.id /\ me'.profs = me.profs
        /\ me'.act = a
    BY <2>5, MyRecord DEF CallRecord
  <2> QED
    BY <2>1, <2>3, <2>4, <2>5, <2>6
<1>12. CASE DeleteList(caller)
  BY <1>12, MyGoto DEF DeleteList, Remaining, At, me
<1>13. CASE DeleteActive(caller)
  BY <1>13, MyEnd DEF DeleteActive, At, me
<1>14. CASE ClearStore(caller)
  <2>1. /\ me.pc = "clearStore" /\ list' = {} /\ config' = [id \in Ids |-> None]
        /\ legacyKey' = None /\ Goto(caller, "clearDb") /\ UNCHANGED <<used, cut>>
    BY <1>14 DEF ClearStore, At, me, NoList
  <2>2. me'.pc = "clearDb" /\ me'.op = me.op /\ me'.id = me.id /\ OthersIdle'
    BY <2>1, MyGoto
  <2> QED
    BY <2>1, <2>2 DEF NoList
<1>15. CASE ClearDb(caller)
  BY <1>15, MyGoto DEF ClearDb, At, me, NoList
<1> QED
  BY <1>1, <1>2, <1>3, <1>4, <1>5, <1>6, <1>7, <1>8, <1>9, <1>10, <1>11, <1>12, <1>13,
     <1>14, <1>15 DEF Body

LEMMA OneCaller == Callers # {} => caller \in Callers
  BY DEF caller

LEMMA MCImplies == MCSpec => Spec
<1>1. MCInit => Init
  BY DEF MCInit
<1>2. [MCNext]_allVars => [Next]_vars
  BY DEF MCNext, Step, Next, allVars
<1> QED
  BY <1>1, <1>2, PTL DEF MCSpec, Spec

LEMMA AlwaysAlone ==
    ASSUME Callers # {}
    PROVE  MCSpec => [](Sequential => AloneInv)
<1>1. MCInit => (Sequential => AloneInv)
  <2> SUFFICES ASSUME MCInit, Sequential PROVE AloneInv
    OBVIOUS
  <2>1. /\ me = Idle /\ list = {} /\ used = {Default} /\ config = [id \in Ids |-> None]
        /\ OthersIdle
    BY OneCaller DEF MCInit, Init, me, NoList, OthersIdle, At, Idle
  <2> QED
    BY <2>1 DEF Idle, AloneInv, HeldList, HeldActive, HeldConfig, HeldIds, Uncut,
                StoredAre, NoList
<1>2. IInv /\ (Sequential => AloneInv) /\ [MCNext]_allVars => (Sequential => AloneInv)'
  <2> SUFFICES ASSUME IInv, Sequential => AloneInv, [MCNext]_allVars, Sequential'
               PROVE  AloneInv'
    OBVIOUS
  <2>1. CASE UNCHANGED allVars
    <3>1. Sequential /\ UNCHANGED <<list, config, active, legacyKey, used, call, cut>>
      BY <2>1 DEF Sequential, allVars, vars
    <3> QED
      BY <3>1 DEF AloneInv, HeldList, HeldActive, HeldConfig, HeldIds, Uncut, StoredAre,
                  OthersIdle, At, me
  <2>2. ASSUME NEW c \in Callers, Step(c)
        PROVE  AloneInv'
    <3>1. Sequential
      BY <2>2 DEF Step, Sequential
    <3>2. c = caller /\ caller \in Callers
      BY <2>2, <3>1, OnlyCaller DEF AloneInv
    <3> QED
      BY <2>2, <3>1, <3>2, BeginAlone, CloseAlone, EnsureAlone, MigrateAlone, BodyAlone
         DEF Step, Run
  <2> QED
    BY <2>1, <2>2 DEF MCNext
<1> QED
  BY <1>1, <1>2, MCImplies, TypeCorrect, PTL DEF MCSpec

\* With calls made one after the other, and pages closed between any two
\* transactions, ensurePlayerProfiles always returns with an active profile
\* that is listed and has a configuration; and until a page is closed the list
\* and the configurations agree (storage/user.js), for any number of profiles.
THEOREM OneTabConsistent ==
    ASSUME Callers # {}
    PROVE  MCSpec => []ConsistentAlone
<1>1. IInv /\ (Sequential => AloneInv) => ConsistentAlone
  <2> SUFFICES ASSUME IInv, AloneInv PROVE EnsuredActive /\ ListMatchesConfigs
    BY DEF ConsistentAlone
  <2>1. EnsuredActive
    <3> SUFFICES ASSUME NEW c \in Callers, At(c, "body")
                 PROVE  active = call[c].act /\ active \in list /\ config[active] # None
      BY DEF EnsuredActive
    <3>1. c = caller
      BY DEF AloneInv, OthersIdle, At
    <3> QED
      BY <3>1 DEF AloneInv, HeldList, HeldActive, HeldConfig, At, me
  <2>2. ListMatchesConfigs
    <3> SUFFICES ASSUME Quiet, cut = "none" PROVE list = {id \in Ids : config[id] # None}
      BY DEF ListMatchesConfigs
    <3>1. me.pc = "idle" /\ list \in SUBSET Ids
      BY OneCaller DEF Quiet, At, me, IInv, TypeOK
    <3>2. StoredAre(list)
      BY <3>1 DEF AloneInv, Uncut
    <3> QED
      BY <3>1, <3>2 DEF StoredAre
  <2> QED
    BY <2>1, <2>2
<1> QED
  BY <1>1, AlwaysAlone, MCImplies, TypeCorrect, PTL

-----------------------------------------------------------------------------
(* What a single client sees, as a function of the database and the call.  *)

Content(cf, id) == IF cf[id] = None THEN Sample ELSE cf[id]
Shown(S, cf) == [id \in S |-> Content(cf, id)]

PendingIn(r, lk, ld) ==
    IF r.pc = "clearDb" THEN Sample
    ELSE IF r.pc \in {"takeLegacyDb", "newList", "newConfig"}
      THEN IF r.legacy = None THEN Sample ELSE r.legacy
    ELSE IF Legacy \in {lk, ld} THEN Legacy ELSE Sample

IsCreating(r) == r.pc \in {"createConfig", "createActive"}
IsDeleting(r) == r.pc \in {"deleteList", "deleteActive"}
Plain(r) == r.pc # "newConfig" /\ ~IsCreating(r) /\ ~IsDeleting(r)

SeenStore(l, cf, r, lk, ld) ==
    IF l = {} \/ r.pc = "newConfig"
      THEN [id \in {Default} |-> PendingIn(r, lk, ld)]
      ELSE [id \in (IF IsDeleting(r) THEN l \ {r.id} ELSE l) |->
              IF IsCreating(r) /\ id = r.id THEN r.val ELSE Content(cf, id)]

SeenActive(l, a, r) ==
    IF l = {} \/ r.pc \in {"newConfig", "newActive"} THEN Default
    ELSE IF IsCreating(r) THEN r.id
    ELSE IF IsDeleting(r) THEN r.act ELSE a

LEMMA Seen ==
    /\ visibleStore = SeenStore(list, config, me, legacyKey, legacyDb)
    /\ visibleActive = SeenActive(list, active, me)
    /\ visibleStore' = SeenStore(list', config', me', legacyKey', legacyDb')
    /\ visibleActive' = SeenActive(list', active', me')
<1>1. PendingDefault = PendingIn(me, legacyKey, legacyDb)
  BY DEF PendingDefault, PendingIn, Migrating, Migrated, At, me
<1>2. PendingDefault' = PendingIn(me', legacyKey', legacyDb')
  BY DEF PendingDefault, PendingIn, Migrating, Migrated, At, me
<1>3. /\ visibleStore = SeenStore(list, config, me, legacyKey, legacyDb)
      /\ visibleActive = SeenActive(list, active, me)
  BY <1>1 DEF visibleStore, visibleActive, SeenStore, SeenActive, Creating, Deleting,
     IsCreating, IsDeleting, Content, At, me, NoList
<1>4. /\ visibleStore' = SeenStore(list', config', me', legacyKey', legacyDb')
      /\ visibleActive' = SeenActive(list', active', me')
  BY <1>2 DEF visibleStore, visibleActive, SeenStore, SeenActive, Creating, Deleting,
     IsCreating, IsDeleting, Content, At, me, NoList
<1> QED
  BY <1>3, <1>4

\* Between calls, and while a call only reads, the client sees the database.
LEMMA SeenPlain ==
    ASSUME NEW l, NEW cf, NEW a, NEW r, NEW lk, NEW ld, l # {}, Plain(r)
    PROVE  /\ SeenStore(l, cf, r, lk, ld) = Shown(l, cf)
           /\ r.pc # "newActive" => SeenActive(l, a, r) = a
BY DEF Plain, SeenStore, SeenActive, Shown

\* Steps that leave what they have read in place show nothing.
LEMMA QuietStep ==
    ASSUME IInv, list # {}, list' = list, config' = config, active' = active,
           Plain(me), Plain(me'), me.pc # "newActive", me'.pc # "newActive"
    PROVE  UNCHANGED <<visibleStore, visibleActive>>
BY Seen, SeenPlain

LEMMA EmptyStep ==
    ASSUME list = {}, list' = {},
           PendingIn(me', legacyKey', legacyDb') = PendingIn(me, legacyKey, legacyDb)
    PROVE  UNCHANGED <<visibleStore, visibleActive>>
BY Seen DEF SeenStore, SeenActive

LEMMA NoneIsApart == Legacy # None /\ Sample # None
BY StorageAssumption

LEMMA BeginSeen ==
    ASSUME IInv, AloneInv, caller \in Callers, Begin(caller)
    PROVE  UNCHANGED <<visibleStore, visibleActive>>
<1>1. PICK op \in Ops, id \in Ids, v \in Contents \cup {Sample} :
         call' = [call EXCEPT ![caller] =
              [Idle EXCEPT !.op = op, !.id = id, !.val = v,
                 !.pc = IF op = "clear" THEN "clearStore" ELSE "getList"]]
  BY DEF Begin
<1>2. me.pc = "idle" /\ UNCHANGED <<list, config, active, legacyKey, legacyDb>>
  BY DEF Begin, At, db, me
<1>3. me'.pc \in {"clearStore", "getList"}
  <2> DEFINE r == [Idle EXCEPT !.op = op, !.id = id, !.val = v,
                 !.pc = IF op = "clear" THEN "clearStore" ELSE "getList"]
  <2>1. call' = [call EXCEPT ![caller] = r]
    BY <1>1
  <2>2. r.pc \in {"clearStore", "getList"}
    BY DEF Idle
  <2> HIDE DEF r
  <2> QED
    BY <2>1, <2>2, MyStep
<1>4. CASE list = {}
  BY <1>2, <1>3, <1>4, EmptyStep DEF PendingIn
<1>5. CASE list # {}
  BY <1>2, <1>3, <1>5, QuietStep DEF Plain, IsCreating, IsDeleting
<1> QED
  BY <1>4, <1>5

LEMMA EnsureSeen ==
    ASSUME IInv, AloneInv, caller \in Callers, Ensure(caller), cut = "none"
    PROVE  UNCHANGED <<visibleStore, visibleActive>>
<1> USE DEF AloneInv, Uncut, Plain, IsCreating, IsDeleting, db
<1>0. me.pc \in Listed => me.profs # {}
  BY DEF IInv, HoldsProfiles, me
<1>1. CASE GetList(caller)
  <2>1. /\ me.pc = "getList" /\ UNCHANGED <<db, used, cut>>
        /\ call' = [call EXCEPT ![caller] = [me EXCEPT !.profs = list,
                      !.pc = IF list = NoList THEN "getLegacyKey" ELSE "dropKey"]]
    BY <1>1 DEF GetList, At, me, IInv, TypeOK
  <2>2. me' = [me EXCEPT !.profs = list,
                      !.pc = IF list = NoList THEN "getLegacyKey" ELSE "dropKey"]
    <3> DEFINE r == [me EXCEPT !.profs = list,
                      !.pc = IF list = NoList THEN "getLegacyKey" ELSE "dropKey"]
    <3>1. call' = [call EXCEPT ![caller] = r]
      BY <2>1
    <3> HIDE DEF r
    <3>2. me' = r
      BY <3>1, MyStep
    <3> QED
      BY <3>2 DEF r
  <2>3. me'.pc = IF list = NoList THEN "getLegacyKey" ELSE "dropKey"
    BY <2>2, MyRecord DEF CallRecord
  <2>4. CASE list = {}
    BY <2>1, <2>3, <2>4, EmptyStep DEF PendingIn, NoList
  <2>5. CASE list # {}
    BY <2>1, <2>3, <2>5, QuietStep DEF NoList
  <2> QED
    BY <2>4, <2>5
<1>2. CASE DropKey(caller)
  BY <1>0, <1>2, MyGoto, QuietStep DEF DropKey, At, me, HeldList, Listed
<1>3. CASE DropDb(caller)
  BY <1>0, <1>3, MyGoto, QuietStep DEF DropDb, At, me, HeldList, Listed
<1>4. CASE PutList(caller)
  BY <1>0, <1>4, MyGoto, QuietStep DEF PutList, At, me, HeldList, Listed
<1>5. CASE GetActive(caller)
  <2>0. PICK a \in ActiveOrFirst(caller) :
          call' = [call EXCEPT ![caller].act = a,
                     ![caller].pc = IF a = active THEN "getConfig" ELSE "putActive"]
    BY <1>5 DEF GetActive
  <2>1. call' = [call EXCEPT ![caller] = [me EXCEPT !.act = a,
                     !.pc = IF a = active THEN "getConfig" ELSE "putActive"]]
    BY <2>0 DEF me, IInv, TypeOK
  <2>2. me.pc = "getActive" /\ UNCHANGED <<list, config, active>>
    BY <1>5 DEF GetActive, At, me
  <2>3. me' = [me EXCEPT !.act = a,
                     !.pc = IF a = active THEN "getConfig" ELSE "putActive"]
    <3> DEFINE r == [me EXCEPT !.act = a,
                     !.pc = IF a = active THEN "getConfig" ELSE "putActive"]
    <3>1. call' = [call EXCEPT ![caller] = r]
      BY <2>1
    <3> HIDE DEF r
    <3>2. me' = r
      BY <3>1, MyStep
    <3> QED
      BY <3>2 DEF r
  <2>4. me'.pc \in {"getConfig", "putActive"}
    BY <2>3, MyRecord DEF CallRecord
  <2>5. list # {}
    BY <1>0, <2>2 DEF HeldList, Listed
  <2> QED
    BY <2>2, <2>4, <2>5, QuietStep
<1>6. CASE PutActive(caller)
  BY <1>6 DEF PutActive, At, me
<1>7. CASE GetConfig(caller)
  <2>1. me.pc = "getConfig" /\ UNCHANGED <<list, config, active>>
        /\ Goto(caller, IF config[me.act] = None THEN "putSample" ELSE "body")
    BY <1>7 DEF GetConfig, NeedsSample, At, me
  <2>2. me'.pc \in {"putSample", "body"}
    BY <2>1, MyGoto
  <2>3. list # {}
    BY <1>0, <2>1 DEF HeldList, Listed
  <2> QED
    BY <2>1, <2>2, <2>3, QuietStep
<1>8. CASE PutSample(caller)
  BY <1>8 DEF PutSample, At, me
<1> QED
  BY <1>1, <1>2, <1>3, <1>4, <1>5, <1>6, <1>7, <1>8 DEF Ensure

LEMMA MigrateSeen ==
    ASSUME IInv, AloneInv, caller \in Callers, Migrate(caller)
    PROVE  UNCHANGED <<visibleStore, visibleActive>>
<1> USE NoneIsApart DEF AloneInv, db
<1>0. legacyKey \in {Legacy, None} /\ legacyDb \in {Legacy, None}
  BY DEF IInv, TypeOK
<1>1. CASE GetLegacyKey(caller)
  <2>1. /\ me.pc = "getLegacyKey" /\ UNCHANGED <<db, used, cut>>
        /\ call' = [call EXCEPT ![caller] = [me EXCEPT !.legacy = legacyKey,
                      !.pc = IF legacyKey = None THEN "getLegacyDb" ELSE "newList"]]
    BY <1>1 DEF GetLegacyKey, At, me, IInv, TypeOK
  <2>2. me' = [me EXCEPT !.legacy = legacyKey,
                      !.pc = IF legacyKey = None THEN "getLegacyDb" ELSE "newList"]
    <3> DEFINE r == [me EXCEPT !.legacy = legacyKey,
                      !.pc = IF legacyKey = None THEN "getLegacyDb" ELSE "newList"]
    <3>1. call' = [call EXCEPT ![caller] = r]
      BY <2>1
    <3> HIDE DEF r
    <3>2. me' = r
      BY <3>1, MyStep
    <3> QED
      BY <3>2 DEF r
  <2>3. /\ me'.pc = (IF legacyKey = None THEN "getLegacyDb" ELSE "newList")
        /\ me'.legacy = legacyKey
    BY <2>2, MyRecord DEF CallRecord
  <2>4. list = {} /\ list' = {}
    BY <2>1 DEF HeldList, NoList
  <2>5. PendingIn(me', legacyKey', legacyDb') = PendingIn(me, legacyKey, legacyDb)
    BY <1>0, <2>1, <2>3 DEF PendingIn
  <2> QED
    BY <2>4, <2>5, EmptyStep
<1>2. CASE GetLegacyDb(caller)
  <2>1. /\ me.pc = "getLegacyDb" /\ UNCHANGED <<db, used, cut>>
        /\ call' = [call EXCEPT ![caller] =
                      [me EXCEPT !.legacy = legacyDb, !.pc = "takeLegacyDb"]]
    BY <1>2 DEF GetLegacyDb, At, me, IInv, TypeOK
  <2>2. me' = [me EXCEPT !.legacy = legacyDb, !.pc = "takeLegacyDb"]
    <3> DEFINE r == [me EXCEPT !.legacy = legacyDb, !.pc = "takeLegacyDb"]
    <3>1. call' = [call EXCEPT ![caller] = r]
      BY <2>1
    <3> HIDE DEF r
    <3>2. me' = r
      BY <3>1, MyStep
    <3> QED
      BY <3>2 DEF r
  <2>3. me'.pc = "takeLegacyDb" /\ me'.legacy = legacyDb
    BY <2>2, MyRecord DEF CallRecord
  <2>4. list = {} /\ list' = {} /\ legacyKey = None
    BY <2>1 DEF HeldList, HeldConfig, NoList
  <2>5. PendingIn(me', legacyKey', legacyDb') = PendingIn(me, legacyKey, legacyDb)
    BY <1>0, <2>1, <2>3, <2>4 DEF PendingIn
  <2> QED
    BY <2>4, <2>5, EmptyStep
<1>3. CASE TakeLegacyDb(caller)
  <2>1. /\ me.pc = "takeLegacyDb" /\ list = {} /\ list' = {}
        /\ me'.pc = "newList" /\ me'.legacy = me.legacy
    BY <1>3, MyGoto DEF TakeLegacyDb, At, me, HeldList, NoList
  <2> QED
    BY <2>1, EmptyStep DEF PendingIn
<1>4. CASE NewList(caller)
  <2>1. /\ me.pc = "newList" /\ list = {}
        /\ me'.pc = "newConfig" /\ me'.legacy = me.legacy
    BY <1>4, MyGoto DEF NewList, At, me, HeldList, NoList
  <2>2. PendingIn(me', legacyKey', legacyDb') = PendingIn(me, legacyKey, legacyDb)
    BY <2>1 DEF PendingIn
  <2> QED
    BY <2>1, <2>2, Seen DEF SeenStore, SeenActive
<1>5. CASE NewConfig(caller)
  <2>1. /\ me.pc = "newConfig" /\ UNCHANGED <<list, active>> /\ list = {Default}
        /\ config' = [config EXCEPT ![Default] = Migrated(caller)]
        /\ Goto(caller, "newActive")
    BY <1>5 DEF NewConfig, At, me, HeldList
  <2>2. me'.pc = "newActive"
    BY <2>1, MyGoto
  <2>3. PendingIn(me, legacyKey, legacyDb) = Migrated(caller) /\ Migrated(caller) # None
    BY <2>1 DEF PendingIn, Migrated, me
  <2>4. config'[Default] = Migrated(caller)
    BY <2>1, MyRecord, StorageAssumption
  <2>5. visibleStore = [id \in {Default} |-> Migrated(caller)] /\ visibleActive = Default
    BY <2>1, <2>3, Seen DEF SeenStore, SeenActive
  <2>6. visibleStore' = Shown({Default}, config') /\ visibleActive' = Default
    BY <2>1, <2>2, Seen, SeenPlain DEF SeenActive, Plain, IsCreating, IsDeleting
  <2>7. Shown({Default}, config') = [id \in {Default} |-> Migrated(caller)]
    BY <2>3, <2>4 DEF Shown, Content
  <2> QED
    BY <2>5, <2>6, <2>7
<1>6. CASE NewActive(caller)
  <2>1. /\ me.pc = "newActive" /\ UNCHANGED <<list, config>> /\ list = {Default}
        /\ active' = Default /\ me'.pc = "newDropKey"
    BY <1>6, MyGoto DEF NewActive, At, me, HeldList
  <2>2. visibleStore = Shown(list, config) /\ visibleActive = Default
    BY <2>1, Seen DEF SeenStore, SeenActive, Shown, IsCreating, IsDeleting
  <2>3. visibleStore' = Shown(list, config) /\ visibleActive' = Default
    BY <2>1, Seen, SeenPlain DEF Plain, IsCreating, IsDeleting
  <2> QED
    BY <2>2, <2>3
<1>7. CASE NewDropKey(caller)
  <2>1. /\ me.pc = "newDropKey" /\ UNCHANGED <<list, config, active>> /\ list = {Default}
        /\ me'.pc = "newDropDb"
    BY <1>7, MyGoto DEF NewDropKey, At, me, HeldList
  <2> QED
    BY <2>1, QuietStep DEF Plain, IsCreating, IsDeleting
<1>8. CASE NewDropDb(caller)
  <2>1. /\ me.pc = "newDropDb" /\ UNCHANGED <<list, config, active>> /\ list = {Default}
        /\ call' = [call EXCEPT ![caller] =
                      [me EXCEPT !.profs = {Default}, !.act = Default, !.pc = "body"]]
    BY <1>8 DEF NewDropDb, At, me, IInv, TypeOK, HeldList
  <2>2. me' = [me EXCEPT !.profs = {Default}, !.act = Default, !.pc = "body"]
    <3> DEFINE r == [me EXCEPT !.profs = {Default}, !.act = Default, !.pc = "body"]
    <3>1. call' = [call EXCEPT ![caller] = r]
      BY <2>1
    <3> HIDE DEF r
    <3>2. me' = r
      BY <3>1, MyStep
    <3> QED
      BY <3>2 DEF r
  <2>3. me'.pc = "body"
    BY <2>2, MyRecord DEF CallRecord
  <2> QED
    BY <2>1, <2>3, QuietStep DEF Plain, IsCreating, IsDeleting
<1> QED
  BY <1>1, <1>2, <1>3, <1>4, <1>5, <1>6, <1>7, <1>8 DEF Migrate

\* What the body of each exported function does to what the client sees.
ShowsNothing == UNCHANGED <<visibleStore, visibleActive>>

LEMMA SaveSeen ==
    ASSUME IInv, AloneInv, caller \in Callers, SaveConfig(caller)
    PROVE  Store!StoreSave(me.id, me.val)
<1>1. /\ me.pc = "body" /\ me.id \in me.profs /\ list = me.profs
      /\ UNCHANGED <<list, active>> /\ config' = [config EXCEPT ![me.id] = me.val]
      /\ me'.pc = "touchGet" /\ list # {}
  BY MyGoto DEF SaveConfig, At, me, AloneInv, HeldList
<1>2. visibleStore = Shown(list, config) /\ visibleActive = active
  BY <1>1, Seen, SeenPlain DEF Plain, IsCreating, IsDeleting
<1>3. visibleStore' = Shown(list, config') /\ visibleActive' = active
  BY <1>1, Seen, SeenPlain DEF Plain, IsCreating, IsDeleting
<1>4. Content(config', me.id) = me.val
  BY <1>1, MyRecord DEF Content
<1>5. \A id \in list \ {me.id} : Content(config', id) = Content(config, id)
  BY <1>1, MyRecord DEF Content
<1>6. Shown(list, config') = [Shown(list, config) EXCEPT ![me.id] = me.val]
  BY <1>1, <1>4, <1>5 DEF Shown
<1>7. DOMAIN Shown(list, config) = list
  BY DEF Shown
<1> QED
  BY <1>1, <1>2, <1>3, <1>6, <1>7 DEF Store!StoreSave

LEMMA SelectSeen ==
    ASSUME IInv, AloneInv, caller \in Callers, Select(caller)
    PROVE  Store!StoreSelect(me.id)
<1>1. /\ me.pc = "body" /\ me.id \in me.profs /\ list = me.profs
      /\ UNCHANGED <<list, config>> /\ active' = me.id
      /\ me'.pc = "idle" /\ list # {}
  BY MyEnd DEF Select, At, me, AloneInv, HeldList
<1>2. visibleStore = Shown(list, config)
  BY <1>1, Seen, SeenPlain DEF Plain, IsCreating, IsDeleting
<1>3. visibleStore' = Shown(list, config) /\ visibleActive' = me.id
  BY <1>1, Seen, SeenPlain DEF Plain, IsCreating, IsDeleting
<1>4. DOMAIN Shown(list, config) = list
  BY DEF Shown
<1> QED
  BY <1>1, <1>2, <1>3, <1>4 DEF Store!StoreSelect

LEMMA CreateSeen ==
    ASSUME IInv, AloneInv, caller \in Callers, CreateList(caller)
    PROVE  Store!StoreCreate(me.id, me.val)
<1>1. /\ me.pc = "body" /\ me.op = "create" /\ list = me.profs /\ list # {}
      /\ list' = list \cup {me.id} /\ config' = config /\ me.id \notin list
      /\ me'.pc = "createConfig" /\ me'.id = me.id /\ me'.val = me.val
  BY MyGoto DEF CreateList, At, me, AloneInv, HeldList, HeldIds, IInv, HoldsProfiles, Listed
<1>2. visibleStore = Shown(list, config)
  BY <1>1, Seen, SeenPlain DEF Plain, IsCreating, IsDeleting
<1>3. /\ visibleStore' = [p \in list \cup {me.id} |->
                            IF p = me.id THEN me.val ELSE Content(config, p)]
      /\ visibleActive' = me.id
  BY <1>1, Seen DEF SeenStore, SeenActive, IsCreating, IsDeleting
<1>4. DOMAIN Shown(list, config) = list /\ \A p \in list : Shown(list, config)[p] = Content(config, p)
  BY DEF Shown
<1>5. visibleStore' = [p \in list \cup {me.id} |->
                            IF p = me.id THEN me.val ELSE Shown(list, config)[p]]
  BY <1>3, <1>4
<1>6. me.id \in Ids \ list
  BY <1>1, MyRecord
<1> QED
  BY <1>2, <1>3, <1>4, <1>5, <1>6 DEF Store!StoreCreate

LEMMA CreateConfigSeen ==
    ASSUME IInv, AloneInv, caller \in Callers, CreateConfig(caller)
    PROVE  ShowsNothing
<1>1. /\ me.pc = "createConfig" /\ list = me.profs \cup {me.id} /\ list # {}
      /\ list' = list /\ active' = active /\ config' = [config EXCEPT ![me.id] = me.val]
      /\ me'.pc = "createActive" /\ me'.id = me.id /\ me'.val = me.val
  BY MyGoto DEF CreateConfig, At, me, AloneInv, HeldList
<1>2. \A p \in list \ {me.id} : Content(config', p) = Content(config, p)
  BY <1>1, MyRecord DEF Content
<1>3. visibleStore = [p \in list |-> IF p = me.id THEN me.val ELSE Content(config, p)]
  BY <1>1, Seen DEF SeenStore, IsCreating, IsDeleting
<1>4. visibleStore' = [p \in list |-> IF p = me.id THEN me.val ELSE Content(config', p)]
  BY <1>1, Seen DEF SeenStore, IsCreating, IsDeleting
<1>5. visibleActive' = visibleActive
  BY <1>1, Seen DEF SeenActive, IsCreating, IsDeleting
<1> QED
  BY <1>2, <1>3, <1>4, <1>5 DEF ShowsNothing

LEMMA CreateActiveSeen ==
    ASSUME IInv, AloneInv, caller \in Callers, CreateActive(caller)
    PROVE  ShowsNothing
<1>1. /\ me.pc = "createActive" /\ me.id \in list /\ config[me.id] = me.val /\ list # {}
      /\ UNCHANGED <<list, config>> /\ active' = me.id /\ me'.pc = "idle"
  BY MyEnd DEF CreateActive, At, me, AloneInv, HeldList, HeldConfig
<1>2. Content(config, me.id) = me.val
  BY <1>1, MyRecord DEF Content
<1>3. visibleStore = [p \in list |-> IF p = me.id THEN me.val ELSE Content(config, p)]
  BY <1>1, Seen DEF SeenStore, IsCreating, IsDeleting
<1>4. visibleActive = me.id
  BY <1>1, Seen DEF SeenActive, IsCreating, IsDeleting
<1>5. visibleStore' = Shown(list, config) /\ visibleActive' = me.id
  BY <1>1, Seen, SeenPlain DEF Plain, IsCreating, IsDeleting
<1>6. Shown(list, config) = [p \in list |-> IF p = me.id THEN me.val ELSE Content(config, p)]
  BY <1>2 DEF Shown
<1> QED
  BY <1>3, <1>4, <1>5, <1>6 DEF ShowsNothing

LEMMA DeleteSeen ==
    ASSUME IInv, AloneInv, caller \in Callers, DeleteConfig(caller)
    PROVE  Store!StoreDelete(me.id)
<1>1. /\ me.pc = "body" /\ MayDelete(caller) /\ list = me.profs /\ active = me.act
      /\ UNCHANGED <<list, active>> /\ config' = [config EXCEPT ![me.id] = None]
  BY DEF DeleteConfig, At, me, AloneInv, HeldList, HeldActive
<1>2. me.id \in list /\ list \ {me.id} # {}
  BY <1>1, MyRecord, DeletionLeavesOne DEF MayDelete, me
<1>3. PICK a \in NextActive(caller) :
          call' = [call EXCEPT ![caller].act = a, ![caller].pc = "deleteList"]
  BY DEF DeleteConfig
<1>4. me'.pc = "deleteList" /\ me'.act = a /\ me'.id = me.id
  <2> DEFINE r == [me EXCEPT !.act = a, !.pc = "deleteList"]
  <2>1. call' = [call EXCEPT ![caller] = r]
    BY <1>3 DEF me, IInv, TypeOK
  <2>2. r.pc = "deleteList" /\ r.act = a /\ r.id = me.id
    BY MyRecord DEF CallRecord
  <2> HIDE DEF r
  <2> QED
    BY <2>1, <2>2, MyStep
<1>5. IF active = me.id THEN a \in list \ {me.id} ELSE a = active
  BY <1>1 DEF NextActive, me
<1>6. visibleStore = Shown(list, config) /\ visibleActive = active
  BY <1>1, <1>2, Seen, SeenPlain DEF Plain, IsCreating, IsDeleting
<1>7. /\ visibleStore' = [p \in list \ {me.id} |-> Content(config', p)]
      /\ visibleActive' = a
  BY <1>1, <1>2, <1>4, Seen DEF SeenStore, SeenActive, IsCreating, IsDeleting
<1>8. \A p \in list \ {me.id} : Content(config', p) = Shown(list, config)[p]
  BY <1>1, MyRecord DEF Content, Shown
<1>9. visibleStore' = [p \in list \ {me.id} |-> Shown(list, config)[p]]
  BY <1>7, <1>8
<1>10. DOMAIN Shown(list, config) = list
  BY DEF Shown
<1> QED
  BY <1>2, <1>5, <1>6, <1>7, <1>9, <1>10 DEF Store!StoreDelete

LEMMA DeleteListSeen ==
    ASSUME IInv, AloneInv, caller \in Callers, DeleteList(caller)
    PROVE  ShowsNothing
<1>1. /\ me.pc = "deleteList" /\ list = me.profs /\ list \ {me.id} # {}
      /\ list' = list \ {me.id} /\ UNCHANGED <<config, active>>
      /\ me'.pc = "deleteActive" /\ me'.id = me.id /\ me'.act = me.act
  BY MyGoto DEF DeleteList, Remaining, At, me, AloneInv, HeldList, IInv, HoldsProfiles
<1>2. visibleStore = [p \in list \ {me.id} |-> Content(config, p)] /\ visibleActive = me.act
  BY <1>1, Seen DEF SeenStore, SeenActive, IsCreating, IsDeleting
<1>3. (list \ {me.id}) \ {me.id} = list \ {me.id}
  OBVIOUS
<1>4. visibleStore' = [p \in list \ {me.id} |-> Content(config, p)] /\ visibleActive' = me.act
  BY <1>1, <1>3, Seen DEF SeenStore, SeenActive, IsCreating, IsDeleting
<1> QED
  BY <1>2, <1>4 DEF ShowsNothing

LEMMA DeleteActiveSeen ==
    ASSUME IInv, AloneInv, caller \in Callers, DeleteActive(caller)
    PROVE  ShowsNothing
<1>1. /\ me.pc = "deleteActive" /\ me.id \notin list /\ me.act \in list
      /\ UNCHANGED <<list, config>> /\ active' = me.act /\ me'.pc = "idle"
  BY MyEnd DEF DeleteActive, At, me, AloneInv, HeldList, HeldActive
<1>2. list \ {me.id} = list
  BY <1>1
<1>3. visibleStore = Shown(list, config) /\ visibleActive = me.act
  BY <1>1, <1>2, Seen DEF SeenStore, SeenActive, Shown, IsCreating, IsDeleting
<1>4. visibleStore' = Shown(list, config) /\ visibleActive' = me.act
  BY <1>1, Seen, SeenPlain DEF Plain, IsCreating, IsDeleting
<1> QED
  BY <1>3, <1>4 DEF ShowsNothing

LEMMA ClearSeen ==
    ASSUME IInv, caller \in Callers, ClearStore(caller)
    PROVE  Store!StoreClear
<1>1. list' = {} /\ me'.pc = "clearDb"
  BY MyGoto DEF ClearStore, NoList
<1> QED
  BY <1>1, Seen DEF SeenStore, SeenActive, PendingIn, Store!StoreClear

LEMMA ClearDbSeen ==
    ASSUME IInv, AloneInv, caller \in Callers, ClearDb(caller)
    PROVE  ShowsNothing
<1>1. /\ me.pc = "clearDb" /\ list = {} /\ list' = {} /\ legacyKey' = None /\ legacyDb' = None
      /\ me'.pc = "getList"
  BY MyGoto DEF ClearDb, At, me, AloneInv, HeldList, HeldConfig, NoList
<1>2. PendingIn(me', legacyKey', legacyDb') = PendingIn(me, legacyKey, legacyDb)
  BY <1>1, NoneIsApart DEF PendingIn
<1> QED
  BY <1>1, <1>2, EmptyStep DEF ShowsNothing

\* The steps of a body that end it or only touch the list it has read.
LEMMA RestSeen ==
    ASSUME IInv, AloneInv, caller \in Callers,
           \/ Reject(caller) \/ Reply(caller) \/ TouchGet(caller) \/ TouchPut(caller)
           \/ Rename(caller)
    PROVE  ShowsNothing
<1> USE DEF Plain, IsCreating, IsDeleting, ShowsNothing
<1>0. me.pc \in Listed => me.profs # {}
  BY DEF IInv, HoldsProfiles, me
<1>1. CASE Reject(caller) \/ Reply(caller) \/ Rename(caller)
  <2>1. me.pc = "body" /\ Finish(caller) /\ UNCHANGED <<config, active>>
    BY <1>1 DEF Reject, Reply, Rename, At, me, db
  <2>2. list' = list /\ list # {}
    BY <1>0, <1>1, <2>1 DEF Reject, Reply, Rename, me, db, AloneInv, HeldList, Listed
  <2> QED
    BY <2>1, <2>2, MyEnd, QuietStep
<1>2. CASE TouchPut(caller)
  <2>1. me.pc = "touchPut" /\ Finish(caller) /\ UNCHANGED <<config, active>> /\ list' = me.profs
    BY <1>2 DEF TouchPut, At, me
  <2>2. list' = list /\ list # {}
    BY <1>0, <2>1 DEF AloneInv, HeldList, Listed
  <2> QED
    BY <2>1, <2>2, MyEnd, QuietStep
<1>3. CASE TouchGet(caller)
  <2>1. me.pc = "touchGet" /\ UNCHANGED <<list, config, active, legacyKey, legacyDb>>
    BY <1>3 DEF TouchGet, At, me, db
  <2>2. me'.pc \in {"touchPut", "idle"}
    <3>1. CASE me.id \in list
      <4> DEFINE r == [me EXCEPT !.profs = list, !.pc = "touchPut"]
      <4>1. call' = [call EXCEPT ![caller] = r]
        BY <1>3, <3>1 DEF TouchGet, me, IInv, TypeOK
      <4>2. r.pc = "touchPut"
        BY MyRecord DEF CallRecord
      <4> HIDE DEF r
      <4> QED
        BY <4>1, <4>2, MyStep
    <3>2. CASE me.id \notin list
      BY <1>3, <3>2, MyEnd DEF TouchGet, me
    <3> QED
      BY <3>1, <3>2
  <2>3. CASE list # {}
    BY <2>1, <2>2, <2>3, QuietStep
  <2>4. CASE list = {}
    BY <2>1, <2>2, <2>4, EmptyStep DEF PendingIn
  <2> QED
    BY <2>3, <2>4
<1> QED
  BY <1>1, <1>2, <1>3

LEMMA BodySeen ==
    ASSUME IInv, AloneInv, caller \in Callers, Body(caller)
    PROVE  Store!StoreNext \/ ShowsNothing
<1>1. me.id \in Ids /\ me.val \in Values
  BY MyRecord
<1>2. CASE SaveConfig(caller)
  BY <1>1, <1>2, SaveSeen DEF Store!StoreNext
<1>3. CASE Select(caller)
  BY <1>1, <1>3, SelectSeen DEF Store!StoreNext
<1>4. CASE CreateList(caller)
  BY <1>1, <1>4, CreateSeen DEF Store!StoreNext
<1>5. CASE DeleteConfig(caller)
  BY <1>1, <1>5, DeleteSeen DEF Store!StoreNext
<1>6. CASE ClearStore(caller)
  BY <1>6, ClearSeen DEF Store!StoreNext
<1> QED
  BY <1>2, <1>3, <1>4, <1>5, <1>6, CreateConfigSeen, CreateActiveSeen, DeleteListSeen,
     DeleteActiveSeen, ClearDbSeen, RestSeen DEF Body

\* The step correspondence.
LEMMA StepSeen ==
    ASSUME IInv, Sequential => AloneInv, NEW c \in Callers, Step(c), Sequential, cut' = "none"
    PROVE  Store!StoreNext \/ ShowsNothing
<1>1. c = caller /\ caller \in Callers /\ AloneInv
  BY OnlyCaller DEF AloneInv
<1>2. CASE Begin(caller)
  BY <1>1, <1>2, BeginSeen DEF ShowsNothing
<1>3. ~Close(caller)
  BY DEF Close
<1>4. CASE Ensure(caller)
  BY <1>1, <1>4, EnsureSeen DEF ShowsNothing, Ensure, GetList, DropKey, DropDb, PutList,
     GetActive, PutActive, GetConfig, PutSample
<1>5. CASE Migrate(caller)
  BY <1>1, <1>5, MigrateSeen DEF ShowsNothing
<1>6. CASE Body(caller)
  BY <1>1, <1>6, BodySeen
<1> QED
  BY <1>1, <1>2, <1>3, <1>4, <1>5, <1>6 DEF Step, Run

\* Calls made one after the other are the operations of a profile store that
\* take effect at once: creating, deleting, saving, selecting and clearing
\* (storage/user.js) appear to a single client as one step each, migration and
\* repair as none, until a page is closed in the middle of a call.
THEOREM OneTabIsStore ==
    ASSUME Callers # {}
    PROVE  MCSpec => ImplementsStoreAlone
<1>1. MCInit => (Sequential => Store!StoreInit)
  <2> SUFFICES ASSUME MCInit PROVE Store!StoreInit
    OBVIOUS
  <2>1. list = {} /\ me = Idle /\ legacyKey \in {Legacy, None} /\ legacyDb \in {Legacy, None}
    BY OneCaller DEF MCInit, Init, me, NoList
  <2>2. visibleStore = [id \in {Default} |-> PendingIn(me, legacyKey, legacyDb)]
        /\ visibleActive = Default
    BY <2>1, Seen DEF SeenStore, SeenActive
  <2>3. PendingIn(me, legacyKey, legacyDb) \in Values
    BY <2>1 DEF PendingIn, Idle, Values
  <2> QED
    BY <2>2, <2>3 DEF Store!StoreInit
<1>2. IInv /\ (Sequential => AloneInv) /\ [MCNext]_allVars =>
        [Sequential /\ cut' = "none" => Store!StoreNext]_<<visibleStore, visibleActive>>
  <2> SUFFICES ASSUME IInv, Sequential => AloneInv, [MCNext]_allVars, Sequential, cut' = "none"
               PROVE  Store!StoreNext \/ ShowsNothing
    BY DEF ShowsNothing
  <2>1. CASE UNCHANGED allVars
    <3>1. me' = me /\ UNCHANGED <<list, config, active, legacyKey, legacyDb>>
      BY <2>1 DEF allVars, vars, me
    <3> QED
      BY <3>1, Seen DEF ShowsNothing
  <2>2. CASE MCNext
    BY <2>2, StepSeen DEF MCNext
  <2> QED
    BY <2>1, <2>2
<1> QED
  BY <1>1, <1>2, AlwaysAlone, MCImplies, TypeCorrect, PTL DEF MCSpec, ImplementsStoreAlone
=============================================================================
