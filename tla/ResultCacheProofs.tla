-------------------------- MODULE ResultCacheProofs --------------------------
(***************************************************************************)
(* For every number of profiles, inputs and results: the types of the      *)
(* result history; that no result of data before a resource operation is   *)
(* reused after it, when no calculation starts during one and none starts  *)
(* during a deletion, and that no result is reused that is not of the      *)
(* current data, when besides only resource operations change the data;    *)
(* that memory and disk agree when handlers overlap as Serial allows; that *)
(* what is shown belongs to its profile; and that storing a result leaves  *)
(* the histories of other profiles alone.                                  *)
(***************************************************************************)
EXTENDS ResultCache, TLAPS

LEMMA NewEntryType ==
    ASSUME HistoryTypeOK, created < MaxResults
    PROVE  NewEntry \in Entry
  BY ResultCacheAssumption DEF HistoryTypeOK, NewEntry, Entry, CalcState, Reusable

LEMMA IdleType ==
    ASSUME activeProfile \in Profiles
    PROVE  IdleCalc \in CalcState
  BY ResultCacheAssumption DEF IdleCalc, CalcState

LEMMA NoDeletionType == NoDeletion \in [busy : BOOLEAN, previous : SUBSET Entry]
  BY DEF NoDeletion

LEMMA Increment ==
    ASSUME NEW max \in Nat, NEW n \in 0..max, n < max
    PROVE  n + 1 \in 0..max
  OBVIOUS

LEMMA MarkedType ==
    ASSUME NEW S \in SUBSET Entry
    PROVE  Invalidated(S) \in SUBSET Entry
  BY DEF Entry, Invalidated

LEMMA PersistType ==
    ASSUME writes \in Seq(Write), NEW content \in SUBSET Entry, NEW by \in Kinds,
           Persist(content, by)
    PROVE  writes' \in Seq(Write)
  <1>1. [content |-> content, by |-> by] \in Write
    BY DEF Write
  <1> QED
    BY <1>1 DEF Persist

LEMMA NewestSubset ==
    ASSUME NEW S, NEW p
    PROVE  Newest(S, p) \subseteq S
  BY DEF Newest

LEMMA HeadTailWrite ==
    ASSUME writes \in Seq(Write), writes # <<>>
    PROVE  /\ Head(writes) \in Write
           /\ Tail(writes) \in Seq(Write)
  OBVIOUS

LEMMA MarkedNotReusable ==
    ASSUME NEW S \in SUBSET Entry
    PROVE  \A e \in Invalidated(S) : ~e.reusable
  BY DEF Entry, Invalidated

-----------------------------------------------------------------------------
(* Types *)

LEMMA CoreLoadedType == HistoryTypeOK /\ CoreLoaded => HistoryTypeOK'
  <1> SUFFICES ASSUME HistoryTypeOK, CoreLoaded PROVE HistoryTypeOK'
    OBVIOUS
  <1>1. data' \in 0..MaxData
    BY Increment, ResultCacheAssumption DEF HistoryTypeOK, CoreLoaded
  <1>2. calc' \in CalcState
    BY <1>1, IdleType DEF HistoryTypeOK, CoreLoaded, EndCalculation, CalcState
  <1> QED
    BY <1>1, <1>2 DEF HistoryTypeOK, CoreLoaded

LEMMA LookupType == HistoryTypeOK /\ Lookup => HistoryTypeOK'
  <1> SUFFICES ASSUME HistoryTypeOK, Lookup PROVE HistoryTypeOK'
    OBVIOUS
  <1>1. calc' \in CalcState
    BY IdleType DEF HistoryTypeOK, Lookup, EndCalculation, CalcState
  <1>2. shown' \in [Profiles -> Profiles \cup {None}]
    BY DEF HistoryTypeOK, Lookup, Hits, Entry, CalcState
  <1> QED
    BY <1>1, <1>2 DEF HistoryTypeOK, Lookup

LEMMA CalculatedType == HistoryTypeOK /\ Calculated => HistoryTypeOK'
  <1> SUFFICES ASSUME HistoryTypeOK, Calculated PROVE HistoryTypeOK'
    OBVIOUS
  <1>1. cache' \in SUBSET Entry
    BY NewEntryType, NewestSubset DEF HistoryTypeOK, Calculated, DropSameKey
  <1>2. writes' \in Seq(Write)
    BY <1>1, PersistType DEF HistoryTypeOK, Calculated, Kinds
  <1>3. calc' \in CalcState
    BY DEF HistoryTypeOK, Calculated, CalcState
  <1>4. created' \in 0..MaxResults
    BY Increment, ResultCacheAssumption DEF HistoryTypeOK, Calculated
  <1> QED
    BY <1>1, <1>2, <1>3, <1>4 DEF HistoryTypeOK, Calculated

LEMMA FailsType == HistoryTypeOK /\ CalculationFails => HistoryTypeOK'
  BY IdleType DEF HistoryTypeOK, CalculationFails, EndCalculation

LEMMA StartCalculateType ==
    ASSUME NEW input \in Inputs, HistoryTypeOK, StartCalculate(input)
    PROVE  HistoryTypeOK'
  <1>1. calc' \in CalcState
    BY IdleType DEF HistoryTypeOK, StartCalculate, CalcState
  <1> QED
    BY <1>1 DEF HistoryTypeOK, StartCalculate

LEMMA StartUpdateType == HistoryTypeOK /\ StartUpdate => HistoryTypeOK'
  <1> SUFFICES ASSUME HistoryTypeOK, StartUpdate PROVE HistoryTypeOK'
    OBVIOUS
  <1>1. cache' \in SUBSET Entry
    BY MarkedType DEF HistoryTypeOK, StartUpdate
  <1>2. writes' \in Seq(Write)
    BY <1>1, PersistType DEF HistoryTypeOK, StartUpdate, Kinds
  <1>3. generation' \in 0..MaxGeneration
    BY Increment, ResultCacheAssumption DEF HistoryTypeOK, StartUpdate
  <1> QED
    BY <1>1, <1>2, <1>3 DEF HistoryTypeOK, StartUpdate

LEMMA DeleteType ==
    ASSUME NEW removed, HistoryTypeOK, Delete(removed)
    PROVE  HistoryTypeOK'
  <1>1. writes' \in Seq(Write)
    BY PersistType DEF HistoryTypeOK, Delete, Kinds
  <1> QED
    BY <1>1 DEF HistoryTypeOK, Delete

LEMMA ClearedType == HistoryTypeOK /\ ProfilesCleared => HistoryTypeOK'
  <1> SUFFICES ASSUME HistoryTypeOK, ProfilesCleared PROVE HistoryTypeOK'
    OBVIOUS
  <1>1. writes' \in Seq(Write)
    BY PersistType DEF HistoryTypeOK, ProfilesCleared, Kinds
  <1> QED
    BY <1>1 DEF HistoryTypeOK, ProfilesCleared

LEMMA WriteSettlesType == HistoryTypeOK /\ WriteSettles => HistoryTypeOK'
  <1> SUFFICES ASSUME HistoryTypeOK, WriteSettles PROVE HistoryTypeOK'
    OBVIOUS
  <1> DEFINE w == Head(writes)
  <1>1. w \in Write /\ writes' \in Seq(Write)
    BY HeadTailWrite DEF HistoryTypeOK, WriteSettles
  <1>2. PICK saved \in {TRUE, ~MayFail} :
          /\ disk' = IF saved THEN w.content ELSE disk
          /\ unsaved' = (~saved /\ (w.by \in {"delete", "clear"} => unsaved))
          /\ \/ CalculationStored(w)
             \/ UpdateMarked(w, saved)
             \/ DeletionStored(w, saved)
             \/ HistoryCleared(w, saved)
    BY DEF WriteSettles
  <1>3. saved \in BOOLEAN
    BY ResultCacheAssumption
  <1>4. disk' \in SUBSET Entry /\ unsaved' \in BOOLEAN
    <2>1. w.content \in SUBSET Entry
      BY <1>1 DEF Write
    <2> QED
      BY <1>2, <1>3, <2>1 DEF HistoryTypeOK
  <1>5. /\ cache' \in SUBSET Entry
        /\ calc' \in CalcState
        /\ update' \in {"idle", "marking", "running"}
        /\ deletion' \in [busy : BOOLEAN, previous : SUBSET Entry]
        /\ clear' \in {"idle", "draining", "deleting"}
        /\ shown' \in [Profiles -> Profiles \cup {None}]
    <2>1. CASE CalculationStored(w)
      BY <2>1, IdleType
         DEF HistoryTypeOK, CalcState, CalculationStored, EndCalculation, ResultOwner
    <2>2. CASE UpdateMarked(w, saved)
      BY <2>2, <1>3 DEF HistoryTypeOK, UpdateMarked, UpdateAfter
    <2>3. CASE DeletionStored(w, saved)
      BY <2>3, <1>3 DEF HistoryTypeOK, DeletionStored, Rollback, NoDeletion
    <2>4. CASE HistoryCleared(w, saved)
      BY <2>4, <1>3 DEF HistoryTypeOK, HistoryCleared
    <2> QED
      BY <1>2, <2>1, <2>2, <2>3, <2>4
  <1> QED
    BY <1>1, <1>4, <1>5 DEF HistoryTypeOK, WriteSettles

LEMMA RestoreType ==
    ASSUME NEW input \in Inputs, HistoryTypeOK, RestoreResult(input)
    PROVE  HistoryTypeOK'
  <1>1. shown' \in [Profiles -> Profiles \cup {None}]
    BY DEF HistoryTypeOK, RestoreResult, Entry, SameKey
  <1> QED
    BY <1>1 DEF HistoryTypeOK, RestoreResult

LEMMA ReloadType == HistoryTypeOK /\ Reload => HistoryTypeOK'
  <1> SUFFICES ASSUME HistoryTypeOK, Reload PROVE HistoryTypeOK'
    OBVIOUS
  <1>1. data' \in 0..MaxData /\ renewed' \in 0..MaxData
    <2>1. data \in 0..MaxData /\ MaxData \in Nat /\ renewed \in 0..MaxData
      BY ResultCacheAssumption DEF HistoryTypeOK
    <2>2. data' = data \/ (data < MaxData /\ data' = data + 1)
      BY DEF Reload
    <2>3. renewed' = data' \/ renewed' = renewed
      BY DEF Reload
    <2> QED
      BY <2>1, <2>2, <2>3
  <1>2. calc' \in CalcState
    BY IdleType DEF HistoryTypeOK, Reload
  <1>3. writes' \in Seq(Write)
    BY DEF Reload
  <1>4. generation' \in 0..MaxGeneration
    BY ResultCacheAssumption DEF Reload
  <1>5. deletion' \in [busy : BOOLEAN, previous : SUBSET Entry]
    BY NoDeletionType DEF Reload
  <1>6. shown' \in [Profiles -> Profiles \cup {None}]
    BY DEF Reload
  <1> QED
    BY <1>1, <1>2, <1>3, <1>4, <1>5, <1>6 DEF HistoryTypeOK, Reload

\* Type correctness of the result history, for every value of the constants.
THEOREM TypeCorrect == HistorySpec => []HistoryTypeOK
  <1>1. HistoryInit => HistoryTypeOK
    <2> SUFFICES ASSUME HistoryInit PROVE HistoryTypeOK
      OBVIOUS
    <2>1. data \in 0..MaxData /\ generation \in 0..MaxGeneration /\ created \in 0..MaxResults
      BY ResultCacheAssumption DEF HistoryInit
    <2>2. calc \in CalcState /\ deletion \in [busy : BOOLEAN, previous : SUBSET Entry]
      BY IdleType, NoDeletionType DEF HistoryInit
    <2>3. writes \in Seq(Write) /\ shown \in [Profiles -> Profiles \cup {None}]
      BY DEF HistoryInit
    <2> QED
      BY <2>1, <2>2, <2>3 DEF HistoryInit, HistoryTypeOK
  <1>2. HistoryTypeOK /\ [HistoryNext]_historyVars => HistoryTypeOK'
    <2> SUFFICES ASSUME HistoryTypeOK, [HistoryNext]_historyVars PROVE HistoryTypeOK'
      OBVIOUS
    <2>1. CASE CalculateStep
      BY <2>1, CoreLoadedType, LookupType, CalculatedType, FailsType DEF CalculateStep
    <2>2. CASE WriteSettles \/ ProfilesCleared \/ StartUpdate \/ Reload
      BY <2>2, WriteSettlesType, ClearedType, StartUpdateType, ReloadType
    <2>3. CASE \E input \in Inputs :
                 StartCalculate(input) \/ DeleteEntry(input) \/ RestoreResult(input)
      BY <2>3, StartCalculateType, DeleteType, RestoreType DEF DeleteEntry
    <2>4. CASE DeleteHistory
      BY <2>4, DeleteType DEF DeleteHistory
    <2>5. CASE UpdateDone
      BY <2>5 DEF HistoryTypeOK, UpdateDone
    <2>6. CASE StartClearing
      BY <2>6 DEF HistoryTypeOK, StartClearing
    <2>7. CASE \E p \in Profiles : SwitchProfile(p)
      BY <2>7 DEF HistoryTypeOK, SwitchProfile
    <2>8. CASE UNCHANGED historyVars
      BY <2>8 DEF HistoryTypeOK, historyVars
    <2> QED
      BY <2>1, <2>2, <2>3, <2>4, <2>5, <2>6, <2>7, <2>8 DEF HistoryNext
  <1> QED
    BY <1>1, <1>2, PTL DEF HistorySpec

-----------------------------------------------------------------------------
(* No stale reuse *)

\* The versions of the data since the last resource operation.
Versions == renewed..data

Fresh(entries, versions) == \A e \in entries : e.reusable => e.data \in versions
Dead(entries) == \A e \in entries : ~e.reusable

\* Everything that is, was or will be in memory or on disk is fresh.
AllFresh ==
    /\ Fresh(cache, Versions) /\ Fresh(disk, Versions) /\ Fresh(deletion.previous, Versions)
    /\ \A n \in 1..Len(writes) : Fresh(writes[n].content, Versions)

\* A calculation that may still store a reusable result uses data of these versions.
CalculationFresh ==
    /\ calc.generation <= generation
    /\ calc.at # "load" /\ calc.generation = generation
         => calc.at = "idle" \/ calc.data \in Versions

\* From the invalidation to the end of the operation nothing in memory is
\* reusable and no calculation can store a reusable result.
UpdateSafe ==
    update # "idle" =>
      /\ Dead(cache) /\ Dead(deletion.previous)
      /\ calc.at = "idle" \/ calc.generation # generation

\* The write that marks the entries, and all that follow it, hold nothing
\* reusable; once it has settled, neither does the disk.
MarkingSafe ==
    /\ \A n \in 1..Len(writes) : writes[n].by = "update" =>
         /\ update = "marking"
         /\ \A m \in n..Len(writes) : Dead(writes[m].content)
         /\ \A m \in 1..Len(writes) : writes[m].by = "update" => m = n
    /\ update = "running" =>
         Dead(disk) /\ \A n \in 1..Len(writes) : Dead(writes[n].content)

DeletionSafe == ~deletion.busy => deletion.previous = {}

\* Only loading the core files makes the data newer than the last operation left it.
RenewedSafe ==
    /\ renewed <= data
    /\ ~RemoteUpdates => renewed = data

IInv == RenewedSafe /\ AllFresh /\ CalculationFresh /\ UpdateSafe /\ MarkingSafe /\ DeletionSafe

\* What the user may do for results never to be reused when stale: start no
\* calculation during a resource operation and no resource operation during a
\* deletion.
Careful ==
    /\ <<"calculate", "update">> \notin StartDuring
    /\ <<"update", "delete">> \notin StartDuring

LEMMA SameVersions ==
    ASSUME IInv, UNCHANGED <<data, renewed>>
    PROVE  Versions' = Versions /\ RenewedSafe'
  BY DEF IInv, RenewedSafe, Versions

LEMMA PersistEffect ==
    ASSUME HistoryTypeOK, NEW content \in SUBSET Entry, NEW by \in Kinds, Persist(content, by)
    PROVE  /\ Len(writes) \in Nat /\ Len(writes') = Len(writes) + 1
           /\ \A n \in 1..Len(writes) : writes'[n] = writes[n]
           /\ writes'[Len(writes')] = [content |-> content, by |-> by]
  <1>1. [content |-> content, by |-> by] \in Write /\ writes \in Seq(Write)
    BY DEF Write, HistoryTypeOK
  <1> QED
    BY <1>1 DEF Persist

LEMMA SettleEffect ==
    ASSUME writes \in Seq(Write), writes # <<>>, writes' = Tail(writes)
    PROVE  /\ Len(writes) \in Nat /\ Len(writes') = Len(writes) - 1
           /\ 1 \in 1..Len(writes) /\ Head(writes) = writes[1]
           /\ \A n \in 1..Len(writes') : n + 1 \in 1..Len(writes) /\ writes'[n] = writes[n + 1]
  OBVIOUS

\* A write of entries that are fresh, and dead during an update, may be added.
LEMMA PersistSafe ==
    ASSUME HistoryTypeOK, IInv, Versions' = Versions, UNCHANGED disk,
           NEW content \in SUBSET Entry, NEW by \in Kinds \ {"update"},
           Persist(content, by), Fresh(content, Versions), update # "idle" => Dead(content),
           update' = update
    PROVE  /\ \A n \in 1..Len(writes') : Fresh(writes'[n].content, Versions')
           /\ MarkingSafe'
  <1> DEFINE last == Len(writes')
  <1>1. /\ Len(writes) \in Nat /\ last = Len(writes) + 1
        /\ \A n \in 1..Len(writes) : writes'[n] = writes[n]
        /\ writes'[last].content = content /\ writes'[last].by = by
    <2>1. by \in Kinds
      OBVIOUS
    <2>2. writes'[Len(writes')] = [content |-> content, by |-> by]
      BY <2>1, PersistEffect
    <2> QED
      BY <2>1, <2>2, PersistEffect
  <1>2. \A n \in 1..last : n \in 1..Len(writes) \/ n = last
    BY <1>1
  <1> HIDE DEF last
  <1>3. \A n \in 1..last : Fresh(writes'[n].content, Versions')
    <2>1. \A n \in 1..Len(writes) : Fresh(writes'[n].content, Versions')
      BY <1>1 DEF IInv, AllFresh
    <2>2. Fresh(writes'[last].content, Versions')
      BY <1>1
    <2> QED
      BY <1>2, <2>1, <2>2
  <1>4. ASSUME NEW n \in 1..last, writes'[n].by = "update"
        PROVE  /\ update' = "marking"
               /\ \A m \in n..last : Dead(writes'[m].content)
               /\ \A m \in 1..last : writes'[m].by = "update" => m = n
    <2>1. n \in 1..Len(writes) /\ writes[n].by = "update"
      BY <1>1, <1>2, <1>4
    <2>2. /\ update = "marking"
          /\ \A m \in n..Len(writes) : Dead(writes[m].content)
          /\ \A m \in 1..Len(writes) : writes[m].by = "update" => m = n
      BY <2>1 DEF IInv, MarkingSafe
    <2>3. ASSUME NEW m \in n..last
          PROVE  Dead(writes'[m].content)
      <3>1. m \in n..Len(writes) \/ m = last
        BY <1>1, <2>1
      <3>2. CASE m \in n..Len(writes)
        BY <1>1, <2>1, <2>2, <3>2 DEF Dead
      <3>3. CASE m = last
        BY <1>1, <2>2, <3>3
      <3> QED
        BY <3>1, <3>2, <3>3
    <2>4. ASSUME NEW m \in 1..last, writes'[m].by = "update"
          PROVE  m = n
      BY <1>1, <1>2, <2>2, <2>4
    <2> QED
      BY <2>2, <2>3, <2>4
  <1>5. ASSUME update' = "running"
        PROVE  Dead(disk') /\ \A n \in 1..last : Dead(writes'[n].content)
    <2>1. Dead(disk) /\ \A n \in 1..Len(writes) : Dead(writes[n].content)
      BY <1>5 DEF IInv, MarkingSafe
    <2>2. Dead(disk')
      BY <2>1
    <2>3. \A n \in 1..Len(writes) : Dead(writes'[n].content)
      BY <1>1, <2>1
    <2>4. Dead(writes'[last].content)
      BY <1>1, <1>5
    <2> QED
      BY <1>2, <2>2, <2>3, <2>4
  <1> QED
    BY <1>3, <1>4, <1>5 DEF MarkingSafe, last, Dead

\* Actions that leave history, writes and data alone.
LEMMA HistoryKept ==
    ASSUME HistoryTypeOK, IInv, Versions' = Versions, UNCHANGED <<cache, disk, writes, update, deletion>>
    PROVE  AllFresh' /\ MarkingSafe' /\ DeletionSafe'
  BY DEF IInv, AllFresh, MarkingSafe, DeletionSafe

\* Newer data leaves everything fresh that was.
LEMMA NewerVersions ==
    ASSUME HistoryTypeOK, IInv, renewed' = renewed, data' \in {data, data + 1},
           RemoteUpdates \/ data' = data
    PROVE  /\ Versions \subseteq Versions' /\ RenewedSafe'
           /\ \A entries : Fresh(entries, Versions) => Fresh(entries, Versions')
  <1>1. data \in Int /\ renewed \in Int /\ renewed <= data
    BY DEF HistoryTypeOK, IInv, RenewedSafe
  <1>2. Versions \subseteq Versions'
    BY <1>1 DEF Versions
  <1>3. RenewedSafe'
    BY <1>1 DEF IInv, RenewedSafe
  <1> QED
    BY <1>2, <1>3 DEF Fresh

LEMMA CoreLoadedSafe ==
    ASSUME HistoryTypeOK, IInv, CoreLoaded
    PROVE  IInv'
  <1>1. /\ UNCHANGED <<renewed, generation, cache, disk, writes, update, deletion>>
        /\ data' \in {data, data + 1} /\ (RemoteUpdates \/ data' = data)
    BY DEF CoreLoaded
  <1>2. /\ Versions \subseteq Versions' /\ RenewedSafe'
        /\ \A entries : Fresh(entries, Versions) => Fresh(entries, Versions')
    BY <1>1, NewerVersions
  <1>3. \/ calc' = IdleCalc
        \/ calc' = [calc EXCEPT !.at = "lookup", !.data = data']
    BY DEF CoreLoaded, EndCalculation
  <1>4. data' \in Versions'
    <2>1. data' \in Int /\ renewed \in Int /\ renewed' <= data'
      BY <1>1, <1>2 DEF HistoryTypeOK, RenewedSafe
    <2> QED
      BY <1>1, <2>1 DEF Versions
  <1>5. /\ calc'.generation <= generation
        /\ calc'.at = "idle" \/ (calc'.generation = calc.generation /\ calc'.data = data')
    <2>1. CASE calc' = IdleCalc
      <3>1. calc'.generation = 0 /\ calc'.at = "idle"
        BY <2>1 DEF IdleCalc
      <3>2. generation \in Nat
        BY ResultCacheAssumption DEF HistoryTypeOK
      <3> QED
        BY <3>1, <3>2
    <2>2. CASE calc' = [calc EXCEPT !.at = "lookup", !.data = data']
      <3>1. calc'.generation = calc.generation /\ calc'.data = data'
        BY <2>2 DEF HistoryTypeOK, CalcState
      <3> QED
        BY <3>1 DEF IInv, CalculationFresh
    <2> QED
      BY <1>3, <2>1, <2>2
  <1>6. calc.at # "idle"
    BY DEF CoreLoaded
  <1>7. AllFresh'
    <2>1. /\ Fresh(cache, Versions) /\ Fresh(disk, Versions) /\ Fresh(deletion.previous, Versions)
          /\ \A n \in 1..Len(writes) : Fresh(writes[n].content, Versions)
      BY DEF IInv, AllFresh
    <2>2. /\ Fresh(cache, Versions') /\ Fresh(disk, Versions') /\ Fresh(deletion.previous, Versions')
          /\ \A n \in 1..Len(writes) : Fresh(writes[n].content, Versions')
      BY <1>2, <2>1
    <2> QED
      BY <1>1, <2>2 DEF AllFresh
  <1>8. MarkingSafe' /\ DeletionSafe'
    BY <1>1 DEF IInv, MarkingSafe, DeletionSafe
  <1>9. CalculationFresh' /\ UpdateSafe'
    BY <1>1, <1>4, <1>5, <1>6 DEF IInv, CalculationFresh, UpdateSafe
  <1> QED
    BY <1>2, <1>7, <1>8, <1>9 DEF IInv

\* Actions that end the calculation or move it on from a step after loading.
LEMMA CalculationMoved ==
    ASSUME HistoryTypeOK, IInv, Versions' = Versions, UNCHANGED generation, calc.at \notin {"idle", "load"},
           \/ calc' = IdleCalc
           \/ \E at \in {"lookup", "run", "store"} : calc' = [calc EXCEPT !.at = at]
    PROVE  /\ CalculationFresh'
           /\ update # "idle" => calc'.at = "idle" \/ calc'.generation # generation'
  <1>1. CASE calc' = IdleCalc
    BY <1>1 DEF HistoryTypeOK, CalculationFresh, IdleCalc
  <1>2. CASE \E at \in {"lookup", "run", "store"} : calc' = [calc EXCEPT !.at = at]
    <2>1. /\ calc'.at \in {"lookup", "run", "store"}
          /\ calc'.generation = calc.generation /\ calc'.data = calc.data
      BY <1>2 DEF HistoryTypeOK, CalcState
    <2> QED
      BY <2>1 DEF IInv, CalculationFresh, UpdateSafe
  <1> QED
    BY <1>1, <1>2

LEMMA LookupSafe ==
    ASSUME HistoryTypeOK, IInv, Lookup
    PROVE  IInv'
  <1>1. /\ UNCHANGED <<generation, cache, disk, writes, update, deletion>> /\ Versions' = Versions /\ RenewedSafe'
        /\ calc.at \notin {"idle", "load"}
        /\ calc' = IdleCalc \/ calc' = [calc EXCEPT !.at = "run"]
    BY SameVersions DEF Lookup, EndCalculation
  <1>2. CalculationFresh' /\ (update # "idle" => calc'.at = "idle" \/ calc'.generation # generation')
    BY <1>1, CalculationMoved
  <1> QED
    BY <1>1, <1>2, HistoryKept DEF IInv, UpdateSafe

LEMMA CalculationFailsSafe ==
    ASSUME HistoryTypeOK, IInv, CalculationFails
    PROVE  IInv'
  <1>1. /\ UNCHANGED <<generation, cache, disk, writes, update, deletion>> /\ Versions' = Versions /\ RenewedSafe'
        /\ calc' = IdleCalc
    BY SameVersions DEF CalculationFails, EndCalculation
  <1>2. CalculationFresh' /\ calc'.at = "idle"
    BY <1>1 DEF HistoryTypeOK, CalculationFresh, IdleCalc
  <1> QED
    BY <1>1, <1>2, HistoryKept DEF IInv, UpdateSafe

\* The new entry is fresh, and not reusable during a resource operation.
LEMMA NewEntrySafe ==
    ASSUME HistoryTypeOK, IInv, calc.at = "run"
    PROVE  /\ NewEntry.reusable => NewEntry.data \in Versions
           /\ update # "idle" => ~NewEntry.reusable
  <1>1. NewEntry.reusable = (calc.generation = generation) /\ NewEntry.data = calc.data
    BY DEF NewEntry, Reusable
  <1> QED
    BY <1>1 DEF IInv, CalculationFresh, UpdateSafe

LEMMA CalculatedSafe ==
    ASSUME HistoryTypeOK, IInv, Calculated
    PROVE  IInv'
  <1>1. /\ UNCHANGED <<generation, disk, update, deletion>> /\ Versions' = Versions /\ RenewedSafe'
        /\ calc.at = "run" /\ calc' = [calc EXCEPT !.at = "store"]
        /\ Persist(cache', "calculate")
        /\ cache' = Newest(DropSameKey(cache) \cup {NewEntry}, calc.profile)
    BY SameVersions DEF Calculated
  <1>2. cache' \subseteq cache \cup {NewEntry} /\ cache' \in SUBSET Entry
    BY <1>1, NewestSubset, CalculatedType DEF DropSameKey, HistoryTypeOK
  <1>3. Fresh(cache', Versions) /\ (update # "idle" => Dead(cache'))
    BY <1>1, <1>2, NewEntrySafe DEF IInv, AllFresh, UpdateSafe, Fresh, Dead
  <1>4. (\A n \in 1..Len(writes') : Fresh(writes'[n].content, Versions')) /\ MarkingSafe'
    BY <1>1, <1>2, <1>3, PersistSafe DEF Kinds
  <1>5. CalculationFresh' /\ (update # "idle" => calc'.at = "idle" \/ calc'.generation # generation')
    BY <1>1, CalculationMoved
  <1> QED
    BY <1>1, <1>3, <1>4, <1>5 DEF IInv, AllFresh, UpdateSafe, DeletionSafe

LEMMA StartCalculateSafe ==
    ASSUME Careful, HistoryTypeOK, IInv, NEW input \in Inputs, StartCalculate(input)
    PROVE  IInv'
  <1>1. /\ UNCHANGED <<generation, cache, disk, writes, update, deletion>> /\ Versions' = Versions /\ RenewedSafe'
        /\ MayStart("calculate")
        /\ calc' = [IdleCalc EXCEPT !.at = "load", !.input = input, !.generation = generation]
    BY SameVersions DEF StartCalculate
  <1>2. update = "idle"
    BY <1>1 DEF Careful, MayStart, InProgress, Kinds
  <1>3. calc'.at = "load" /\ calc'.generation = generation
    BY <1>1 DEF IdleCalc
  <1> QED
    BY <1>1, <1>2, <1>3, HistoryKept DEF IInv, CalculationFresh, UpdateSafe, HistoryTypeOK

LEMMA DeleteSafe ==
    ASSUME HistoryTypeOK, IInv, NEW removed, Delete(removed)
    PROVE  IInv'
  <1>1. /\ UNCHANGED <<generation, disk, calc, update>> /\ Versions' = Versions /\ RenewedSafe'
        /\ Persist(cache', "delete")
        /\ cache' = cache \ removed
        /\ deletion' = [busy |-> TRUE, previous |-> cache]
    BY SameVersions DEF Delete
  <1>2. /\ Fresh(cache', Versions) /\ (update # "idle" => Dead(cache'))
        /\ cache' \in SUBSET Entry
    BY <1>1 DEF IInv, AllFresh, UpdateSafe, Fresh, Dead, HistoryTypeOK
  <1>3. (\A n \in 1..Len(writes') : Fresh(writes'[n].content, Versions')) /\ MarkingSafe'
    BY <1>1, <1>2, PersistSafe DEF Kinds
  <1>4. deletion'.busy /\ deletion'.previous = cache
    BY <1>1
  <1> QED
    BY <1>1, <1>2, <1>3, <1>4 DEF IInv, AllFresh, CalculationFresh, UpdateSafe, DeletionSafe

LEMMA ProfilesClearedSafe ==
    ASSUME HistoryTypeOK, IInv, ProfilesCleared
    PROVE  IInv'
  <1>1. /\ UNCHANGED <<generation, cache, disk, calc, update, deletion>> /\ Versions' = Versions /\ RenewedSafe'
        /\ Persist({}, "clear")
    BY SameVersions DEF ProfilesCleared
  <1>2. Fresh({}, Versions) /\ Dead({})
    BY DEF Fresh, Dead
  <1>3. (\A n \in 1..Len(writes') : Fresh(writes'[n].content, Versions')) /\ MarkingSafe'
    BY <1>1, <1>2, PersistSafe DEF Kinds
  <1> QED
    BY <1>1, <1>3 DEF IInv, AllFresh, CalculationFresh, UpdateSafe, DeletionSafe

LEMMA StartUpdateSafe ==
    ASSUME Careful, HistoryTypeOK, IInv, StartUpdate
    PROVE  IInv'
  <1>1. /\ UNCHANGED <<disk, calc, deletion>> /\ Versions' = Versions /\ RenewedSafe'
        /\ update = "idle" /\ update' = "marking" /\ generation' = generation + 1
        /\ cache' = Invalidated(cache) /\ Persist(cache', "update")
        /\ MayStart("update")
    BY SameVersions DEF StartUpdate
  <1>2. cache' \in SUBSET Entry /\ Dead(cache')
    BY <1>1, MarkedType, MarkedNotReusable DEF HistoryTypeOK, Dead
  <1>3. Fresh(cache', Versions')
    BY <1>2 DEF Fresh, Dead
  <1>4. ~deletion.busy /\ deletion.previous = {}
    BY <1>1 DEF Careful, MayStart, InProgress, Kinds, IInv, DeletionSafe
  <1>5. calc.generation # generation' /\ calc.generation <= generation'
    BY <1>1 DEF IInv, CalculationFresh, HistoryTypeOK, CalcState
  <1>6. \A n \in 1..Len(writes) : writes[n].by # "update"
    BY <1>1 DEF IInv, MarkingSafe
  <1> DEFINE last == Len(writes')
  <1>7. /\ Len(writes) \in Nat /\ last = Len(writes) + 1
        /\ \A n \in 1..Len(writes) : writes'[n] = writes[n]
        /\ writes'[last].content = cache' /\ writes'[last].by = "update"
    <2>1. "update" \in Kinds
      BY DEF Kinds
    <2>2. writes'[Len(writes')] = [content |-> cache', by |-> "update"]
      BY <1>1, <1>2, <2>1, PersistEffect
    <2> QED
      BY <1>1, <1>2, <2>1, <2>2, PersistEffect
  <1>8. \A n \in 1..last : n \in 1..Len(writes) \/ n = last
    BY <1>7
  <1> HIDE DEF last
  <1>9. \A n \in 1..last : Fresh(writes'[n].content, Versions')
    BY <1>1, <1>3, <1>7, <1>8 DEF IInv, AllFresh
  <1>10. ASSUME NEW n \in 1..last, writes'[n].by = "update"
         PROVE  /\ \A m \in n..last : Dead(writes'[m].content)
                /\ \A m \in 1..last : writes'[m].by = "update" => m = n
    <2>1. n = last
      BY <1>6, <1>7, <1>8, <1>10
    <2>2. \A m \in n..last : m = last
      BY <1>7, <2>1
    <2>3. \A m \in 1..last : writes'[m].by = "update" => m = n
      BY <1>6, <1>7, <1>8, <2>1
    <2> QED
      BY <1>2, <1>7, <2>2, <2>3
  <1>11. MarkingSafe'
    BY <1>1, <1>10 DEF MarkingSafe, last, Dead
  <1>12. AllFresh'
    BY <1>1, <1>3, <1>9 DEF IInv, AllFresh, last
  <1>13. CalculationFresh' /\ UpdateSafe' /\ DeletionSafe'
    BY <1>1, <1>2, <1>4, <1>5 DEF IInv, CalculationFresh, UpdateSafe, DeletionSafe, Dead
  <1> QED
    BY <1>1, <1>11, <1>12, <1>13 DEF IInv

\* When a resource operation changes the data nothing is reusable any more.
LEMMA UpdateDoneSafe ==
    ASSUME HistoryTypeOK, IInv, UpdateDone
    PROVE  IInv'
  <1>1. /\ UNCHANGED <<generation, cache, disk, writes, calc, deletion>>
        /\ update = "running" /\ update' = "idle" /\ renewed' = data' /\ data' \in Int
    BY DEF UpdateDone
  <1>2. /\ Dead(cache) /\ Dead(disk) /\ Dead(deletion.previous)
        /\ \A n \in 1..Len(writes) : Dead(writes[n].content)
        /\ calc.at = "idle" \/ calc.generation # generation
    BY <1>1 DEF IInv, UpdateSafe, MarkingSafe
  <1>3. AllFresh'
    BY <1>1, <1>2 DEF AllFresh, Fresh, Dead
  <1>4. \A n \in 1..Len(writes) : writes[n].by # "update"
    BY <1>1 DEF IInv, MarkingSafe
  <1>5. MarkingSafe' /\ RenewedSafe'
    BY <1>1, <1>4 DEF MarkingSafe, RenewedSafe
  <1> QED
    BY <1>1, <1>2, <1>3, <1>5 DEF IInv, CalculationFresh, UpdateSafe, DeletionSafe

LEMMA ReloadSafe ==
    ASSUME HistoryTypeOK, IInv, Reload
    PROVE  IInv'
  <1>1. /\ cache' = disk /\ disk' = disk /\ writes' = <<>> /\ generation' = 0
        /\ calc' = IdleCalc /\ update' = "idle" /\ deletion' = NoDeletion
        /\ renewed' = IF update = "running" THEN data' ELSE renewed
        /\ data' \in {data, data + 1} /\ (data' = data \/ update = "running" \/ RemoteUpdates)
        /\ data' \in Int
    BY DEF Reload, HistoryTypeOK
  <1>2. Fresh(disk, Versions') /\ RenewedSafe'
    <2>1. CASE update = "running"
      <3>1. Fresh(disk, Versions')
        BY <2>1 DEF IInv, MarkingSafe, Fresh, Dead
      <3>2. data' \in Int /\ renewed' = data'
        BY <1>1, <2>1
      <3> QED
        BY <3>1, <3>2 DEF RenewedSafe
    <2>2. CASE update # "running"
      <3>1. renewed' = renewed /\ (RemoteUpdates \/ data' = data)
        BY <1>1, <2>2
      <3>2. Fresh(disk, Versions)
        BY DEF IInv, AllFresh
      <3> QED
        BY <1>1, <3>1, <3>2, NewerVersions
    <2> QED
      BY <2>1, <2>2
  <1>3. /\ deletion'.previous = {} /\ calc'.at = "idle" /\ calc'.generation = 0
        /\ Len(writes') = 0
    BY <1>1 DEF NoDeletion, IdleCalc
  <1>4. AllFresh'
    BY <1>1, <1>2, <1>3 DEF AllFresh, Fresh
  <1> QED
    <2>1. CalculationFresh' /\ UpdateSafe' /\ MarkingSafe' /\ DeletionSafe'
      BY <1>1, <1>3 DEF CalculationFresh, UpdateSafe, MarkingSafe, DeletionSafe
    <2> QED
      BY <1>2, <1>4, <2>1 DEF IInv

-----------------------------------------------------------------------------
(* The oldest write settles. *)

\* The disk then holds what was written, and the other writes move up.
LEMMA SettledHistory ==
    ASSUME HistoryTypeOK, IInv, writes # <<>>, writes' = Tail(writes), Versions' = Versions,
           disk' = writes[1].content \/ disk' = disk,
           update' = update /\ writes[1].by # "update"
    PROVE  /\ Fresh(disk', Versions')
           /\ \A n \in 1..Len(writes') : Fresh(writes'[n].content, Versions')
           /\ MarkingSafe'
  <1>1. /\ Len(writes) \in Nat /\ Len(writes') = Len(writes) - 1
        /\ 1 \in 1..Len(writes)
        /\ \A n \in 1..Len(writes') : n + 1 \in 1..Len(writes) /\ writes'[n] = writes[n + 1]
    BY SettleEffect DEF HistoryTypeOK
  <1>2. Fresh(disk', Versions')
    BY <1>1 DEF IInv, AllFresh
  <1>3. \A n \in 1..Len(writes') : Fresh(writes'[n].content, Versions')
    BY <1>1 DEF IInv, AllFresh
  <1>4. ASSUME NEW n \in 1..Len(writes'), writes'[n].by = "update"
        PROVE  /\ update' = "marking"
               /\ \A m \in n..Len(writes') : Dead(writes'[m].content)
               /\ \A m \in 1..Len(writes') : writes'[m].by = "update" => m = n
    <2>1. n + 1 \in 1..Len(writes) /\ writes[n + 1].by = "update"
      BY <1>1, <1>4
    <2>2. /\ update = "marking"
          /\ \A m \in n + 1..Len(writes) : Dead(writes[m].content)
          /\ \A m \in 1..Len(writes) : writes[m].by = "update" => m = n + 1
      BY <2>1 DEF IInv, MarkingSafe
    <2>3. ASSUME NEW m \in n..Len(writes')
          PROVE  Dead(writes'[m].content)
      <3>1. m \in 1..Len(writes') /\ m + 1 \in n + 1..Len(writes)
        BY <1>1
      <3> QED
        BY <1>1, <2>2, <3>1
    <2>4. ASSUME NEW m \in 1..Len(writes'), writes'[m].by = "update"
          PROVE  m = n
      <3>1. m + 1 \in 1..Len(writes) /\ writes[m + 1].by = "update"
        BY <1>1, <2>4
      <3>2. m + 1 = n + 1
        BY <2>2, <3>1
      <3> QED
        BY <3>2
    <2> QED
      BY <2>2, <2>3, <2>4
  <1>5. ASSUME update' = "running"
        PROVE  Dead(disk') /\ \A n \in 1..Len(writes') : Dead(writes'[n].content)
    BY <1>1, <1>5 DEF IInv, MarkingSafe
  <1> QED
    BY <1>2, <1>3, <1>4, <1>5 DEF MarkingSafe, Dead

\* The marking write settles: nothing on disk or waiting is reusable, or the
\* write failed and the operation does not happen.
LEMMA UpdateMarkedSafe ==
    ASSUME HistoryTypeOK, IInv, writes # <<>>, writes' = Tail(writes), Versions' = Versions,
           NEW saved \in BOOLEAN, UpdateMarked(writes[1], saved),
           disk' = IF saved THEN writes[1].content ELSE disk,
           UNCHANGED generation, RenewedSafe'
    PROVE  IInv'
  <1>1. /\ Len(writes) \in Nat /\ Len(writes') = Len(writes) - 1
        /\ 1 \in 1..Len(writes)
        /\ \A n \in 1..Len(writes') : n + 1 \in 1..Len(writes) /\ writes'[n] = writes[n + 1]
    BY SettleEffect DEF HistoryTypeOK
  <1>2. /\ UNCHANGED <<cache, calc, deletion>>
        /\ writes[1].by = "update" /\ update' = IF saved THEN "running" ELSE "idle"
    BY DEF UpdateMarked, UpdateAfter
  <1>3. /\ update = "marking"
        /\ \A m \in 1..Len(writes) : Dead(writes[m].content)
        /\ \A m \in 1..Len(writes) : writes[m].by = "update" => m = 1
    BY <1>1, <1>2 DEF IInv, MarkingSafe
  <1>4. \A n \in 1..Len(writes') : writes'[n].by # "update" /\ Dead(writes'[n].content)
    <2> TAKE n \in 1..Len(writes')
    <2>1. n + 1 \in 1..Len(writes) /\ n + 1 # 1 /\ writes'[n] = writes[n + 1]
      BY <1>1
    <2> QED
      BY <1>3, <2>1
  <1>5. Fresh(disk', Versions') /\ (saved => Dead(disk'))
    BY <1>1, <1>3 DEF IInv, AllFresh
  <1>6. MarkingSafe'
    BY <1>2, <1>4, <1>5 DEF MarkingSafe, Dead
  <1>7. AllFresh'
    BY <1>1, <1>2, <1>5 DEF IInv, AllFresh
  <1>8. CalculationFresh' /\ UpdateSafe' /\ DeletionSafe'
    BY <1>2, <1>3 DEF IInv, CalculationFresh, UpdateSafe, DeletionSafe
  <1> QED
    BY <1>6, <1>7, <1>8 DEF IInv

LEMMA WriteSettlesSafe ==
    ASSUME HistoryTypeOK, IInv, WriteSettles
    PROVE  IInv'
  <1>1. /\ writes # <<>> /\ writes' = Tail(writes) /\ Head(writes) = writes[1]
        /\ UNCHANGED generation /\ Versions' = Versions /\ RenewedSafe'
    BY SettleEffect, SameVersions DEF WriteSettles, HistoryTypeOK
  <1> DEFINE w == writes[1]
  <1>2. PICK saved \in {TRUE, ~MayFail} :
          /\ disk' = IF saved THEN w.content ELSE disk
          /\ \/ CalculationStored(w)
             \/ UpdateMarked(w, saved)
             \/ DeletionStored(w, saved)
             \/ HistoryCleared(w, saved)
    BY <1>1 DEF WriteSettles
  <1>3. saved \in BOOLEAN
    BY ResultCacheAssumption
  <1>4. disk' = w.content \/ disk' = disk
    BY <1>2
  <1>5. CASE UpdateMarked(w, saved)
    BY <1>1, <1>2, <1>3, <1>5, UpdateMarkedSafe
  <1>6. CASE CalculationStored(w)
    <2>1. UNCHANGED <<cache, update, deletion>> /\ w.by = "calculate" /\ calc' = IdleCalc
      BY <1>6 DEF CalculationStored, EndCalculation
    <2>2. calc'.generation = 0 /\ calc'.at = "idle" /\ 0 <= generation
      BY <2>1 DEF IdleCalc, HistoryTypeOK
    <2> QED
      BY <1>1, <1>4, <2>1, <2>2, SettledHistory
         DEF IInv, AllFresh, CalculationFresh, UpdateSafe, DeletionSafe
  <1>7. CASE DeletionStored(w, saved)
    <2>1. /\ UNCHANGED <<calc, update>> /\ w.by = "delete"
          /\ cache' = cache \/ cache' = deletion.previous
          /\ deletion' = NoDeletion
      BY <1>7 DEF DeletionStored, Rollback
    <2>2. deletion'.previous = {}
      BY <2>1 DEF NoDeletion
    <2>3. /\ Fresh(cache', Versions') /\ (update # "idle" => Dead(cache'))
          /\ Fresh(deletion'.previous, Versions') /\ Dead(deletion'.previous)
      BY <1>1, <2>1, <2>2 DEF IInv, AllFresh, UpdateSafe, Fresh, Dead
    <2> QED
      BY <1>1, <1>4, <2>1, <2>2, <2>3, SettledHistory
         DEF IInv, AllFresh, CalculationFresh, UpdateSafe, DeletionSafe
  <1>8. CASE HistoryCleared(w, saved)
    <2>1. /\ UNCHANGED <<calc, update, deletion>> /\ w.by = "clear"
          /\ cache' = cache \/ cache' = {}
      BY <1>8 DEF HistoryCleared
    <2>2. Fresh(cache', Versions') /\ (update # "idle" => Dead(cache'))
      BY <1>1, <2>1 DEF IInv, AllFresh, UpdateSafe, Fresh, Dead
    <2> QED
      BY <1>1, <1>4, <2>1, <2>2, SettledHistory
         DEF IInv, AllFresh, CalculationFresh, UpdateSafe, DeletionSafe
  <1> QED
    BY <1>2, <1>5, <1>6, <1>7, <1>8

-----------------------------------------------------------------------------
\* The invariant is one of the specification if the user is Careful.
LEMMA IInvHolds ==
    ASSUME Careful
    PROVE  HistorySpec => []IInv
  <1>1. HistoryInit => IInv
    <2> SUFFICES ASSUME HistoryInit PROVE IInv
      OBVIOUS
    <2>1. Len(writes) = 0 /\ deletion.previous = {} /\ calc.at = "idle" /\ calc.generation = 0
      BY DEF HistoryInit, NoDeletion, IdleCalc
    <2> QED
      BY <2>1 DEF HistoryInit, IInv, AllFresh, CalculationFresh, UpdateSafe, MarkingSafe,
                  DeletionSafe, Fresh, RenewedSafe
  <1>2. HistoryTypeOK /\ IInv /\ [HistoryNext]_historyVars => IInv'
    <2> SUFFICES ASSUME HistoryTypeOK, IInv, [HistoryNext]_historyVars PROVE IInv'
      OBVIOUS
    <2>1. CASE CalculateStep
      BY <2>1, CoreLoadedSafe, LookupSafe, CalculatedSafe, CalculationFailsSafe
         DEF CalculateStep
    <2>2. CASE WriteSettles \/ ProfilesCleared \/ StartUpdate \/ UpdateDone \/ Reload
      BY <2>2, WriteSettlesSafe, ProfilesClearedSafe, StartUpdateSafe, UpdateDoneSafe,
         ReloadSafe
    <2>3. CASE \E input \in Inputs : StartCalculate(input) \/ DeleteEntry(input)
      BY <2>3, StartCalculateSafe, DeleteSafe DEF DeleteEntry
    <2>4. CASE DeleteHistory
      BY <2>4, DeleteSafe DEF DeleteHistory
    <2>5. ASSUME UNCHANGED <<data, renewed, generation, cache, disk, writes, calc, update, deletion>>
          PROVE  IInv'
      <3>1. Versions' = Versions /\ RenewedSafe'
        BY <2>5, SameVersions
      <3> QED
        BY <2>5, <3>1, HistoryKept DEF IInv, CalculationFresh, UpdateSafe
    <2>6. CASE (\E input \in Inputs : RestoreResult(input)) \/ StartClearing
               \/ (\E p \in Profiles : SwitchProfile(p)) \/ UNCHANGED historyVars
      BY <2>5, <2>6 DEF RestoreResult, StartClearing, SwitchProfile, historyVars
    <2> QED
      BY <2>1, <2>2, <2>3, <2>4, <2>6 DEF HistoryNext
  <1> QED
    BY <1>1, <1>2, TypeCorrect, PTL DEF HistorySpec

\* After a resource operation no result is reused that used the data before it
\* (docs/persistence.md), for every number of profiles, inputs and results, for
\* failing writes and for core files that change at any calculation, as long as
\* the user is Careful.
THEOREM NeverStale ==
    ASSUME Careful
    PROVE  HistorySpec => []NoStaleReuse
  <1>1. IInv => NoStaleReuse
    BY DEF IInv, AllFresh, Fresh, Versions, NoStaleReuse
  <1> QED
    BY <1>1, IInvHolds, PTL

\* If core files change by resource operations only, what is reused was
\* calculated with the current data ("never reuse scores after game data
\* changes", invalidateResultCache).
THEOREM AlwaysCurrent ==
    ASSUME Careful, ~RemoteUpdates
    PROVE  HistorySpec => []ReusesCurrent
  <1>1. HistoryTypeOK /\ IInv => ReusesCurrent
    <2> SUFFICES ASSUME HistoryTypeOK, IInv PROVE ReusesCurrent
      OBVIOUS
    <2>1. renewed = data /\ data \in Int
      BY DEF HistoryTypeOK, IInv, RenewedSafe
    <2>2. \A v \in Versions : v = data
      BY <2>1 DEF Versions
    <2> QED
      BY <2>2 DEF IInv, AllFresh, Fresh, ReusesCurrent, Hits, IsHit
  <1> QED
    BY <1>1, IInvHolds, TypeCorrect, PTL

-----------------------------------------------------------------------------
(* Memory and disk *)

\* What the user may start while something else is in progress, in the orders
\* the code gets right: a resource operation during a calculation, and a
\* deletion during a resource operation.
Serial == StartDuring \subseteq {<<"update", "calculate">>, <<"delete", "update">>}

\* Which operations are never in progress together.
Exclusive ==
    /\ deletion.busy => calc.at = "idle" /\ clear = "idle"
    /\ clear # "idle" => calc.at = "idle" /\ update = "idle" /\ ~deletion.busy

\* Every pending write has an operation that waits for it, and only the last
\* write may be taken back or clear the history.
Waiting(by) ==
    /\ by = "calculate" => calc.at = "store"
    /\ by = "update" => update = "marking"
    /\ by = "delete" => deletion.busy
    /\ by = "clear" => clear = "deleting"

Last == Len(writes)

Ordered ==
    \A n \in 1..Last :
      /\ \A m \in 1..Last : writes[m].by = writes[n].by => m = n
      /\ n < Last => writes[n].by \in {"calculate", "update"}

AllWait == \A n \in 1..Last : Waiting(writes[n].by)

Pending ==
    /\ AllWait
    /\ Ordered
    /\ deletion.busy => Last > 0 /\ writes[Last].by = "delete"
    /\ clear = "draining" => Last = 0

\* The content is what the disk holds once write n has settled, if it is saved.
Settled(content, n) ==
    IF n = 0 THEN ~unsaved => content = disk ELSE content = writes[n].content

\* What memory holds is what the last write will leave on disk.  A clearing
\* still shows the old history, and a deletion remembers it.
InStep ==
    /\ Last = 0 \/ writes[Last].by # "clear" => Settled(cache, Last)
    /\ Last > 0 /\ writes[Last].by = "clear" =>
         Last = 1 /\ writes[1].content = {} /\ Settled(cache, 0)
    /\ deletion.busy => Settled(deletion.previous, Last - 1)

\* No two results of one key.
Single(entries) == \A e, f \in entries : SameKey(e, f.profile, f.input) => e = f

AllSingle ==
    /\ Single(cache) /\ Single(disk) /\ Single(deletion.previous)
    /\ \A n \in 1..Last : Single(writes[n].content)

AInv == Exclusive /\ Pending /\ InStep /\ AllSingle

LEMMA Alone ==
    ASSUME Serial
    PROVE  /\ MayStart("calculate") => update = "idle" /\ ~deletion.busy /\ clear = "idle"
           /\ MayStart("update") => ~deletion.busy /\ clear = "idle"
           /\ MayStart("delete") => calc.at = "idle" /\ clear = "idle"
           /\ MayStart("clear") => calc.at = "idle" /\ update = "idle" /\ ~deletion.busy
  BY DEF Serial, MayStart, InProgress, Kinds

\* A step that leaves history and writes alone, and every waiting operation
\* waiting.
LEMMA HistoryUntouched ==
    ASSUME AInv, UNCHANGED <<cache, disk, writes, unsaved, deletion>>, Exclusive',
           calc.at = "store" => calc'.at = "store",
           update = "marking" => update' = "marking",
           clear = "deleting" => clear' = "deleting",
           clear' = "draining" => Last = 0
    PROVE  AInv'
  <1>1. Last' = Last
    BY DEF Last
  <1>2. Pending'
    BY <1>1 DEF AInv, Pending, Ordered, AllWait, Waiting
  <1>3. InStep' /\ AllSingle'
    BY <1>1 DEF AInv, InStep, Settled, AllSingle
  <1> QED
    BY <1>2, <1>3 DEF AInv

\* Nobody waits: no write is pending.
LEMMA NothingPending ==
    ASSUME HistoryTypeOK, AInv, calc.at # "store", update # "marking", ~deletion.busy,
           clear # "deleting"
    PROVE  Last = 0
  <1>1. Len(writes) \in Nat /\ \A n \in 1..Len(writes) : writes[n] \in Write
    BY DEF HistoryTypeOK
  <1>2. \A n \in 1..Len(writes) : FALSE
    <2> TAKE n \in 1..Len(writes)
    <2>1. writes[n].by \in Kinds
      BY <1>1 DEF Write
    <2> QED
      BY <2>1 DEF AInv, Pending, AllWait, Waiting, Kinds, Last
  <1>3. 1 \notin 1..Len(writes)
    BY <1>2
  <1> QED
    BY <1>1, <1>3 DEF Last

LEMMA KindsOfWrites ==
    ASSUME HistoryTypeOK
    PROVE  Last \in Nat /\ \A n \in 1..Last : writes[n].by \in Kinds
  <1>1. Last \in Nat /\ \A n \in 1..Last : writes[n] \in Write
    BY DEF HistoryTypeOK, Last
  <1> QED
    BY <1>1 DEF Write

\* One more write: the others keep their places.
LEMMA WriteAdded ==
    ASSUME HistoryTypeOK, AInv, NEW content \in SUBSET Entry, NEW by \in Kinds, Persist(content, by),
           \A n \in 1..Last : writes[n].by # by /\ writes[n].by \in {"calculate", "update"}
    PROVE  /\ Last \in Nat /\ Last' = Last + 1 /\ Last' - 1 = Last /\ Last' > 0 /\ Last' # 0
           /\ \A n \in 1..Last : writes'[n] = writes[n]
           /\ writes'[Last'].content = content /\ writes'[Last'].by = by
           /\ \A n \in 1..Last' : n \in 1..Last \/ n = Last'
           /\ Ordered'
  <1> DEFINE last == Last'
  <1>1. /\ Last \in Nat /\ last = Last + 1
        /\ \A n \in 1..Last : writes'[n] = writes[n]
        /\ writes'[last].content = content /\ writes'[last].by = by
    <2>1. writes'[Len(writes')] = [content |-> content, by |-> by]
      BY PersistEffect
    <2> QED
      BY <2>1, PersistEffect DEF Last
  <1> HIDE DEF last
  <1>2. \A n \in 1..last : n \in 1..Last \/ n = last
    BY <1>1
  <1>3. ASSUME NEW n \in 1..last
        PROVE  /\ \A m \in 1..last : writes'[m].by = writes'[n].by => m = n
               /\ n < last => writes'[n].by \in {"calculate", "update"}
    <2>1. n < last => n \in 1..Last
      BY <1>1
    <2>2. ASSUME NEW m \in 1..last, writes'[m].by = writes'[n].by
          PROVE  m = n
      BY <1>1, <1>2, <2>2 DEF AInv, Pending, Ordered
    <2> QED
      BY <1>1, <2>1, <2>2
  <1>4. Ordered'
    BY <1>3 DEF Ordered, last
  <1> QED
    BY <1>1, <1>2, <1>4 DEF last

\* Memory changes and is written, while no deletion and no clearing is busy.
LEMMA MemoryWritten ==
    ASSUME HistoryTypeOK, AInv, ~deletion.busy, clear = "idle",
           NEW by \in {"calculate", "update"}, ~Waiting(by), Waiting(by)',
           cache' \in SUBSET Entry, Single(cache'), Persist(cache', by),
           UNCHANGED <<disk, unsaved, deletion, clear>>,
           by # "calculate" => calc' = calc, by # "update" => update' = update
    PROVE  AInv'
  <1>1. by \in Kinds
    BY DEF Kinds
  <1>2. Last \in Nat /\ \A n \in 1..Last : writes[n].by \in Kinds
    BY KindsOfWrites
  <1>3. \A n \in 1..Last : writes[n].by # by /\ writes[n].by \in {"calculate", "update"}
    BY <1>2 DEF AInv, Pending, AllWait, Waiting, Kinds
  <1>4. /\ Last \in Nat /\ Last' = Last + 1 /\ Last' > 0 /\ Last' # 0
        /\ \A n \in 1..Last : writes'[n] = writes[n]
        /\ writes'[Last'].content = cache' /\ writes'[Last'].by = by
        /\ \A n \in 1..Last' : n \in 1..Last \/ n = Last'
        /\ Ordered'
    BY <1>1, <1>3, WriteAdded
  <1>5. AllWait'
    <2>1. ASSUME NEW n \in 1..Last PROVE Waiting(writes[n].by)'
      <3>1. writes'[n].by = writes[n].by /\ Waiting(writes[n].by) /\ writes[n].by # by
            /\ writes[n].by \in {"calculate", "update"}
        BY <1>3, <1>4 DEF AInv, Pending, AllWait
      <3> QED
        BY <3>1 DEF Waiting
    <2>2. ASSUME NEW n \in 1..Last', n = Last' PROVE Waiting(writes[n].by)'
      BY <1>4, <2>2 DEF Waiting
    <2> QED
      BY <1>4, <2>1, <2>2 DEF AllWait
  <1>6. Exclusive' /\ Pending'
    BY <1>4, <1>5 DEF AInv, Exclusive, Pending
  <1>7. InStep'
    BY <1>4 DEF InStep, Settled
  <1>8. AllSingle'
    <2>1. \A n \in 1..Last' : Single(writes'[n].content)
      BY <1>4 DEF AInv, AllSingle
    <2> QED
      BY <2>1 DEF AInv, AllSingle, Single
  <1> QED
    BY <1>6, <1>7, <1>8 DEF AInv

LEMMA CalculatedAgrees ==
    ASSUME HistoryTypeOK, AInv, Calculated
    PROVE  AInv'
  <1>1. /\ UNCHANGED <<disk, unsaved, update, deletion, clear>>
        /\ calc.at = "run" /\ calc' = [calc EXCEPT !.at = "store"]
        /\ Persist(cache', "calculate")
        /\ cache' = Newest(DropSameKey(cache) \cup {NewEntry}, calc.profile)
    BY DEF Calculated
  <1>2. calc'.at = "store" /\ cache' \in SUBSET Entry
    BY <1>1, CalculatedType DEF HistoryTypeOK, CalcState
  <1>3. Single(cache')
    <2>1. Single(DropSameKey(cache) \cup {NewEntry})
      <3>1. NewEntry.profile = calc.profile /\ NewEntry.input = calc.input
        BY DEF NewEntry
      <3> QED
        BY <3>1 DEF AInv, AllSingle, Single, DropSameKey, SameKey
    <2> QED
      BY <1>1, <2>1, NewestSubset DEF Single
  <1>4. ~deletion.busy /\ clear = "idle"
    BY <1>1 DEF AInv, Exclusive
  <1>5. ~Waiting("calculate") /\ Waiting("calculate")'
    BY <1>1, <1>2 DEF Waiting
  <1> QED
    BY <1>1, <1>2, <1>3, <1>4, <1>5, MemoryWritten

LEMMA StartUpdateAgrees ==
    ASSUME Serial, HistoryTypeOK, AInv, StartUpdate
    PROVE  AInv'
  <1>1. /\ UNCHANGED <<disk, unsaved, calc, deletion, clear>>
        /\ update = "idle" /\ update' = "marking"
        /\ cache' = Invalidated(cache) /\ Persist(cache', "update")
        /\ MayStart("update")
    BY DEF StartUpdate
  <1>2. cache' \in SUBSET Entry
    BY <1>1, MarkedType DEF HistoryTypeOK
  <1>3. Single(cache')
    <2>1. \A e \in cache : /\ [e EXCEPT !.reusable = FALSE].profile = e.profile
                           /\ [e EXCEPT !.reusable = FALSE].input = e.input
      BY DEF HistoryTypeOK, Entry
    <2>2. Single(Invalidated(cache))
      <3> SUFFICES ASSUME NEW x \in Invalidated(cache), NEW y \in Invalidated(cache),
                          SameKey(x, y.profile, y.input)
                   PROVE  x = y
        BY DEF Single
      <3>1. PICK e \in cache : x = [e EXCEPT !.reusable = FALSE]
        BY DEF Invalidated
      <3>2. PICK f \in cache : y = [f EXCEPT !.reusable = FALSE]
        BY DEF Invalidated
      <3>3. SameKey(e, f.profile, f.input)
        BY <2>1, <3>1, <3>2 DEF SameKey
      <3>4. e = f
        BY <3>3 DEF AInv, AllSingle, Single
      <3> QED
        BY <3>1, <3>2, <3>4
    <2> QED
      BY <1>1, <2>2
  <1>4. ~Waiting("update") /\ Waiting("update")'
    BY <1>1 DEF Waiting
  <1>5. ~deletion.busy /\ clear = "idle"
    BY <1>1, Alone
  <1> QED
    BY <1>1, <1>2, <1>3, <1>4, <1>5, MemoryWritten

LEMMA DeleteAgrees ==
    ASSUME Serial, HistoryTypeOK, AInv, NEW removed, Delete(removed)
    PROVE  AInv'
  <1>1. /\ UNCHANGED <<disk, unsaved, calc, update, clear>>
        /\ ~deletion.busy /\ MayStart("delete")
        /\ deletion'.busy /\ deletion'.previous = cache
        /\ cache' = cache \ removed /\ Persist(cache', "delete")
    BY DEF Delete
  <1>2. calc.at = "idle" /\ clear = "idle"
    BY <1>1, Alone
  <1>3. /\ "delete" \in Kinds /\ cache' \in SUBSET Entry
        /\ \A n \in 1..Last : writes[n].by \in Kinds
    BY <1>1, KindsOfWrites DEF Kinds, HistoryTypeOK
  <1>4. \A n \in 1..Last : writes[n].by # "delete" /\ writes[n].by \in {"calculate", "update"}
    BY <1>1, <1>2, <1>3 DEF AInv, Pending, AllWait, Waiting, Kinds
  <1>5. /\ Last \in Nat /\ Last' = Last + 1 /\ Last' - 1 = Last /\ Last' > 0 /\ Last' # 0
        /\ \A n \in 1..Last : writes'[n] = writes[n]
        /\ writes'[Last'].content = cache' /\ writes'[Last'].by = "delete"
        /\ \A n \in 1..Last' : n \in 1..Last \/ n = Last'
        /\ Ordered'
    BY <1>1, <1>3, <1>4, WriteAdded
  <1>6. AllWait'
    <2>1. ASSUME NEW n \in 1..Last PROVE Waiting(writes[n].by)'
      BY <1>1, <1>5 DEF AInv, Pending, AllWait, Waiting
    <2>2. ASSUME NEW n \in 1..Last', n = Last' PROVE Waiting(writes[n].by)'
      BY <1>1, <1>5, <2>2 DEF Waiting
    <2> QED
      BY <1>5, <2>1, <2>2 DEF AllWait
  <1>7. Exclusive' /\ Pending'
    BY <1>1, <1>2, <1>5, <1>6 DEF Exclusive, Pending
  <1>8. Settled(cache, Last)
    <2>1. Last # 0 => Last \in 1..Last
      BY <1>5
    <2> QED
      BY <1>4, <2>1 DEF AInv, InStep
  <1>9. InStep'
    <2>2. Last # 0 => writes'[Last] = writes[Last]
      BY <1>5
    <2>3. IF Last = 0 THEN ~unsaved' => deletion'.previous = disk'
                      ELSE deletion'.previous = writes'[Last].content
      BY <1>1, <1>8, <2>2 DEF Settled
    <2> QED
      BY <1>1, <1>5, <2>3 DEF InStep, Settled
  <1>10. AllSingle'
    <2>1. Single(cache') /\ Single(deletion'.previous)
      BY <1>1 DEF AInv, AllSingle, Single
    <2>2. \A n \in 1..Last' : Single(writes'[n].content)
      BY <1>5, <2>1 DEF AInv, AllSingle
    <2> QED
      BY <1>1, <2>1, <2>2 DEF AInv, AllSingle, Single
  <1> QED
    BY <1>7, <1>9, <1>10 DEF AInv

LEMMA ProfilesClearedAgrees ==
    ASSUME HistoryTypeOK, AInv, ProfilesCleared
    PROVE  AInv'
  <1>1. /\ UNCHANGED <<cache, disk, unsaved, calc, update, deletion>>
        /\ clear = "draining" /\ clear' = "deleting" /\ Persist({}, "clear")
    BY DEF ProfilesCleared
  <1>2. calc.at = "idle" /\ update = "idle" /\ ~deletion.busy /\ Last = 0
    BY <1>1 DEF AInv, Exclusive, Pending
  <1>3. "clear" \in Kinds /\ {} \in SUBSET Entry /\ \A n \in 1..Last : FALSE
    BY <1>2 DEF Kinds
  <1>4. /\ Last' = Last + 1 /\ Last' # 0
        /\ writes'[Last'].content = {} /\ writes'[Last'].by = "clear"
        /\ \A n \in 1..Last' : n \in 1..Last \/ n = Last'
        /\ Ordered'
    BY <1>1, <1>3, WriteAdded
  <1>5. Last' = 1 /\ \A n \in 1..Last' : n = 1
    BY <1>2, <1>4
  <1>6. Exclusive' /\ Pending'
    BY <1>1, <1>2, <1>4, <1>5 DEF Exclusive, Pending, AllWait, Waiting
  <1>7. ~unsaved => cache = disk
    BY <1>2 DEF AInv, InStep, Settled
  <1>8. InStep'
    BY <1>1, <1>2, <1>4, <1>5, <1>7 DEF InStep, Settled
  <1>9. AllSingle'
    BY <1>1, <1>4, <1>5 DEF AInv, AllSingle, Single
  <1> QED
    BY <1>6, <1>8, <1>9 DEF AInv

\* The oldest write settles: the rest move up.
LEMMA WriteRemoved ==
    ASSUME HistoryTypeOK, AInv, writes # <<>>, writes' = Tail(writes)
    PROVE  /\ Last \in Nat /\ Last # 0 /\ Last' = Last - 1 /\ Last' \in Nat
           /\ \A n \in 1..Last' : n + 1 \in 1..Last /\ writes'[n] = writes[n + 1]
           /\ \A n \in 1..Last' : writes'[n].by # writes[1].by
           /\ Ordered'
           /\ Last' # 0 => Last' \in 1..Last' /\ writes'[Last'] = writes[Last]
           /\ Last' > 0 /\ Last' - 1 # 0 => writes'[Last' - 1] = writes[Last - 1]
  <1> DEFINE last == Last'
  <1>1. /\ Last \in Nat /\ Last # 0 /\ last = Last - 1 /\ last \in Nat /\ 1 \in 1..Last
        /\ \A n \in 1..last : n + 1 \in 1..Last /\ writes'[n] = writes[n + 1]
    BY SettleEffect DEF HistoryTypeOK, Last
  <1> HIDE DEF last
  <1>2. \A n \in 1..last : writes'[n].by # writes[1].by
    <2> TAKE n \in 1..last
    <2>1. n + 1 \in 1..Last /\ n + 1 # 1
      BY <1>1
    <2>2. writes'[n] = writes[n + 1]
      BY <1>1
    <2> QED
      BY <1>1, <2>1, <2>2 DEF AInv, Pending, Ordered
  <1>3. ASSUME NEW n \in 1..last
        PROVE  /\ \A m \in 1..last : writes'[m].by = writes'[n].by => m = n
               /\ n < last => writes'[n].by \in {"calculate", "update"}
    <2>3. n + 1 \in 1..Last /\ (n < last => n + 1 < Last)
      BY <1>1
    <2>4. writes'[n] = writes[n + 1]
      BY <1>1
    <2>1. n + 1 \in 1..Last /\ writes'[n] = writes[n + 1] /\ (n < last => n + 1 < Last)
      BY <2>3, <2>4
    <2>2. ASSUME NEW m \in 1..last, writes'[m].by = writes'[n].by
          PROVE  m = n
      <3>1. m + 1 \in 1..Last /\ writes'[m] = writes[m + 1]
        BY <1>1
      <3>2. m + 1 = n + 1
        BY <2>1, <2>2, <3>1 DEF AInv, Pending, Ordered
      <3> QED
        BY <3>2
    <2> QED
      BY <2>1, <2>2 DEF AInv, Pending, Ordered
  <1>4. Ordered'
    BY <1>3 DEF Ordered, last
  <1>5. last # 0 => last \in 1..last /\ writes'[last] = writes[Last]
    <2> SUFFICES ASSUME last # 0 PROVE last \in 1..last /\ writes'[last] = writes[Last]
      OBVIOUS
    <2>1. last \in 1..last /\ last + 1 = Last
      BY <1>1
    <2>2. writes'[last] = writes[last + 1]
      BY <1>1, <2>1
    <2> QED
      BY <2>1, <2>2
  <1>6. last > 0 /\ last - 1 # 0 => writes'[last - 1] = writes[Last - 1]
    <2> SUFFICES ASSUME last > 0, last - 1 # 0 PROVE writes'[last - 1] = writes[Last - 1]
      OBVIOUS
    <2>1. last - 1 \in 1..last /\ (last - 1) + 1 = Last - 1
      BY <1>1
    <2> QED
      BY <1>1, <2>1
  <1> QED
    BY <1>1, <1>2, <1>4, <1>5, <1>6 DEF last

LEMMA WriteSettlesAgrees ==
    ASSUME HistoryTypeOK, AInv, WriteSettles
    PROVE  AInv'
  <1> DEFINE w == writes[1]
  <1>1. /\ writes # <<>> /\ writes' = Tail(writes) /\ Head(writes) = w /\ w \in Write
    BY SettleEffect DEF WriteSettles, HistoryTypeOK
  <1>2. PICK saved \in {TRUE, ~MayFail} :
          /\ disk' = IF saved THEN w.content ELSE disk
          /\ unsaved' = (~saved /\ (w.by \in {"delete", "clear"} => unsaved))
          /\ \/ CalculationStored(w)
             \/ UpdateMarked(w, saved)
             \/ DeletionStored(w, saved)
             \/ HistoryCleared(w, saved)
    BY <1>1 DEF WriteSettles
  <1>3. /\ Last \in Nat /\ Last # 0 /\ Last' = Last - 1 /\ Last' \in Nat
        /\ \A n \in 1..Last' : n + 1 \in 1..Last /\ writes'[n] = writes[n + 1]
        /\ \A n \in 1..Last' : writes'[n].by # w.by
        /\ Ordered'
        /\ Last' # 0 => Last' \in 1..Last' /\ writes'[Last'] = writes[Last]
        /\ Last' > 0 /\ Last' - 1 # 0 => writes'[Last' - 1] = writes[Last - 1]
    BY <1>1, WriteRemoved
  <1>4. Single(disk') /\ \A n \in 1..Last' : Single(writes'[n].content)
    <2>1. 1 \in 1..Last
      BY <1>3
    <2> QED
      BY <1>2, <1>3, <2>1 DEF AInv, AllSingle
  <1>5. CASE CalculationStored(w) \/ UpdateMarked(w, saved)
    <2>1. /\ UNCHANGED <<cache, deletion, clear>> /\ w.by \in {"calculate", "update"}
          /\ \/ w.by = "calculate" /\ calc'.at = "idle" /\ update' = update
             \/ w.by = "update" /\ calc' = calc /\ update' \in {"idle", "running"}
      BY <1>5 DEF CalculationStored, UpdateMarked, EndCalculation, IdleCalc, UpdateAfter
    <2>2. AllWait'
      <3> SUFFICES ASSUME NEW n \in 1..Last' PROVE Waiting(writes[n].by)'
        BY DEF AllWait
      <3>1. /\ writes'[n].by # w.by /\ writes'[n].by = writes[n + 1].by
            /\ Waiting(writes[n + 1].by)
        BY <1>3 DEF AInv, Pending, AllWait
      <3> QED
        BY <2>1, <3>1 DEF Waiting
    <2>3. clear = "idle"
      <3>1. Waiting(w.by)
        BY <1>3 DEF AInv, Pending, AllWait
      <3> QED
        BY <2>1, <3>1 DEF AInv, Exclusive, Waiting
    <2>4. Exclusive' /\ Pending'
      <3>1. deletion.busy => writes[Last].by = "delete" /\ calc.at = "idle"
        BY DEF AInv, Pending, Exclusive
      <3>2. deletion.busy => Last' # 0
        BY <1>3, <2>1, <3>1
      <3> QED
        BY <1>3, <2>1, <2>2, <2>3, <3>1, <3>2 DEF AInv, Exclusive, Pending
    <2>5. (~unsaved' => saved) /\ (saved => disk' = w.content)
      BY <1>2, <2>1
    <2>6. writes[Last].by # "clear"
      <3>1. Last \in 1..Last
        BY <1>3
      <3> QED
        BY <2>3, <3>1 DEF AInv, Pending, AllWait, Waiting
    <2>7. cache = writes[Last].content
      BY <1>3, <2>6 DEF AInv, InStep, Settled
    <2>8. Last' = 0 /\ ~unsaved' => cache = disk'
      <3>1. Last' = 0 => Last = 1
        BY <1>3
      <3> QED
        BY <2>5, <2>7, <3>1
    <2>9. deletion.busy => IF Last' - 1 = 0 THEN ~unsaved' => deletion.previous = disk'
                           ELSE deletion.previous = writes'[Last' - 1].content
      <3> SUFFICES ASSUME deletion.busy
                   PROVE  IF Last' - 1 = 0 THEN ~unsaved' => deletion.previous = disk'
                           ELSE deletion.previous = writes'[Last' - 1].content
        OBVIOUS
      <3>1. Last' > 0
        BY <1>3, <2>1 DEF AInv, Pending
      <3>2. Last - 1 # 0 /\ deletion.previous = writes[Last - 1].content
        BY <1>3, <3>1 DEF AInv, InStep, Settled
      <3>3. CASE Last' - 1 = 0
        <4>1. Last - 1 = 1
          BY <1>3, <3>3
        <4> QED
          BY <2>5, <3>2, <3>3, <4>1
      <3>4. CASE Last' - 1 # 0
        BY <1>3, <3>1, <3>2, <3>4
      <3> QED
        BY <3>3, <3>4
    <2>10. InStep'
      BY <1>3, <2>1, <2>6, <2>7, <2>8, <2>9 DEF InStep, Settled
    <2>11. AllSingle'
      BY <1>4, <2>1 DEF AInv, AllSingle, Single
    <2> QED
      BY <2>4, <2>10, <2>11 DEF AInv
  <1>6. CASE DeletionStored(w, saved) \/ HistoryCleared(w, saved)
    <2>1. UNCHANGED <<calc, update>> /\ w.by \in {"delete", "clear"}
      BY <1>6 DEF DeletionStored, HistoryCleared
    <2>2. Last = 1 /\ Last' = 0
      <3>1. 1 \in 1..Last /\ (1 < Last => w.by \in {"calculate", "update"})
        BY <1>3 DEF AInv, Pending, Ordered
      <3> QED
        BY <1>3, <2>1, <3>1
    <2>3. unsaved' = (~saved /\ unsaved) /\ (saved => disk' = w.content)
          /\ (~saved => disk' = disk)
      BY <1>2, <2>1
    <2>4. CASE DeletionStored(w, saved)
      <3>1. /\ w.by = "delete" /\ cache' = (IF saved THEN cache ELSE deletion.previous)
            /\ ~deletion'.busy /\ deletion'.previous = {} /\ clear' = clear
        BY <2>4 DEF DeletionStored, Rollback, NoDeletion
      <3>2. deletion.busy /\ calc.at = "idle" /\ clear = "idle"
        BY <1>3, <2>2, <3>1 DEF AInv, Pending, AllWait, Waiting, Exclusive
      <3>3. cache = w.content /\ (~unsaved => deletion.previous = disk)
        BY <2>2, <3>1, <3>2 DEF AInv, InStep, Settled
      <3>4. ~unsaved' => cache' = disk'
        BY <2>3, <3>1, <3>3
      <3>5. InStep'
        BY <2>2, <3>1, <3>4 DEF InStep, Settled
      <3>6. Exclusive' /\ Pending'
        BY <1>3, <2>1, <2>2, <3>1, <3>2 DEF Exclusive, Pending, AllWait
      <3>7. AllSingle'
        BY <1>4, <3>1 DEF AInv, AllSingle, Single
      <3> QED
        BY <3>5, <3>6, <3>7 DEF AInv
    <2>5. CASE HistoryCleared(w, saved)
      <3>1. /\ w.by = "clear" /\ cache' = (IF saved THEN {} ELSE cache)
            /\ deletion' = deletion /\ clear' = "idle"
        BY <2>5 DEF HistoryCleared
      <3>2. clear = "deleting" /\ calc.at = "idle" /\ ~deletion.busy
        BY <1>3, <2>2, <3>1 DEF AInv, Pending, AllWait, Waiting, Exclusive
      <3>3. w.content = {} /\ (~unsaved => cache = disk)
        BY <2>2, <3>1 DEF AInv, InStep, Settled
      <3>4. ~unsaved' => cache' = disk'
        BY <2>3, <3>1, <3>3
      <3>5. InStep'
        BY <2>2, <3>1, <3>2, <3>4 DEF InStep, Settled
      <3>6. Exclusive' /\ Pending'
        BY <1>3, <2>1, <2>2, <3>1, <3>2 DEF Exclusive, Pending, AllWait
      <3>7. AllSingle'
        BY <1>4, <3>1 DEF AInv, AllSingle, Single
      <3> QED
        BY <3>5, <3>6, <3>7 DEF AInv
    <2> QED
      BY <1>6, <2>4, <2>5
  <1> QED
    BY <1>2, <1>5, <1>6

LEMMA ReloadAgrees ==
    ASSUME HistoryTypeOK, AInv, Reload
    PROVE  AInv'
  <1>1. /\ cache' = disk /\ disk' = disk /\ writes' = <<>> /\ Last' = 0
        /\ calc'.at = "idle" /\ clear' = "idle"
        /\ ~deletion'.busy /\ deletion'.previous = {}
    BY DEF Reload, IdleCalc, NoDeletion, Last
  <1>2. Exclusive' /\ Pending'
    BY <1>1 DEF Exclusive, Pending, Ordered, AllWait
  <1>3. InStep' /\ AllSingle'
    BY <1>1 DEF AInv, InStep, Settled, AllSingle, Single
  <1> QED
    BY <1>2, <1>3 DEF AInv

LEMMA QuietAgrees ==
    ASSUME Serial, HistoryTypeOK, AInv,
           \/ CoreLoaded \/ Lookup \/ CalculationFails \/ UpdateDone \/ StartClearing
           \/ \E input \in Inputs : StartCalculate(input) \/ RestoreResult(input)
           \/ \E p \in Profiles : SwitchProfile(p)
           \/ UNCHANGED historyVars
    PROVE  AInv'
  <1>1. CASE CoreLoaded \/ Lookup \/ CalculationFails
    <2>1. /\ UNCHANGED <<cache, disk, writes, unsaved, update, deletion, clear>>
          /\ calc.at # "idle" /\ calc.at # "store"
      BY <1>1 DEF CoreLoaded, Lookup, CalculationFails
    <2>2. ~deletion.busy /\ clear = "idle"
      BY <2>1 DEF AInv, Exclusive
    <2>3. Exclusive'
      BY <2>1, <2>2 DEF Exclusive
    <2> QED
      BY <2>1, <2>2, <2>3, HistoryUntouched
  <1>2. CASE \E input \in Inputs : StartCalculate(input)
    <2>1. /\ UNCHANGED <<cache, disk, writes, unsaved, update, deletion, clear>>
          /\ calc.at = "idle" /\ MayStart("calculate")
      BY <1>2 DEF StartCalculate
    <2>2. ~deletion.busy /\ clear = "idle"
      BY <2>1, Alone
    <2>3. Exclusive'
      BY <2>1, <2>2 DEF Exclusive
    <2> QED
      BY <2>1, <2>2, <2>3, HistoryUntouched
  <1>3. CASE UpdateDone
    <2>1. /\ UNCHANGED <<cache, disk, writes, unsaved, calc, deletion, clear>>
          /\ update = "running" /\ update' = "idle"
      BY <1>3 DEF UpdateDone
    <2>2. Exclusive' /\ (clear' = "draining" => Last = 0)
      BY <2>1 DEF AInv, Exclusive, Pending
    <2> QED
      BY <2>1, <2>2, HistoryUntouched
  <1>4. CASE StartClearing
    <2>1. /\ UNCHANGED <<cache, disk, writes, unsaved, calc, update, deletion>>
          /\ clear = "idle" /\ clear' = "draining" /\ MayStart("clear")
      BY <1>4 DEF StartClearing
    <2>2. calc.at = "idle" /\ update = "idle" /\ ~deletion.busy
      BY <2>1, Alone
    <2>3. Last = 0
      BY <2>1, <2>2, NothingPending
    <2>4. Exclusive'
      BY <2>1, <2>2 DEF Exclusive
    <2> QED
      BY <2>1, <2>2, <2>3, <2>4, HistoryUntouched
  <1>5. CASE \/ \E input \in Inputs : RestoreResult(input)
             \/ \E p \in Profiles : SwitchProfile(p)
             \/ UNCHANGED historyVars
    <2>1. UNCHANGED <<cache, disk, writes, unsaved, calc, update, deletion, clear>>
      BY <1>5 DEF RestoreResult, SwitchProfile, historyVars
    <2>2. Exclusive' /\ (clear' = "draining" => Last = 0)
      BY <2>1 DEF AInv, Exclusive, Pending
    <2> QED
      BY <2>1, <2>2, HistoryUntouched
  <1> QED
    BY <1>1, <1>2, <1>3, <1>4, <1>5

\* Memory and disk agree when nothing is pending, and no key has two results,
\* whatever fails, for every number of profiles, inputs, results and pending
\* writes (setCachedResult, handleDeleteResultCache, handleClearLocalCache), as
\* long as the handlers overlap only in the Serial orders.
THEOREM MemoryFollowsDisk ==
    ASSUME Serial
    PROVE  HistorySpec => []HistoryAgrees
  <1>1. HistoryInit => AInv
    <2> SUFFICES ASSUME HistoryInit PROVE AInv
      OBVIOUS
    <2>1. /\ Last = 0 /\ ~deletion.busy /\ deletion.previous = {} /\ calc.at = "idle"
          /\ clear = "idle" /\ cache = {} /\ disk = {}
      BY DEF HistoryInit, NoDeletion, IdleCalc, Last
    <2> QED
      BY <2>1 DEF AInv, Exclusive, Pending, Ordered, AllWait, InStep, Settled, AllSingle, Single
  <1>2. HistoryTypeOK /\ AInv /\ [HistoryNext]_historyVars => AInv'
    <2> SUFFICES ASSUME HistoryTypeOK, AInv, [HistoryNext]_historyVars PROVE AInv'
      OBVIOUS
    <2>1. CASE Calculated
      BY <2>1, CalculatedAgrees
    <2>2. CASE WriteSettles \/ ProfilesCleared \/ StartUpdate \/ Reload
      BY <2>2, WriteSettlesAgrees, ProfilesClearedAgrees, StartUpdateAgrees, ReloadAgrees
    <2>3. CASE DeleteHistory \/ \E input \in Inputs : DeleteEntry(input)
      BY <2>3, DeleteAgrees DEF DeleteEntry, DeleteHistory
    <2>4. CASE \/ CoreLoaded \/ Lookup \/ CalculationFails \/ UpdateDone \/ StartClearing
               \/ \E input \in Inputs : StartCalculate(input) \/ RestoreResult(input)
               \/ \E p \in Profiles : SwitchProfile(p)
               \/ UNCHANGED historyVars
      BY <2>4, QuietAgrees
    <2> QED
      BY <2>1, <2>2, <2>3, <2>4 DEF HistoryNext, CalculateStep
  <1>3. AInv => HistoryAgrees
    <2> SUFFICES ASSUME AInv PROVE HistoryAgrees
      OBVIOUS
    <2>1. writes = <<>> => Last = 0
      BY DEF Last
    <2> QED
      BY <2>1 DEF AInv, InStep, Settled, AllSingle, Single, HistoryAgrees, HistoryQuiet
  <1> QED
    BY <1>1, <1>2, <1>3, TypeCorrect, PTL DEF HistorySpec

-----------------------------------------------------------------------------
\* What a profile shows was calculated for it (applyResult, the lookup and
\* handleRestoreResultCache), whichever profile is active by then.
THEOREM ShownToItsOwner == HistorySpec => []ShownBelongs
  <1>1. HistoryInit => ShownBelongs
    BY DEF HistoryInit, ShownBelongs
  <1>2. HistoryTypeOK /\ ShownBelongs /\ [HistoryNext]_historyVars => ShownBelongs'
    <2> SUFFICES ASSUME HistoryTypeOK, ShownBelongs, [HistoryNext]_historyVars PROVE ShownBelongs'
      OBVIOUS
    <2>1. shown \in [Profiles -> Profiles \cup {None}]
      BY DEF HistoryTypeOK
    <2>2. ASSUME NEW p \in Profiles, NEW v \in {p, None}, shown' = [shown EXCEPT ![p] = v]
          PROVE  ShownBelongs'
      BY <2>1, <2>2 DEF ShownBelongs
    <2>3. ASSUME shown' = shown
          PROVE  ShownBelongs'
      BY <2>3 DEF ShownBelongs
    <2>4. ASSUME shown' = [p \in Profiles |-> None]
          PROVE  ShownBelongs'
      BY <2>4 DEF ShownBelongs
    <2>5. calc.profile \in Profiles /\ activeProfile \in Profiles
      BY DEF HistoryTypeOK, CalcState
    <2>6. CASE Lookup
      <3>1. \/ shown' = shown
            \/ \E e \in Hits : shown' = [shown EXCEPT ![calc.profile] = e.profile]
        BY <2>6 DEF Lookup
      <3>2. \A e \in Hits : e.profile = calc.profile
        BY DEF Hits, SameKey
      <3> QED
        BY <2>2, <2>3, <2>5, <3>1, <3>2
    <2>7. CASE CalculationFails
      BY <2>2, <2>3, <2>5, <2>7 DEF CalculationFails
    <2>8. CASE WriteSettles
      <3>1. \/ shown' = [shown EXCEPT ![calc.profile] = calc.profile]
            \/ shown' = shown
            \/ shown' = [p \in Profiles |-> None]
        BY <2>8 DEF WriteSettles, CalculationStored, UpdateMarked, DeletionStored,
                    HistoryCleared, ResultOwner
      <3> QED
        BY <2>2, <2>3, <2>4, <2>5, <3>1
    <2>9. ASSUME NEW input \in Inputs, RestoreResult(input)
          PROVE  ShownBelongs'
      <3>1. shown' = [shown EXCEPT ![activeProfile] = activeProfile]
        BY <2>9 DEF RestoreResult, SameKey
      <3> QED
        BY <2>2, <2>5, <3>1
    <2>10. CASE Reload
      BY <2>4, <2>10 DEF Reload
    <2>11. CASE \/ CoreLoaded \/ Calculated \/ ProfilesCleared \/ StartUpdate \/ UpdateDone
                \/ DeleteHistory \/ StartClearing \/ UNCHANGED historyVars
                \/ \E input \in Inputs : StartCalculate(input) \/ DeleteEntry(input)
                \/ \E p \in Profiles : SwitchProfile(p)
      BY <2>3, <2>11 DEF CoreLoaded, Calculated, ProfilesCleared, StartUpdate, UpdateDone,
         DeleteHistory, DeleteEntry, Delete, StartClearing, StartCalculate, SwitchProfile, historyVars
    <2> QED
      BY <2>6, <2>7, <2>8, <2>9, <2>10, <2>11 DEF HistoryNext, CalculateStep
  <1> QED
    BY <1>1, <1>2, TypeCorrect, PTL DEF HistorySpec

\* Storing a result leaves the history of every other profile alone
\* (setCachedResult's limit counts the entries of one profile).
THEOREM OthersUntouched == HistorySpec => OtherHistoriesKept
  <1>1. Calculated => {e \in cache : e.profile # calc.profile}
                        = {e \in cache' : e.profile # calc.profile}
    <2> SUFFICES ASSUME Calculated
                 PROVE  {e \in cache : e.profile # calc.profile}
                          = {e \in cache' : e.profile # calc.profile}
      OBVIOUS
    <2>1. cache' = Newest(DropSameKey(cache) \cup {NewEntry}, calc.profile)
      BY DEF Calculated
    <2>2. \A e : e \in cache' /\ e.profile # calc.profile
                 <=> e \in DropSameKey(cache) \cup {NewEntry} /\ e.profile # calc.profile
      BY <2>1 DEF Newest
    <2>3. NewEntry.profile = calc.profile
      BY DEF NewEntry
    <2>4. \A e : e \in DropSameKey(cache) /\ e.profile # calc.profile
                 <=> e \in cache /\ e.profile # calc.profile
      BY DEF DropSameKey, SameKey
    <2> QED
      BY <2>2, <2>3, <2>4
  <1> QED
    BY <1>1, PTL DEF HistorySpec, OtherHistoriesKept

\* The history in memory is the one on disk and each profile shows its own
\* results (setCachedResult, handleDeleteResultCache, applyResult), as long as
\* the handlers overlap only in the Serial orders.
THEOREM HistoryIsHeld ==
    ASSUME Serial
    PROVE  HistorySpec => []HistoryHolds
  <1>1. HistoryAgrees /\ ShownBelongs => HistoryHolds
    BY DEF HistoryHolds
  <1> QED  BY <1>1, MemoryFollowsDisk, ShownToItsOwner, PTL
=============================================================================
