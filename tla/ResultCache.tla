----------------------------- MODULE ResultCache -----------------------------
(***************************************************************************)
(* The history of calculation results and when one may be reused:          *)
(* handleCalculate, setCachedResult, the deletion handlers and             *)
(* invalidateResultCache of apps/web/src/actions/calculation.js, the       *)
(* resource handlers of actions/resource.js and data/result-cache.js.      *)
(*                                                                         *)
(* An action is the code from one await to the next.  The history is a     *)
(* set: its array is always ordered by createdAt, newest first.  Writes of *)
(* the array are transactions on one object store, so they settle in the   *)
(* order of their requests.  Entries of older formats or scoring revisions *)
(* are left out: normalizeEntry makes them entries that are not reusable.  *)
(***************************************************************************)
EXTENDS Integers, Sequences, FiniteSets

CONSTANTS Profiles, Inputs,     \* a cache key is a profile and an input
          None,                 \* no result
          Limit,                \* resultCacheLimit
          StartDuring,          \* <<k, l>>: k may start while l is in progress
          MayFail,              \* may writes, loads and calculations fail?
          RemoteUpdates,        \* may loading the core files bring newer data?
          MaxData, MaxResults, MaxGeneration     \* bounds

Kinds == {"calculate", "update", "delete", "clear"}

ASSUME ResultCacheAssumption ==
    /\ Profiles # {} /\ Inputs # {}
    /\ Limit \in Nat \ {0}
    /\ MaxData \in Nat /\ MaxResults \in Nat /\ MaxGeneration \in Nat
    /\ StartDuring \subseteq Kinds \X Kinds
    /\ MayFail \in BOOLEAN /\ RemoteUpdates \in BOOLEAN

Entry == [profile : Profiles, input : Inputs, data : 0..MaxData,
          created : 1..MaxResults, reusable : BOOLEAN]
ASSUME NoneAssumption == None \notin Profiles

\* Instances of StartDuring.  Resource operations and deletions may start while a
\* calculation or the other of the two runs, in the orders that the code gets right.
Overlapping == {<<"update", "calculate">>, <<"delete", "update">>}
CalculateDuringUpdate == {<<"calculate", "update">>}

VARIABLES data,        \* version of the game data the runtime calculates with
          renewed,     \* history: what the last resource operation left of it
          generation,  \* state.resultCacheGeneration
          activeProfile, \* state.activePlayerProfileId
          cache,       \* state.resultCache
          disk,        \* what IndexedDB holds
          writes,      \* requested writes, in order
          unsaved,     \* the last settled write failed and nothing rolled back
          created,     \* results stored so far (createdAt)
          calc,        \* the calculation in progress (isCalculating)
          update,      \* the resource operation in progress
          deletion,    \* the deletion in progress
          clear,       \* handleClearLocalCache in progress
          shown        \* state.profileDiagnostics: whose result each profile shows

historyVars == <<data, renewed, generation, activeProfile, cache, disk, writes, unsaved, created,
                 calc, update, deletion, clear, shown>>

CalcState == [at : {"idle", "load", "lookup", "run", "store"},
              profile : Profiles, input : Inputs,
              generation : 0..MaxGeneration, data : 0..MaxData]

Write == [content : SUBSET Entry, by : Kinds]

HistoryTypeOK ==
    /\ data \in 0..MaxData /\ renewed \in 0..MaxData
    /\ generation \in 0..MaxGeneration
    /\ activeProfile \in Profiles
    /\ cache \in SUBSET Entry /\ disk \in SUBSET Entry
    /\ writes \in Seq(Write)
    /\ unsaved \in BOOLEAN
    /\ created \in 0..MaxResults
    /\ calc \in CalcState
    /\ update \in {"idle", "marking", "running"}
    /\ deletion \in [busy : BOOLEAN, previous : SUBSET Entry]
    /\ clear \in {"idle", "draining", "deleting"}
    /\ shown \in [Profiles -> Profiles \cup {None}]

IdleCalc == [at |-> "idle", profile |-> activeProfile, input |-> CHOOSE i \in Inputs : TRUE,
             generation |-> 0, data |-> 0]
NoDeletion == [busy |-> FALSE, previous |-> {}]

HistoryInit ==
    /\ data = 0 /\ renewed = 0 /\ generation = 0 /\ created = 0
    /\ activeProfile \in Profiles
    /\ cache = {} /\ disk = {} /\ writes = <<>> /\ unsaved = FALSE
    /\ calc = IdleCalc /\ update = "idle" /\ deletion = NoDeletion
    /\ clear = "idle"
    /\ shown = [p \in Profiles |-> None]

-----------------------------------------------------------------------------
InProgress(kind) ==
    CASE kind = "calculate" -> calc.at # "idle"
      [] kind = "update"    -> update # "idle"
      [] kind = "delete"    -> deletion.busy
      [] kind = "clear"     -> clear # "idle"

\* The page only keeps a calculation from starting during another one and a
\* clearing during a calculation; StartDuring restricts the user further.
MayStart(kind) ==
    \A other \in Kinds : InProgress(other) => <<kind, other>> \in StartDuring

SameKey(e, profile, input) == e.profile = profile /\ e.input = input

\* persistResultCacheState
Persist(content, by) == writes' = Append(writes, [content |-> content, by |-> by])

EndCalculation == calc' = IdleCalc

-----------------------------------------------------------------------------
(* handleCalculate *)

StartCalculate(input) ==
    /\ calc.at = "idle" /\ MayStart("calculate")
    /\ calc' = [IdleCalc EXCEPT !.at = "load", !.input = input,
                                !.generation = generation]
    /\ UNCHANGED <<data, renewed, generation, activeProfile, cache, disk, writes, unsaved,
                   created, update, deletion, clear, shown>>

\* ensureCore({refreshManifest: true}): the calculation uses what it loaded.
CoreLoaded ==
    /\ calc.at = "load"
    /\ \/ data' = data
       \/ RemoteUpdates /\ data < MaxData /\ data' = data + 1
    /\ IF activeProfile = calc.profile
         THEN calc' = [calc EXCEPT !.at = "lookup", !.data = data']
         ELSE EndCalculation
    /\ UNCHANGED <<renewed, generation, activeProfile, cache, disk, writes, unsaved, created,
                   update, deletion, clear, shown>>

\* getCachedResult and resultCacheInvalidationReason, after savePlayerNow.
IsHit(e) == e.reusable
Hits == {e \in cache : SameKey(e, calc.profile, calc.input) /\ IsHit(e)}

Lookup ==
    /\ calc.at = "lookup"
    /\ CASE activeProfile # calc.profile -> EndCalculation /\ UNCHANGED shown
         [] activeProfile = calc.profile /\ Hits = {} ->
              /\ calc' = [calc EXCEPT !.at = "run"]
              /\ UNCHANGED shown
         [] OTHER -> \E e \in Hits :
              /\ shown' = [shown EXCEPT ![calc.profile] = e.profile]
              /\ EndCalculation
    /\ UNCHANGED <<data, renewed, generation, activeProfile, cache, disk, writes, unsaved,
                   created, update, deletion, clear>>

\* An entry whose calculation began before an invalidation is not reusable.
ReusableAlways == TRUE
Reusable == calc.generation = generation

NewEntry == [profile |-> calc.profile, input |-> calc.input, data |-> calc.data,
             created |-> created + 1, reusable |-> Reusable]

\* The Limit newest entries of the profile stay; others are not touched.
NewestOfAll(entries, profile) ==
    {e \in entries : Cardinality({f \in entries : f.created >= e.created}) <= Limit}
Newest(entries, profile) ==
    {e \in entries :
       \/ e.profile # profile
       \/ Cardinality({f \in entries : /\ f.profile = profile
                                       /\ f.created >= e.created}) <= Limit}

\* setCachedResult up to the write.
KeepSameKey(entries) == entries
DropSameKey(entries) ==
    {e \in entries : ~SameKey(e, calc.profile, calc.input)}

Calculated ==
    /\ calc.at = "run"
    /\ created < MaxResults
    /\ created' = created + 1
    /\ cache' = Newest(DropSameKey(cache) \cup {NewEntry}, calc.profile)
    /\ Persist(cache', "calculate")
    /\ calc' = [calc EXCEPT !.at = "store"]
    /\ UNCHANGED <<data, renewed, generation, activeProfile, disk, unsaved, update, deletion,
                   clear, shown>>

\* The load or the save rejects, or the calculation does: its diagnostic
\* replaces what the profile showed.
FailureKeepsBusy ==
    /\ MayFail
    /\ calc.at \in {"load", "lookup", "run"}
    /\ calc' = [calc EXCEPT !.at = "store"]
    /\ UNCHANGED <<data, renewed, generation, activeProfile, cache, disk, writes, unsaved,
                   created, update, deletion, clear, shown>>
CalculationFails ==
    /\ MayFail
    /\ calc.at \in {"load", "lookup", "run"}
    /\ EndCalculation
    /\ shown' = IF calc.at = "run" THEN [shown EXCEPT ![calc.profile] = None]
                                   ELSE shown
    /\ UNCHANGED <<data, renewed, generation, activeProfile, cache, disk, writes, unsaved,
                   created, update, deletion, clear>>

-----------------------------------------------------------------------------
(* Resource operations: clear the game cache, refresh the core files, or    *)
(* fetch everything.  invalidateResultCache comes first.                    *)

Invalidated(entries) == {[e EXCEPT !.reusable = FALSE] : e \in entries}

StartUpdate ==
    /\ update = "idle" /\ MayStart("update")
    /\ generation < MaxGeneration
    /\ generation' = generation + 1
    /\ cache' = Invalidated(cache)
    /\ Persist(cache', "update")
    /\ update' = "marking"
    /\ UNCHANGED <<data, renewed, activeProfile, disk, unsaved, created, calc, deletion, clear,
                   shown>>

\* The operation may fail after it changed some of the data.
UpdateDone ==
    /\ update = "running"
    /\ data' \in {data, data + 1} \cap 0..MaxData
    /\ renewed' = data'
    /\ update' = "idle"
    /\ UNCHANGED <<generation, activeProfile, cache, disk, writes, unsaved, created,
                   calc, deletion, clear, shown>>

-----------------------------------------------------------------------------
(* handleDeleteResultCache and handleClearResultCache, from the confirmation *)

Delete(removed) ==
    /\ ~deletion.busy /\ MayStart("delete")
    /\ removed # {}
    /\ deletion' = [busy |-> TRUE, previous |-> cache]
    /\ cache' = cache \ removed
    /\ Persist(cache', "delete")
    /\ UNCHANGED <<data, renewed, generation, activeProfile, disk, unsaved, created, calc,
                   update, clear, shown>>

DeleteEntry(input) == Delete({e \in cache : SameKey(e, activeProfile, input)})
DeleteHistory == Delete({e \in cache : e.profile = activeProfile})

-----------------------------------------------------------------------------
(* handleClearLocalCache, from the second look at hasActiveCalculation.     *)

StartClearing ==
    /\ clear = "idle" /\ calc.at = "idle" /\ MayStart("clear")
    /\ clear' = "draining"
    /\ UNCHANGED <<data, renewed, generation, activeProfile, cache, disk, writes, unsaved,
                   created, calc, update, deletion, shown>>

\* The saves have settled and the profiles are gone.
ProfilesCleared ==
    /\ clear = "draining"
    /\ Persist({}, "clear")
    /\ clear' = "deleting"
    /\ UNCHANGED <<data, renewed, generation, activeProfile, cache, disk, unsaved, created,
                   calc, update, deletion, shown>>

-----------------------------------------------------------------------------
(* The oldest write settles; who requested it goes on. *)

UpdateRegardless(saved) == "running"
UpdateAfter(saved) == IF saved THEN "running" ELSE "idle"

\* What a deletion leaves in memory when its write fails.
NoRollback == cache
Rollback == deletion.previous

\* applyResult: the result belongs to the profile that asked for it.
ActiveOwner == activeProfile
ResultOwner == calc.profile

CalculationStored(w) ==
    /\ w.by = "calculate"
    /\ shown' = [shown EXCEPT ![ResultOwner] = calc.profile]
    /\ EndCalculation
    /\ UNCHANGED <<cache, update, deletion, clear>>

UpdateMarked(w, saved) ==
    /\ w.by = "update"
    /\ update' = UpdateAfter(saved)
    /\ UNCHANGED <<cache, calc, deletion, clear, shown>>

DeletionStored(w, saved) ==
    /\ w.by = "delete"
    /\ cache' = IF saved THEN cache ELSE Rollback
    /\ deletion' = NoDeletion
    /\ UNCHANGED <<calc, update, clear, shown>>

HistoryCleared(w, saved) ==
    /\ w.by = "clear"
    /\ cache' = IF saved THEN {} ELSE cache
    /\ shown' = IF saved THEN [p \in Profiles |-> None] ELSE shown
    /\ clear' = "idle"
    /\ UNCHANGED <<calc, update, deletion>>

WriteSettles ==
    /\ writes # <<>>
    /\ \E saved \in {TRUE, ~MayFail} : LET w == Head(writes) IN
         /\ disk' = IF saved THEN w.content ELSE disk
         /\ unsaved' = (~saved /\ (w.by \in {"delete", "clear"} => unsaved))
         /\ \/ CalculationStored(w)
            \/ UpdateMarked(w, saved)
            \/ DeletionStored(w, saved)
            \/ HistoryCleared(w, saved)
    /\ writes' = Tail(writes)
    /\ UNCHANGED <<data, renewed, generation, activeProfile, created>>

-----------------------------------------------------------------------------
\* handleRestoreResultCache: any entry of the active profile may be viewed.
RestoreResult(input) ==
    /\ \E e \in cache :
         /\ SameKey(e, activeProfile, input)
         /\ shown' = [shown EXCEPT ![activeProfile] = e.profile]
    /\ UNCHANGED <<data, renewed, generation, activeProfile, cache, disk, writes, unsaved,
                   created, calc, update, deletion, clear>>

SwitchProfile(p) ==
    /\ p # activeProfile
    /\ activeProfile' = p
    /\ UNCHANGED <<data, renewed, generation, cache, disk, writes, unsaved, created,
                   calc, update, deletion, clear, shown>>

\* The page is closed and opened again (loadResultCache): what was not written
\* is gone; an interrupted resource operation may have changed the data, and the
\* core files are looked up when the page opens (preloadReferenceData).
Reload ==
    /\ \/ data' = data
       \/ (update = "running" \/ RemoteUpdates) /\ data < MaxData /\ data' = data + 1
    /\ renewed' = IF update = "running" THEN data' ELSE renewed
    /\ cache' = disk
    /\ generation' = 0 /\ writes' = <<>> /\ unsaved' = FALSE
    /\ calc' = IdleCalc /\ update' = "idle" /\ deletion' = NoDeletion
    /\ clear' = "idle"
    /\ shown' = [p \in Profiles |-> None]
    /\ UNCHANGED <<activeProfile, disk, created>>

CalculateStep == CoreLoaded \/ Lookup \/ Calculated \/ CalculationFails

HistoryNext ==
    \/ CalculateStep \/ WriteSettles \/ ProfilesCleared
    \/ \E input \in Inputs :
         StartCalculate(input) \/ DeleteEntry(input) \/ RestoreResult(input)
    \/ StartUpdate \/ UpdateDone \/ DeleteHistory \/ StartClearing
    \/ \E p \in Profiles : SwitchProfile(p)
    \/ Reload

HistorySpec == HistoryInit /\ [][HistoryNext]_historyVars

\* Awaited calls settle; nothing obliges the user to act.
FairHistory == WF_historyVars(CalculateStep) /\ WF_historyVars(WriteSettles)

FairHistorySpec == HistorySpec /\ FairHistory

-----------------------------------------------------------------------------
(* Properties *)

\* After a resource operation no result is reused that used the data before it
\* (docs/persistence.md): a reusable entry, in memory or on disk, was calculated
\* with the data that the last operation left, or with newer.
NoStaleReuse == \A e \in cache \cup disk : e.reusable => e.data \in renewed..data

\* "never reuse scores after game data changes" (invalidateResultCache): what a
\* calculation takes from the history was calculated with the data at hand, also
\* when looking for newer core files has just changed it.
ReusesCurrent == calc.at = "lookup" => \A e \in Hits : e.data = data

HistoryQuiet == writes = <<>> /\ ~deletion.busy /\ update # "marking" /\ clear = "idle"

\* Memory and disk hold the same history whenever no write is pending, unless
\* the last write failed and the page said so (docs/persistence.md), and never
\* two results of one key, even after a rollback.
HistoryAgrees ==
    /\ HistoryQuiet /\ ~unsaved => cache = disk
    /\ \A e, f \in cache : SameKey(e, f.profile, f.input) => e = f

\* Storing a result removes no other profile's history: each profile keeps its
\* Limit newest results.
OtherHistoriesKept ==
    [][Calculated => {e \in cache : e.profile # calc.profile}
                       = {e \in cache' : e.profile # calc.profile}]_historyVars

\* What a profile shows was calculated for it, whichever profile is active.
ShownBelongs == \A p \in Profiles : shown[p] \in {p, None}

\* The history is the one on disk, and what is shown from it is the profile's own.
HistoryHolds == HistoryAgrees /\ ShownBelongs

\* Every calculation ends and lets the next one start.
CalculationEnds == calc.at # "idle" ~> calc.at = "idle"
=============================================================================
