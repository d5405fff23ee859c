------------------------------ MODULE WebRuntime ------------------------------
(***************************************************************************)
(* A web page that works with the game data (app/core.js, the handlers of  *)
(* actions/calculation.js, actions/activity.js and actions/resource.js,    *)
(* runtime/browser.js and runtime/browser-worker.js) over GameSync.        *)
(*                                                                         *)
(* Every call wants the main files first (ensureCore): "load" takes those  *)
(* the page has, the others have the manifest of the root asked for again. *)
(* "choose" then reads an event, "calculate" and "scoreRange" what the     *)
(* calculation needs, which runs in a worker, or in the page when the      *)
(* worker cannot be used; "clear" empties the copy first.  Calculations    *)
(* exclude each other, other calls do not.                                 *)
(*                                                                         *)
(* Left out: the preset of the current event that is read in the           *)
(* background after the main files (what "choose" reads), and what is done *)
(* with a result (ResultCache).                                            *)
(***************************************************************************)
EXTENDS GameSync

CONSTANTS Wants     \* the sets of files each kind of call may want beyond the main files

Calculations == {"calculate", "scoreRange"}
Refreshing == {"choose", "clear"} \cup Calculations
Kinds == {"load"} \cup Refreshing

ASSUME WantsAssumption ==
    /\ Wants \in [Kinds -> SUBSET SUBSET (DetailSet \cup {Meta})]
    /\ Wants["load"] = {{}} /\ Wants["clear"] = {{}}

VARIABLES
    calls,      \* what each call is at
    core,       \* the main files the page shows, or None (state.core)
    coreLoad,   \* the call others wait for (state.coreLoadPromise), or None
    worker,     \* "none", "on" or "off": not started, running, given up
    modules     \* the promise of the WASM module in the page and in the worker

pageVars == <<calls, core, coreLoad, worker, modules>>
vars == <<published, syncVars, pageVars>>

Call(kind, wanted, stage) ==
    [kind |-> kind, wanted |-> wanted, stage |-> stage, root |-> None, step |-> 0,
     due |-> NoFiles, faults |-> 0]

NoCall == Call(None, {}, "idle")
At(c, stage) == calls[c].stage = stage
Ended(c) == calls[c].stage \in {"done", "failed", "gone"}
Ends(c, stage) == [calls EXCEPT ![c] = Call(None, {}, stage)]
Calculates(c, place) == [calls EXCEPT ![c] = Call(@.kind, {}, place)]

(* What a call that ends asked for is of no use to it; what is still under  *)
(* way goes on.                                                            *)
Drop(c) ==
    tasks' = [tasks EXCEPT ![c] = [f \in Files |->
                IF @[f] # None /\ @[f].at \in {"ok", "bad"} THEN None ELSE @[f]]]

InitPage ==
    /\ calls = [c \in Calls |-> NoCall]
    /\ core = None /\ coreLoad = None
    /\ worker = "none" /\ modules = [place \in {"page", "worker"} |-> "none"]

-----------------------------------------------------------------------------
(* ensureCore and syncCore.                                                *)

(* Mutant of Refresh: the promise that is kept is used again.              *)
RefreshFromKept(c, kind, wanted) ==
    /\ LoadManifest(Root, c)
    /\ calls' = [calls EXCEPT ![c] = [Call(kind, wanted, "root") EXCEPT
                    !.root = OwnerFor(Root, c), !.due = Listing(manifests[Root]), !.faults = faults]]

(* What the root lists now is due, for a call that asks for it again.      *)
Refresh(c, kind, wanted) ==
    /\ RefreshManifest(c)
    /\ calls' = [calls EXCEPT ![c] = [Call(kind, wanted, "root") EXCEPT
                    !.root = c, !.due = Listing(manifests[Root]), !.faults = faults]]

Load(c) ==
    IF core # None
    THEN calls' = [calls EXCEPT ![c] = Call(None, {}, "done")]
         /\ UNCHANGED <<current, promised, coreLoad>>
    ELSE IF coreLoad # None
    THEN calls' = [calls EXCEPT ![c] = [Call("load", {}, "join") EXCEPT !.root = coreLoad]]
         /\ UNCHANGED <<current, promised, coreLoad>>
    ELSE /\ LoadManifest(Root, c)
         /\ coreLoad' = c
         /\ calls' = [calls EXCEPT ![c] = [Call("load", {}, "root") EXCEPT !.root = OwnerFor(Root, c)]]

Begin(c, kind, wanted) ==
    /\ At(c, "idle") /\ \A x \in Calls : x < c => ~ At(x, "idle")
    /\ kind \in Calculations => \A x \in Calls : calls[x].kind \in Calculations => Ended(x)
    /\ CASE kind = "load" -> Load(c)
         [] kind = "clear" -> /\ calls' = [calls EXCEPT ![c] = Call(kind, {}, "clear")]
                              /\ UNCHANGED <<current, promised, coreLoad>>
         [] OTHER -> Refresh(c, kind, wanted) /\ UNCHANGED coreLoad
    /\ UNCHANGED <<published, store, tasks, faults, core, worker, modules>>

(* handleClearGameCache: the records go first (clearCache) ... *)
ClearStore(c) ==
    /\ At(c, "clear")
    /\ store' = [f \in Files |-> None]
    /\ calls' = [calls EXCEPT ![c].stage = "cleared"]
    /\ UNCHANGED <<published, current, promised, tasks, faults, core, coreLoad, worker, modules>>

(* ... then the promises and what the page shows, and all is asked for anew. *)
Forget(c) ==
    /\ At(c, "cleared")
    /\ core' = None
    /\ current' = [NoPromises EXCEPT ![Root] = c]
    /\ promised' = [promised EXCEPT ![c][Root] = Pending]
    /\ calls' = [calls EXCEPT ![c] = [Call("clear", {}, "root") EXCEPT
                    !.root = c, !.due = Listing(manifests[Root]), !.faults = faults]]
    /\ UNCHANGED <<published, store, tasks, faults, coreLoad, worker, modules>>

(* The files of syncCore: the corrections last, of these the listed ones.   *)
Order == Core \o Repairs

Behind(c, step) ==
    {n \in step + 1 .. Len(Order) : n <= Len(Core) \/ Listed(calls[c].root, Root, Order[n]) # None}

(* The next file is asked for. *)
AskBehind(c, step) ==
    \E n \in Behind(c, step) :
        /\ \A k \in Behind(c, step) : n <= k
        /\ tasks' = [tasks EXCEPT ![c][Order[n]] = LookFor(Order[n], Listed(calls[c].root, Root, Order[n]))]
        /\ calls' = [calls EXCEPT ![c].stage = "core", ![c].step = n]

RootKnown(c) ==
    /\ At(c, "root") /\ Resolved(calls[c].root, Root)
    /\ AskBehind(c, 0)
    /\ UNCHANGED <<published, store, current, promised, faults, core, coreLoad, worker, modules>>

(* The file that was asked for last. *)
Asked(c) == tasks[c][Order[calls[c].step]]

NextFile(c) ==
    /\ At(c, "core") /\ Asked(c).at = "ok"
    /\ AskBehind(c, calls[c].step)
    /\ UNCHANGED <<published, store, current, promised, faults, core, coreLoad, worker, modules>>

CoreVersions(c) == [f \in CoreSet |-> tasks[c][f].version]

(* The main files are there: the page shows them, and the call asks for     *)
(* what else it wants (buildCalculationPayload, buildScoreRangePayload,     *)
(* loadEventRecord).                                                       *)
CoreKnown(c) ==
    /\ At(c, "core") /\ Asked(c).at = "ok"
    /\ Behind(c, calls[c].step) = {}
    /\ core' = CoreVersions(c)
    /\ coreLoad' = IF coreLoad = c THEN None ELSE coreLoad
    /\ LET wanted == calls[c].wanted
       IN  IF wanted = {}
           THEN calls' = Ends(c, "done") /\ Drop(c) /\ UNCHANGED <<current, promised>>
           ELSE /\ calls' = [calls EXCEPT ![c] = Call(@.kind, wanted, "files")]
                /\ tasks' = [tasks EXCEPT ![c] = [f \in Files |->
                                IF f = Meta /\ Meta \in wanted THEN WaitFor(DirOf[Meta], c)
                                ELSE IF f \in wanted THEN LookFor(f, None) ELSE None]]
                /\ IF Meta \in wanted THEN LoadManifest(DirOf[Meta], c) ELSE UNCHANGED <<current, promised>>
    /\ UNCHANGED <<published, store, faults, worker, modules>>

CoreFails(c) ==
    /\ \/ At(c, "root") /\ promised[calls[c].root][Root] = Broken
       \/ At(c, "core") /\ Asked(c).at = "bad"
    /\ coreLoad' = IF coreLoad = c THEN None ELSE coreLoad
    /\ calls' = Ends(c, "failed")
    /\ Drop(c)
    /\ UNCHANGED <<published, store, current, promised, faults, core, worker, modules>>

(* A call that waits for the main files another one loads. *)
Joined(c) ==
    /\ At(c, "join") /\ Ended(calls[c].root)
    /\ calls' = Ends(c, calls[calls[c].root].stage)
    /\ UNCHANGED <<published, syncVars, core, coreLoad, worker, modules>>

-----------------------------------------------------------------------------
(* The calculation.                                                        *)

(* What a call waits for: where the mirror lacks the detail of an event,    *)
(* for the list of events instead.                                         *)
Needed(c) ==
    calls[c].wanted \cup {Fallback[f] : f \in {x \in calls[c].wanted \cap DetailSet :
                                            tasks[c][x].at = "ok" /\ tasks[c][x].version = None}}

(* run, ensureWorker: the worker is started for the first calculation; once *)
(* that failed or it was given up, the page calculates.                     *)
FilesKnown(c) ==
    /\ At(c, "files") /\ \A f \in Needed(c) : tasks[c][f].at = "ok"
    /\ \/ /\ calls[c].kind = "choose"
          /\ calls' = Ends(c, "done") /\ UNCHANGED <<worker, faults>>
       \/ /\ calls[c].kind \in Calculations /\ worker = "off"
          /\ calls' = Calculates(c, "page") /\ UNCHANGED <<worker, faults>>
       \/ /\ calls[c].kind \in Calculations /\ worker # "off"
          /\ calls' = Calculates(c, "worker") /\ worker' = "on" /\ UNCHANGED faults
       \/ /\ calls[c].kind \in Calculations /\ worker = "none" /\ faults < MaxFaults
          /\ calls' = Calculates(c, "page") /\ worker' = "off" /\ faults' = faults + 1
    /\ Drop(c)
    /\ UNCHANGED <<published, store, current, promised, core, coreLoad, modules>>

FilesFail(c) ==
    /\ At(c, "files") /\ \E f \in Needed(c) : tasks[c][f].at = "bad"
    /\ calls' = Ends(c, "failed")
    /\ Drop(c)
    /\ UNCHANGED <<published, store, current, promised, faults, core, coreLoad, worker, modules>>

(* loadWasm: the promise is kept, also when the module cannot be loaded.    *)
LoadModule(place) ==
    /\ modules[place] = "none" /\ (place = "worker" => worker = "on")
    /\ \E c \in Calls : At(c, place)
    /\ \/ modules' = [modules EXCEPT ![place] = "loaded"] /\ UNCHANGED faults
       \/ /\ faults < MaxFaults /\ faults' = faults + 1
          /\ modules' = [modules EXCEPT ![place] = "broken"]
    /\ UNCHANGED <<published, store, current, promised, tasks, calls, core, coreLoad, worker>>

(* handleWorkerMessage, or the answer of the page: a result or an error.    *)
Answer(c) ==
    /\ calls[c].stage \in {"page", "worker"} /\ modules[calls[c].stage] # "none"
    /\ calls' = Ends(c, IF modules[calls[c].stage] = "loaded" THEN "done" ELSE "failed")
    /\ UNCHANGED <<published, syncVars, core, coreLoad, worker, modules>>

(* Mutant of WorkerFails: the calls it had are forgotten.                  *)
WorkerFailsSilently ==
    /\ worker = "on" /\ faults < MaxFaults
    /\ faults' = faults + 1
    /\ worker' = "off"
    /\ modules' = [modules EXCEPT !["worker"] = "none"]
    /\ UNCHANGED <<published, store, current, promised, tasks, calls, core, coreLoad>>

(* A worker that fails is given up, and every call it had fails             *)
(* (handleWorkerFailure).                                                  *)
WorkerFails ==
    /\ worker = "on" /\ faults < MaxFaults
    /\ faults' = faults + 1
    /\ worker' = "off"
    /\ modules' = [modules EXCEPT !["worker"] = "none"]
    /\ calls' = [c \in Calls |-> IF At(c, "worker") THEN Call(None, {}, "failed") ELSE calls[c]]
    /\ UNCHANGED <<published, store, current, promised, tasks, core, coreLoad>>

(* The page is opened again: only the records stay. *)
Reload ==
    /\ faults < MaxFaults /\ \E c \in Calls : ~ At(c, "idle")
    /\ faults' = faults + 1
    /\ calls' = [c \in Calls |-> IF At(c, "idle") \/ Ended(c) THEN calls[c] ELSE Call(None, {}, "gone")]
    /\ current' = NoPromises /\ promised' = [c \in Calls |-> NoPromises]
    /\ tasks' = [c \in Calls |-> NoTasks]
    /\ core' = None /\ coreLoad' = None
    /\ worker' = "none" /\ modules' = [place \in {"page", "worker"} |-> "none"]
    /\ UNCHANGED <<published, store>>

-----------------------------------------------------------------------------

(* The requests of a call go on after it failed. *)
Requests(c) == SyncStep(c) /\ UNCHANGED pageVars

CallStep(c) ==
    \/ ClearStore(c) \/ Forget(c)
    \/ RootKnown(c) \/ NextFile(c) \/ CoreKnown(c) \/ CoreFails(c) \/ Joined(c)
    \/ FilesKnown(c) \/ FilesFail(c) \/ Answer(c)

PageNext ==
    \/ \E c \in Calls, kind \in Kinds : \E wanted \in Wants[kind] : Begin(c, kind, wanted)
    \/ \E c \in Calls : CallStep(c) \/ Requests(c) \/ (SyncFails(c) /\ UNCHANGED pageVars)
    \/ \E place \in {"page", "worker"} : LoadModule(place)
    \/ WorkerFails \/ Reload

(* The browser runs its callbacks, the network answers, and so does the    *)
(* worker: while there is something to do, something is done.              *)
Progress ==
    \/ \E c \in Calls : CallStep(c) \/ Requests(c)
    \/ \E place \in {"page", "worker"} : LoadModule(place)

-----------------------------------------------------------------------------
(* Properties.                                                             *)

(* Whoever asks for the manifest again gets main files at least as new as   *)
(* those the mirror listed when it asked, whatever other calls stored,      *)
(* fetched late or cleared meanwhile.                                      *)
FreshCore ==
    [][\A c \in Calls : At(c, "core") /\ calls'[c].stage \notin {"core", "failed", "gone"} =>
          \A f \in CoreSet : Reaches(core'[f], calls[c].due[f])]_vars

(* Whoever asks for the manifest again gets the main files, unless a        *)
(* request failed since it asked: no failure of the past is kept.          *)
NoOldFailure ==
    [][\A c \in Calls : calls[c].stage \in {"root", "core"} /\ calls[c].kind \in Refreshing
          /\ calls'[c].stage = "failed" => faults > calls[c].faults]_vars

(* Asking for the manifest again brings the main files up to what it lists,  *)
(* and does not fail for what failed before.                               *)
RefreshHolds == FreshCore /\ NoOldFailure

(* Every call ends: it is answered, or it fails, also when the worker is    *)
(* given up while it calculates, or a call it waits for fails.             *)
CallsEnd == []<>(\A c \in Calls : At(c, "idle") \/ Ended(c))

=============================================================================
