------------------------------- MODULE GameSync -------------------------------
(***************************************************************************)
(* The copy of the game data that a web page keeps                         *)
(* (apps/web/src/data/game-sync.js), and how it is brought up to date from *)
(* a mirror.  The records survive the page; the promises of manifests and  *)
(* what is under way do not.                                               *)
(*                                                                         *)
(* A record keeps what the manifest said of the file when it was asked for *)
(* (its label), which is compared later (needsUpdate): hash and version of *)
(* a file are one here.  A call asks for the main files one after another; *)
(* what else it needs it asks for in any order.  Files that are not        *)
(* managed by a manifest (charts, events, cards) are asked for once.       *)
(***************************************************************************)
EXTENDS PublishedData

CONSTANTS
    Calls,       \* calls of the page, numbered as they begin
    Fallback,    \* the main file that stands for a detail the mirror lacks, or None
    MaxFaults    \* bound on failed requests, reloads, and failures of the runtime

ASSUME SyncAssumption ==
    /\ Fallback \in [DetailSet -> CoreSet \cup {None}] /\ MaxFaults \in Nat
    /\ Calls \subseteq Nat

VARIABLES
    store,       \* the record of each file, [version, label], or None
    current,     \* the call whose promise of a manifest is kept, for each directory
    promised,    \* what each call's request for a manifest came to
    tasks,       \* the files each call asks for, and how far it is with each
    faults       \* failed requests, reloads and failures of the runtime so far

syncVars == <<store, current, promised, tasks, faults>>

-----------------------------------------------------------------------------
(* Promises of manifests.                                                  *)

Promise(state, files) == [state |-> state, files |-> files]
Pending == Promise("pending", NoFiles)
Broken == Promise("broken", NoFiles)

NoPromises == [d \in DirSet |-> None]

(* loadManifestPath: the promise that is kept, or a new one of this call. *)
OwnerFor(d, c) == IF current[d] # None THEN current[d] ELSE c

LoadManifest(d, c) ==
    IF current[d] # None THEN UNCHANGED <<current, promised>>
    ELSE /\ current' = [current EXCEPT ![d] = c]
         /\ promised' = [promised EXCEPT ![c][d] = Pending]

(* refreshManifest: the root is asked for again. *)
RefreshManifest(c) ==
    /\ current' = [current EXCEPT ![Root] = c]
    /\ promised' = [promised EXCEPT ![c][Root] = Pending]

(* fetchManifest: a directory without a manifest lists nothing. *)
ReceiveManifest(c, d) ==
    /\ promised[c][d] = Pending
    /\ promised' = [promised EXCEPT ![c][d] = Promise("listed", Listing(manifests[d]))]
    /\ UNCHANGED <<store, current, tasks, faults, published>>

(* A request fails; its promise stays. *)
LoseManifest(c, d) ==
    /\ promised[c][d] = Pending /\ faults < MaxFaults
    /\ promised' = [promised EXCEPT ![c][d] = Broken]
    /\ faults' = faults + 1
    /\ UNCHANGED <<store, current, tasks, published>>

Resolved(c, d) == promised[c][d] # None /\ promised[c][d].state = "listed"
Listed(c, d, f) == promised[c][d].files[f]

-----------------------------------------------------------------------------
(* One file: syncFile.                                                     *)
(*                                                                         *)
(* at: "manifest" (waits for the one of the directory), "fetch", "put"      *)
(* (about to store), "ok", "bad".                                          *)

Task(at, owner, label, version) == [at |-> at, owner |-> owner, label |-> label, version |-> version]
NoTasks == [f \in Files |-> None]

(* A file that is looked up in the manifest of its directory               *)
(* (loadManifestForPath).                                                  *)
WaitFor(d, c) == Task("manifest", OwnerFor(d, c), None, None)

(* Mutant of NeedsUpdate: a record is never out of date.                   *)
NeverUpdates(record, label) == FALSE

NeedsUpdate(record, label) == label # None /\ record.label # label

(* A file whose manifest entry is known, or that has none: the record may do. *)
LookFor(f, label) ==
    IF store[f] # None /\ ~ NeedsUpdate(store[f], label)
    THEN Task("ok", None, None, store[f].version)
    ELSE Task("fetch", None, label, None)

(* The manifest is there: the entry is kept for the rest of the way. *)
LearnLabel(c, f) ==
    /\ tasks[c][f] # None /\ tasks[c][f].at = "manifest"
    /\ LET owner == tasks[c][f].owner
       IN  /\ promised[owner][DirOf[f]] # Pending
           /\ tasks' = [tasks EXCEPT ![c][f] =
                  IF promised[owner][DirOf[f]] = Broken THEN Task("bad", None, None, None)
                  ELSE LookFor(f, Listed(owner, DirOf[f], f))]
    /\ UNCHANGED <<store, current, promised, faults, published>>

(* What the mirror has is on its way; a file it has not is an error, for    *)
(* the detail of an event the list of events is asked for instead           *)
(* (syncEvent); a correction may be missing.                               *)
Receive(c, f) ==
    /\ tasks[c][f] # None /\ tasks[c][f].at = "fetch"
    /\ LET t == tasks[c][f]
           other == IF f \in DetailSet THEN Fallback[f] ELSE None
       IN  IF disk[f] # None
           THEN /\ tasks' = [tasks EXCEPT ![c][f] = Task("put", None, t.label, disk[f])]
                /\ UNCHANGED <<current, promised>>
           ELSE IF other # None
           THEN /\ tasks' = [tasks EXCEPT ![c][f] = Task("ok", None, None, None),
                                          ![c][other] = WaitFor(DirOf[other], c)]
                /\ LoadManifest(DirOf[other], c)
           ELSE /\ tasks' = [tasks EXCEPT ![c][f] = Task(IF f \in RepairSet THEN "ok" ELSE "bad", None, None, None)]
                /\ UNCHANGED <<current, promised>>
    /\ UNCHANGED <<store, faults, published>>

LoseFile(c, f) ==
    /\ tasks[c][f] # None /\ tasks[c][f].at = "fetch" /\ faults < MaxFaults
    /\ tasks' = [tasks EXCEPT ![c][f] = Task("bad", None, None, None)]
    /\ faults' = faults + 1
    /\ UNCHANGED <<store, current, promised, published>>

Put(c, f) ==
    /\ tasks[c][f] # None /\ tasks[c][f].at = "put"
    /\ LET t == tasks[c][f]
       IN  /\ store' = [store EXCEPT ![f] = [version |-> t.version, label |-> t.label]]
           /\ tasks' = [tasks EXCEPT ![c][f] = Task("ok", None, None, t.version)]
    /\ UNCHANGED <<current, promised, faults, published>>

SyncStep(c) ==
    \/ \E d \in DirSet : ReceiveManifest(c, d)
    \/ \E f \in Files : LearnLabel(c, f) \/ Receive(c, f) \/ Put(c, f)

SyncFails(c) ==
    \/ \E d \in DirSet : LoseManifest(c, d)
    \/ \E f \in Files : LoseFile(c, f)

Settled(c) == \A f \in Files : tasks[c][f] = None \/ tasks[c][f].at \in {"ok", "bad"}

(* A page is opened; records may be there from before. *)
InitSyncWith(records) ==
    /\ store = records
    /\ current = NoPromises
    /\ promised = [c \in Calls |-> NoPromises]
    /\ tasks = [c \in Calls |-> NoTasks]
    /\ faults = 0

InitSync == InitSyncWith([f \in Files |-> None])

=============================================================================
