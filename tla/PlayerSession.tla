---------------------------- MODULE PlayerSession ----------------------------
(***************************************************************************)
(* The page's working copy of a player configuration and the handlers that *)
(* move it between profiles: apps/web/src/app/player.js,                   *)
(* actions/profile.js, the save button of ui/archive.js and                *)
(* handleClearLocalCache of actions/resource.js.                           *)
(*                                                                         *)
(* JavaScript runs one callback at a time, so an action is the code from   *)
(* one await to the next; an awaited call to the runtime takes effect when *)
(* it completes (UserStorage shows that calls made one after the other     *)
(* implement ProfileStore).  Other callbacks run while a handler waits.    *)
(*                                                                         *)
(* A configuration is the profile it belongs to and the number of the last *)
(* user edit in it.  playerSaveSequence is left out: it changes only       *)
(* together with clearing the timer, so the armed timer is always current. *)
(***************************************************************************)
EXTENDS ProfileStore, Integers, Sequences

CONSTANTS Handlers,             \* handlers that may wait at the same time
          Ops,                  \* what the user may start
          MaxEdits, MaxQueue,   \* bounds on edits and waiting saves
          BusyInput,            \* may the user edit while a handler waits?
          Failing               \* whose runtime calls may reject

OpNames == {"switch", "new", "copy", "import", "archive", "delete", "clear"}

ASSUME SessionAssumption ==
    /\ MaxEdits \in Nat /\ MaxQueue \in Nat
    /\ BusyInput \in BOOLEAN
    /\ Failing \subseteq OpNames \cup {"save"}
    /\ Ops \subseteq OpNames
    /\ Handlers \cap {"timer", "calculate"} = {}
    /\ Values = [owner : Ids, edit : 0..MaxEdits]
    /\ Sample = [owner |-> Default, edit |-> 0]

\* These configurations, for TLC.
Configurations == [owner : Ids, edit : 0..MaxEdits]
Unedited == [owner |-> Default, edit |-> 0]

VARIABLES memory,     \* the configuration in the editor (playerJson)
          activeId,   \* state.activePlayerProfileId
          listed,     \* the identifiers in state.playerProfiles
          timer,      \* the 250 ms save timer is armed
          queue,      \* saves chained on state.playerSaveQueue; the head runs
          handler,    \* the handlers that wait
          used,       \* identifiers handed out so far
          edits,      \* user edits so far
          latest,     \* the last edit the user made to each profile
          lossy       \* something happened that may drop an edit

sessionVars == <<memory, activeId, listed, timer, queue, handler, used, edits, latest>>
pageVars == <<storeVars, sessionVars>>
vars == <<pageVars, lossy>>

Steps == {"idle", "confirm", "saving", "select", "read", "review", "create",
          "restore", "load", "directSave", "delete", "draining", "clear",
          "refresh", "resave"}
Idle == [op |-> "switch", at |-> "idle", target |-> Default,
         previous |-> Default, base |-> Sample, activate |-> TRUE]
HandlerState == [op : OpNames, at : Steps, target : Ids, previous : Ids,
                 base : Values, activate : BOOLEAN]

\* A save waiting in the chain, or (real = FALSE) a handler waiting for it.
QueueEntry == [id : Ids, content : Values, real : BOOLEAN,
               by : Handlers \cup {"timer", "calculate"}]

TypeOK ==
    /\ StoreTypeOK
    /\ memory \in Values
    /\ activeId \in Ids
    /\ listed \in SUBSET Ids
    /\ timer \in BOOLEAN
    /\ queue \in Seq(QueueEntry)
    /\ handler \in [Handlers -> HandlerState]
    /\ used \in SUBSET Ids
    /\ edits \in 0..MaxEdits
    /\ latest \in [Ids -> 0..MaxEdits]
    /\ lossy \in BOOLEAN

\* After bootstrap: any profiles, unedited since; the active one is loaded.
InitWith(ids) ==
    /\ store = [id \in ids |-> [owner |-> id, edit |-> 0]]
    /\ active \in ids
    /\ used = ids
    /\ memory = store[active]
    /\ activeId = active
    /\ listed = DOMAIN store
    /\ timer = FALSE
    /\ queue = <<>>
    /\ handler = [h \in Handlers |-> Idle]
    /\ edits = 0
    /\ latest = [id \in Ids |-> 0]
    /\ lossy = FALSE

Init == \E ids \in SUBSET Ids : Default \in ids /\ InitWith(ids)

-----------------------------------------------------------------------------
At(h, step) == handler[h].at = step
Doing(h, op) == handler[h].op = op
Move(h, step) == handler' = [handler EXCEPT ![h].at = step]
Finish(h) == handler' = [handler EXCEPT ![h] = Idle]
Start(h, op, target, step) ==
    /\ op \in Ops
    /\ At(h, "idle")
    /\ handler' = [handler EXCEPT ![h] =
         [Idle EXCEPT !.op = op, !.target = target, !.at = step,
                      !.previous = activeId]]

NoHandler == \A h \in Handlers : At(h, "idle")
MayInput == BusyInput \/ NoHandler

\* savePlayerNow: the content and the profile are taken now, the write runs
\* when the saves before it have settled.
SaveEntryFromStore(by) ==
    [id |-> activeId, content |-> store[active], real |-> TRUE, by |-> by]
SaveEntry(by) == [id |-> activeId, content |-> memory, real |-> TRUE, by |-> by]
SavePlayerNow(by) ==
    /\ Len(queue) < MaxQueue
    /\ timer' = FALSE
    /\ queue' = Append(queue, SaveEntry(by))

\* An edit in a form, or a background write to the editor (the event preset
\* that app/core.js loads): writePlayer with autosave.
Edit ==
    /\ MayInput
    /\ edits < MaxEdits
    /\ edits' = edits + 1
    /\ memory' = [memory EXCEPT !.edit = edits + 1]
    /\ latest' = [latest EXCEPT ![memory.owner] = edits + 1]
    /\ timer' = TRUE
    /\ UNCHANGED <<storeVars, activeId, listed, queue, handler, used>>

TimerDropsSave ==
    /\ timer
    /\ timer' = FALSE
    /\ UNCHANGED <<storeVars, memory, activeId, listed, queue, handler, used, edits, latest>>

TimerFires ==
    /\ timer
    /\ SavePlayerNow("timer")
    /\ UNCHANGED <<storeVars, memory, activeId, listed, handler, used, edits, latest>>

\* handleCalculate saves before it calculates.
CalculateSaves ==
    /\ MayInput
    /\ SavePlayerNow("calculate")
    /\ UNCHANGED <<storeVars, memory, activeId, listed, handler, used, edits, latest>>

AfterSave(op) == CASE op = "switch" -> "select"
                   [] op = "copy"   -> "read"
                   [] op = "clear"  -> "clear"
                   [] OTHER         -> "create"

\* The profile a save goes to was fixed when the save was requested.
SaveTargetLate(e) == activeId
SaveTarget(e) == e.id

\* The write at the head of the chain settles and wakes who awaits it.
SaveSettles ==
    /\ queue # <<>>
    /\ LET e == Head(queue) IN
         /\ IF e.real THEN StoreSave(SaveTarget(e), e.content)
                      ELSE UNCHANGED storeVars
         /\ IF e.by \in Handlers
              THEN Move(e.by, AfterSave(handler[e.by].op))
              ELSE UNCHANGED handler
    /\ queue' = Tail(queue)
    /\ UNCHANGED <<memory, activeId, listed, timer, used, edits, latest>>

SaveRejected ==
    /\ queue # <<>>
    /\ LET e == Head(queue) IN
         /\ e.real
         /\ "save" \in Failing \/ SaveTarget(e) \notin DOMAIN store
         /\ IF e.by \in Handlers THEN Finish(e.by) ELSE UNCHANGED handler
    /\ queue' = Tail(queue)
    /\ UNCHANGED <<storeVars, memory, activeId, listed, timer, used, edits, latest>>

-----------------------------------------------------------------------------
(* What the user starts. *)

StartSwitch(h, id) ==
    /\ id \in listed \ {activeId}
    /\ Start(h, "switch", id, "saving")
    /\ SavePlayerNow(h)
    /\ UNCHANGED <<storeVars, memory, activeId, listed, used, edits, latest>>

StartCreate(h, id) ==
    /\ \E op \in {"new", "copy"}, activate \in BOOLEAN :
         /\ op = "copy" => id \in listed
         /\ Ids \ used # {}
         /\ op \in Ops
         /\ At(h, "idle")
         /\ handler' = [handler EXCEPT ![h] =
              [Idle EXCEPT !.op = op, !.target = id, !.at = "saving",
                           !.previous = activeId, !.activate = activate]]
    /\ SavePlayerNow(h)
    /\ UNCHANGED <<storeVars, memory, activeId, listed, used, edits, latest>>

\* The import reads its target, asks for a review, and then commits.
StartImport(h, id) ==
    /\ id \in listed
    /\ Start(h, "import", id, "read")
    /\ UNCHANGED <<storeVars, memory, activeId, listed, timer, queue, used, edits, latest>>

StartArchiveSave(h, id) ==
    /\ id \in listed
    /\ edits < MaxEdits
    /\ Start(h, "archive", id, "read")
    /\ UNCHANGED <<storeVars, memory, activeId, listed, timer, queue, used, edits, latest>>

StartDelete(h, id) ==
    /\ id \in listed
    /\ listed \ {id} # {}
    /\ Start(h, "delete", id, "confirm")
    /\ UNCHANGED <<storeVars, memory, activeId, listed, timer, queue, used, edits, latest>>

StartClear(h) ==
    /\ Start(h, "clear", activeId, "confirm")
    /\ UNCHANGED <<storeVars, memory, activeId, listed, timer, queue, used, edits, latest>>

\* The confirmation dialog closes.  Deleting goes straight to the store;
\* clearing cancels the timer and waits for the saves in the chain.
Confirm(h) ==
    /\ At(h, "confirm")
    /\ IF Doing(h, "delete")
         THEN Move(h, "delete") /\ UNCHANGED <<timer, queue>>
         ELSE /\ Len(queue) < MaxQueue
              /\ timer' = FALSE
              /\ queue' = Append(queue, [SaveEntry(h) EXCEPT !.real = FALSE])
              /\ Move(h, "draining")
    /\ UNCHANGED <<storeVars, memory, activeId, listed, used, edits, latest>>

Cancel(h) ==
    /\ At(h, "confirm") \/ At(h, "review")
    /\ Finish(h)
    /\ UNCHANGED <<storeVars, memory, activeId, listed, timer, queue, used, edits, latest>>

-----------------------------------------------------------------------------
(* What a handler does when the call it awaits completes. *)

\* Any awaited call may reject; the handler reports the error and ends.
Fails(h) ==
    /\ handler[h].op \in Failing
    /\ handler[h].at \notin {"idle", "confirm", "review", "saving", "draining"}
    /\ Finish(h)
    /\ UNCHANGED <<storeVars, memory, activeId, listed, timer, queue, used, edits, latest>>

\* handlePlayerProfileChange: the selected configuration enters the editor.
SelectDone(h) ==
    /\ At(h, "select")
    /\ IF handler[h].target \in DOMAIN store
         THEN /\ StoreSelect(handler[h].target)
              /\ memory' = store[handler[h].target]
              /\ Move(h, "refresh")
         ELSE Finish(h) /\ UNCHANGED <<storeVars, memory>>
    /\ UNCHANGED <<activeId, listed, timer, queue, used, edits, latest>>

\* readTarget: the editor for the active profile, the store for another one.
ReadTarget(id) == IF id = activeId THEN memory ELSE store[id]

\* What follows the read is part of the same callback.
ReadDone(h) ==
    LET id == handler[h].target
        content == ReadTarget(id)
        next == CASE Doing(h, "copy") -> "create"
                  [] Doing(h, "import") -> "review"
                  [] OTHER -> "directSave"
    IN /\ At(h, "read")
       /\ \/ /\ id = activeId \/ id \in DOMAIN store
             /\ IF Doing(h, "archive")
                  THEN /\ edits < MaxEdits
                       /\ edits' = edits + 1
                       /\ handler' = [handler EXCEPT ![h].at = next,
                            ![h].base = [content EXCEPT !.edit = edits + 1]]
                  ELSE /\ handler' = [handler EXCEPT ![h].at = next,
                                                     ![h].base = content]
                       /\ UNCHANGED edits
          \/ /\ id # activeId /\ id \notin DOMAIN store
             /\ Finish(h)
             /\ UNCHANGED edits
       /\ UNCHANGED <<storeVars, memory, activeId, listed, timer, queue, used, latest>>

\* commitTarget: the active profile is written through the editor and its
\* timer, another one directly to the store.
Commit(h) ==
    LET id == handler[h].target
        imported == [handler[h].base EXCEPT !.edit = edits + 1]
    IN /\ At(h, "review")
       /\ edits < MaxEdits
       /\ IF id \notin listed
            THEN Finish(h) /\ UNCHANGED <<memory, timer, edits, latest>>
            ELSE /\ edits' = edits + 1
                 /\ IF id = activeId
                      THEN /\ memory' = imported
                           /\ timer' = TRUE
                           /\ latest' = [latest EXCEPT ![id] = edits + 1]
                           /\ Move(h, "refresh")
                      ELSE /\ handler' = [handler EXCEPT ![h].at = "directSave",
                                                         ![h].base = imported]
                           /\ UNCHANGED <<memory, timer, latest>>
       /\ UNCHANGED <<storeVars, activeId, listed, queue, used>>

\* A save that bypasses the chain (commitTarget, archive).  The archive's save
\* puts what it saved into the editor if the profile is still active.
DirectSaveDone(h) ==
    LET id == handler[h].target
        content == handler[h].base
    IN /\ At(h, "directSave")
       /\ IF id \in DOMAIN store
            THEN /\ StoreSave(id, content)
                 /\ latest' = [latest EXCEPT ![id] =
                                 IF @ > content.edit THEN @ ELSE content.edit]
                 /\ memory' = IF Doing(h, "archive") /\ id = activeId
                                THEN content ELSE memory
                 /\ Move(h, "refresh")
            ELSE Finish(h) /\ UNCHANGED <<storeVars, memory, latest>>
       /\ UNCHANGED <<activeId, listed, timer, queue, used, edits>>

\* createPlayerConfig, for a new profile or a copy of handler[h].base.
CreateDone(h) ==
    /\ At(h, "create")
    /\ \E id \in Ids \ used :
         LET edit == IF Doing(h, "copy") THEN handler[h].base.edit ELSE 0 IN
         /\ StoreCreate(id, [owner |-> id, edit |-> edit])
         /\ used' = used \cup {id}
         /\ latest' = [latest EXCEPT ![id] = edit]
    /\ Move(h, IF handler[h].activate THEN "load" ELSE "restore")
    /\ UNCHANGED <<memory, activeId, listed, timer, queue, edits>>

RestoreDone(h) ==
    /\ At(h, "restore")
    /\ IF handler[h].previous \in DOMAIN store
         THEN StoreSelect(handler[h].previous) /\ Move(h, "load")
         ELSE Finish(h) /\ UNCHANGED storeVars
    /\ UNCHANGED <<memory, activeId, listed, timer, queue, used, edits, latest>>

LoadDone(h) ==
    /\ At(h, "load")
    /\ memory' = store[active]
    /\ Move(h, "refresh")
    /\ UNCHANGED <<storeVars, activeId, listed, timer, queue, used, edits, latest>>

\* handleDeletePlayerProfile puts the configuration of the then active profile
\* into the editor, also when another profile was deleted.
EditorKept == memory
EditorAfterDelete == store'[active']

DeleteDone(h) ==
    LET id == handler[h].target IN
    /\ At(h, "delete")
    /\ IF id \in DOMAIN store /\ DOMAIN store \ {id} # {}
         THEN /\ StoreDelete(id)
              /\ memory' = EditorAfterDelete
              /\ Move(h, "refresh")
         ELSE Finish(h) /\ UNCHANGED <<storeVars, memory>>
    /\ UNCHANGED <<activeId, listed, timer, queue, used, edits, latest>>

ClearDone(h) ==
    /\ At(h, "clear")
    /\ StoreClear
    /\ latest' = [id \in Ids |-> 0]
    /\ Move(h, "load")
    /\ UNCHANGED <<memory, activeId, listed, timer, queue, used, edits>>

\* refreshPlayerProfiles: only here does the page learn which profile is
\* active.  (The store always has profiles and an active one, see
\* ProfileStore, so its two repairs do not apply.)
RefreshDone(h) ==
    /\ At(h, "refresh")
    /\ listed' = DOMAIN store
    /\ activeId' = active
    /\ IF Doing(h, "clear") THEN Move(h, "resave") ELSE Finish(h)
    /\ UNCHANGED <<storeVars, memory, timer, queue, used, edits, latest>>

\* Clearing saves the defaults it filled in.
ResaveDone(h) ==
    /\ At(h, "resave")
    /\ StoreSave(active, memory)
    /\ Finish(h)
    /\ UNCHANGED <<memory, activeId, listed, timer, queue, used, edits, latest>>

-----------------------------------------------------------------------------
HandlerStep(h) ==
    \/ Fails(h) \/ SelectDone(h) \/ ReadDone(h) \/ DirectSaveDone(h)
    \/ CreateDone(h) \/ RestoreDone(h) \/ LoadDone(h) \/ DeleteDone(h)
    \/ ClearDone(h) \/ RefreshDone(h) \/ ResaveDone(h)

UserStep(h) ==
    \/ StartClear(h) \/ Confirm(h) \/ Cancel(h) \/ Commit(h)
    \/ \E id \in Ids :
         \/ StartSwitch(h, id) \/ StartCreate(h, id) \/ StartImport(h, id)
         \/ StartArchiveSave(h, id) \/ StartDelete(h, id)

SaveStep == SaveSettles \/ SaveRejected

(* A call rejects, or a handler runs that does not wait for saves.         *)
MayLose ==
    \/ SaveRejected
    \/ \E h \in Handlers :
          Fails(h) \/ handler'[h].op \in {"archive", "delete", "clear"}

Next ==
    /\ \/ Edit \/ TimerFires \/ CalculateSaves \/ SaveStep
       \/ \E h \in Handlers : HandlerStep(h) \/ UserStep(h)
    /\ lossy' = (lossy \/ MayLose)

Spec == Init /\ [][Next]_vars

\* Timers fire, promises settle and callbacks run; users need not act.
FairSession ==
    /\ WF_pageVars(TimerFires) /\ WF_pageVars(SaveStep)
    /\ \A h \in Handlers : WF_pageVars(HandlerStep(h))

FairSpec == Spec /\ FairSession

-----------------------------------------------------------------------------
(* Properties *)

\* Profiles are isolated (docs/persistence.md): the store never holds under
\* one profile what the user entered for another.
Isolation == \A id \in DOMAIN store : store[id].owner = id

Quiet == ~timer /\ queue = <<>> /\ NoHandler

\* Whenever nothing is pending, the editor shows the active profile and the
\* page agrees with the store on which profiles exist and which is active.
EditorShowsActive ==
    Quiet => /\ memory.owner = activeId
             /\ activeId = active
             /\ listed = DOMAIN store

Stored == \A id \in DOMAIN store : store[id].edit = latest[id]

\* Whenever nothing is pending, the last edit made to each profile is stored,
\* unless a call was rejected or a handler ran that overtakes pending saves.
NoLostEdit == Quiet /\ ~lossy => Stored

\* Under the same condition the edits reach the store: a time comes when it
\* holds the last edit of every profile that is left.
EditsReachStore == ~Stored ~> (Stored \/ lossy)
=============================================================================
