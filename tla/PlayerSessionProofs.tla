-------------------------- MODULE PlayerSessionProofs --------------------------
(***************************************************************************)
(* Proofs about PlayerSession: the types for any handlers, and for a page  *)
(* with one handler at work that the profiles stay apart, that the editor  *)
(* ends on the active profile and that no edit is lost.                    *)
(***************************************************************************)
EXTENDS PlayerSession, TLAPS

-----------------------------------------------------------------------------
(* Sequences *)

LEMMA Pushed ==
    ASSUME NEW S, NEW q \in Seq(S), NEW e \in S, NEW r, r = Append(q, e)
    PROVE  /\ r \in Seq(S) /\ Len(r) = Len(q) + 1 /\ Len(q) \in Nat
           /\ r[Len(q) + 1] = e
           /\ \A i \in 1..Len(q) : r[i] = q[i]
           /\ r # <<>>
OBVIOUS

LEMMA Popped ==
    ASSUME NEW S, NEW q \in Seq(S), q # <<>>, NEW r, r = Tail(q)
    PROVE  /\ r \in Seq(S) /\ Len(q) \in Nat /\ Len(q) >= 1 /\ Len(r) = Len(q) - 1
           /\ Head(q) = q[1] /\ Head(q) \in S
           /\ \A i \in 1..Len(r) : r[i] = q[i + 1] /\ i + 1 \in 1..Len(q)
           /\ r = <<>> => Len(q) = 1
           /\ Len(q) = 1 => r = <<>>
<1>1. Len(q) \in Nat /\ Len(q) >= 1
  OBVIOUS
<1>2. r \in Seq(S) /\ Len(r) = Len(q) - 1
  BY <1>1
<1>3. Head(q) = q[1] /\ Head(q) \in S
  BY <1>1
<1>4. ASSUME NEW i \in 1..Len(r)
      PROVE  r[i] = q[i + 1] /\ i + 1 \in 1..Len(q)
  <2>1. i + 1 \in 1..Len(q)
    BY <1>1, <1>2
  <2> QED BY <1>1, <1>2, <2>1
<1>5. r = <<>> => Len(q) = 1
  <2>1. r = <<>> => Len(r) = 0
    OBVIOUS
  <2> QED BY <1>1, <1>2, <2>1
<1>6. Len(q) = 1 => r = <<>>
  BY <1>1, <1>2
<1> QED BY <1>1, <1>2, <1>3, <1>4, <1>5, <1>6

-----------------------------------------------------------------------------
(* Types *)

LEMMA IdleTyped == Idle \in HandlerState /\ Idle.at = "idle" /\ Idle.op = "switch"
BY StoreAssumption DEF Idle, HandlerState, OpNames, Steps

LEMMA RecordTyped ==
    ASSUME TypeOK, NEW h \in Handlers
    PROVE  /\ handler[h] \in HandlerState /\ handler[h].target \in Ids
           /\ handler[h].previous \in Ids /\ handler[h].base \in Values
           /\ handler[h].op \in OpNames /\ handler[h].at \in Steps
           /\ handler[h].activate \in BOOLEAN
BY DEF TypeOK, HandlerState

LEMMA HandlerSet ==
    ASSUME TypeOK, NEW h \in Handlers, NEW r \in HandlerState,
           handler' = [handler EXCEPT ![h] = r]
    PROVE  handler' \in [Handlers -> HandlerState]
BY DEF TypeOK

LEMMA Moved ==
    ASSUME TypeOK, NEW h \in Handlers, NEW step \in Steps, Move(h, step)
    PROVE  handler' \in [Handlers -> HandlerState]
<1> DEFINE r == [handler[h] EXCEPT !.at = step]
<1>1. handler' = [handler EXCEPT ![h] = r]
  BY DEF Move, TypeOK
<1>2. r \in HandlerState
  BY RecordTyped DEF HandlerState
<1> HIDE DEF r
<1> QED BY <1>1, <1>2, HandlerSet

LEMMA Finished ==
    ASSUME TypeOK, NEW h \in Handlers, Finish(h)
    PROVE  handler' \in [Handlers -> HandlerState]
BY IdleTyped, HandlerSet DEF Finish

LEMMA Started ==
    ASSUME TypeOK, NEW h \in Handlers, NEW op, NEW target \in Ids, NEW step \in Steps,
           Start(h, op, target, step)
    PROVE  /\ handler' \in [Handlers -> HandlerState]
           /\ handler[h].at = "idle" /\ op \in Ops
           /\ handler'[h].op = op /\ handler'[h].at = step /\ handler'[h].target = target
           /\ handler'[h].previous = activeId
<1> DEFINE r == [Idle EXCEPT !.op = op, !.target = target, !.at = step, !.previous = activeId]
<1>1. handler' = [handler EXCEPT ![h] = r] /\ op \in Ops /\ handler[h].at = "idle"
  BY DEF Start, At
<1>2. /\ r \in HandlerState
      /\ r.op = op /\ r.at = step /\ r.target = target /\ r.previous = activeId
  BY <1>1, StoreAssumption, SessionAssumption DEF HandlerState, Idle, TypeOK
<1> HIDE DEF r
<1> QED BY <1>1, <1>2, HandlerSet DEF TypeOK

LEMMA Saved ==
    ASSUME TypeOK, NEW by \in Handlers \cup {"timer", "calculate"}, SavePlayerNow(by)
    PROVE  /\ queue' \in Seq(QueueEntry) /\ timer' = FALSE
           /\ SaveEntry(by) \in QueueEntry
           /\ SaveEntry(by).id = activeId /\ SaveEntry(by).content = memory
           /\ SaveEntry(by).real = TRUE /\ SaveEntry(by).by = by
           /\ queue' = Append(queue, SaveEntry(by))
<1>1. /\ SaveEntry(by) \in QueueEntry
      /\ SaveEntry(by).id = activeId /\ SaveEntry(by).content = memory
      /\ SaveEntry(by).real = TRUE /\ SaveEntry(by).by = by
  BY DEF SaveEntry, QueueEntry, TypeOK
<1>2. queue \in Seq(QueueEntry)
  BY DEF TypeOK
<1>3. queue' = Append(queue, SaveEntry(by)) /\ timer' = FALSE
  BY DEF SavePlayerNow
<1> QED BY <1>1, <1>2, <1>3, Pushed

\* The operations of the store keep its type and tell which profiles there are.
LEMMA StoreSaved ==
    ASSUME StoreTypeOK, NEW id, NEW v \in Values, StoreSave(id, v)
    PROVE  /\ StoreTypeOK' /\ id \in DOMAIN store /\ DOMAIN store' = DOMAIN store
           /\ active' = active /\ store'[id] = v
           /\ \A p \in DOMAIN store \ {id} : store'[p] = store[p]
BY DEF StoreTypeOK, StoreSave

LEMMA StoreSelected ==
    ASSUME StoreTypeOK, NEW id, StoreSelect(id)
    PROVE  StoreTypeOK' /\ id \in DOMAIN store /\ store' = store /\ active' = id
BY DEF StoreTypeOK, StoreSelect

LEMMA StoreCreated ==
    ASSUME StoreTypeOK, NEW id, NEW v \in Values, StoreCreate(id, v)
    PROVE  /\ StoreTypeOK' /\ id \in Ids \ DOMAIN store
           /\ DOMAIN store' = DOMAIN store \cup {id} /\ active' = id /\ store'[id] = v
           /\ \A p \in DOMAIN store : store'[p] = store[p]
BY DEF StoreTypeOK, StoreCreate

LEMMA StoreDeleted ==
    ASSUME StoreTypeOK, active \in DOMAIN store, NEW id, StoreDelete(id)
    PROVE  /\ StoreTypeOK' /\ id \in DOMAIN store /\ DOMAIN store' = DOMAIN store \ {id}
           /\ active' \in DOMAIN store' /\ (active # id => active' = active)
           /\ \A p \in DOMAIN store' : store'[p] = store[p]
BY DEF StoreTypeOK, StoreDelete

LEMMA StoreCleared ==
    ASSUME StoreClear
    PROVE  /\ StoreTypeOK' /\ DOMAIN store' = {Default} /\ active' = Default
           /\ store'[Default] = Sample
BY StoreAssumption DEF StoreTypeOK, StoreClear

Typed == TypeOK /\ ActiveExists

\* The variables of the page and the store, without the record of losses.
PageTyped ==
    /\ StoreTypeOK /\ ActiveExists
    /\ memory \in Values /\ activeId \in Ids /\ listed \in SUBSET Ids
    /\ timer \in BOOLEAN /\ queue \in Seq(QueueEntry)
    /\ handler \in [Handlers -> HandlerState]
    /\ used \in SUBSET Ids /\ edits \in 0..MaxEdits /\ latest \in [Ids -> 0..MaxEdits]

LEMMA ValueTyped ==
    ASSUME NEW v \in Values
    PROVE  /\ v.owner \in Ids /\ v.edit \in 0..MaxEdits
           /\ \A n \in 0..MaxEdits : [v EXCEPT !.edit = n] \in Values
           /\ \A n \in 0..MaxEdits : [v EXCEPT !.edit = n].owner = v.owner
           /\ \A n \in 0..MaxEdits : [v EXCEPT !.edit = n].edit = n
BY SessionAssumption

LEMMA NextEdit ==
    ASSUME edits \in 0..MaxEdits, edits < MaxEdits
    PROVE  edits + 1 \in 0..MaxEdits
BY SessionAssumption

\* What the timer, the calculation, the edits and the saves do.
LEMMA PageStepTyped ==
    ASSUME Typed, Edit \/ TimerFires \/ CalculateSaves \/ SaveStep
    PROVE  PageTyped'
<1> USE DEF Typed, TypeOK, PageTyped, ActiveExists
<1>1. CASE Edit
  <2>1. edits + 1 \in 0..MaxEdits
    BY <1>1, NextEdit DEF Edit
  <2>2. memory' \in Values
    BY <1>1, <2>1, ValueTyped DEF Edit
  <2>3. memory.owner \in Ids
    BY ValueTyped
  <2>4. latest' \in [Ids -> 0..MaxEdits]
    BY <1>1, <2>1, <2>3 DEF Edit
  <2> QED BY <1>1, <2>1, <2>2, <2>4 DEF Edit, storeVars, StoreTypeOK
<1>2. CASE TimerFires
  BY <1>2, Saved DEF TimerFires, storeVars, StoreTypeOK
<1>3. CASE CalculateSaves
  BY <1>3, Saved DEF CalculateSaves, storeVars, StoreTypeOK
<1>4. CASE SaveSettles
  <2>1. /\ queue # <<>> /\ queue' = Tail(queue)
        /\ UNCHANGED <<memory, activeId, listed, timer, used, edits, latest>>
    BY <1>4 DEF SaveSettles
  <2>2. Head(queue) \in QueueEntry /\ queue' \in Seq(QueueEntry)
    BY <2>1, Popped
  <2>3. StoreTypeOK' /\ ActiveExists'
    <3>1. CASE Head(queue).real
      <4>1. StoreSave(Head(queue).id, Head(queue).content) /\ Head(queue).content \in Values
        BY <1>4, <2>2, <3>1 DEF SaveSettles, SaveTarget, QueueEntry
      <4> QED BY <4>1, StoreSaved
    <3>2. CASE ~Head(queue).real
      BY <1>4, <3>2 DEF SaveSettles, storeVars, StoreTypeOK
    <3> QED BY <3>1, <3>2
  <2>4. handler' \in [Handlers -> HandlerState]
    <3>1. CASE Head(queue).by \in Handlers
      <4>1. Move(Head(queue).by, AfterSave(handler[Head(queue).by].op))
        BY <1>4, <3>1 DEF SaveSettles
      <4>2. AfterSave(handler[Head(queue).by].op) \in Steps
        BY DEF AfterSave, Steps
      <4> QED BY <3>1, <4>1, <4>2, Moved
    <3>2. CASE Head(queue).by \notin Handlers
      BY <1>4, <3>2 DEF SaveSettles
    <3> QED BY <3>1, <3>2
  <2> QED BY <2>1, <2>2, <2>3, <2>4
<1>5. CASE SaveRejected
  <2>1. /\ queue # <<>> /\ queue' = Tail(queue)
        /\ UNCHANGED <<storeVars, memory, activeId, listed, timer, used, edits, latest>>
        /\ IF Head(queue).by \in Handlers THEN Finish(Head(queue).by) ELSE UNCHANGED handler
    BY <1>5 DEF SaveRejected
  <2>2. queue' \in Seq(QueueEntry)
    BY <2>1, Popped
  <2>3. handler' \in [Handlers -> HandlerState]
    BY <2>1, Finished
  <2> QED BY <2>1, <2>2, <2>3 DEF storeVars, StoreTypeOK
<1> QED BY <1>1, <1>2, <1>3, <1>4, <1>5 DEF SaveStep

LEMMA UserStepTyped ==
    ASSUME Typed, NEW h \in Handlers, UserStep(h)
    PROVE  PageTyped'
<1> USE DEF Typed, TypeOK, PageTyped, ActiveExists
<1>1. CASE StartClear(h)
  BY <1>1, Started DEF StartClear, storeVars, StoreTypeOK, Steps
<1>2. CASE Confirm(h)
  <2>1. UNCHANGED <<storeVars, memory, activeId, listed, used, edits, latest>>
    BY <1>2 DEF Confirm
  <2>2. CASE Doing(h, "delete")
    <3>1. Move(h, "delete") /\ UNCHANGED <<timer, queue>>
      BY <1>2, <2>2 DEF Confirm
    <3> QED BY <2>1, <3>1, Moved DEF storeVars, StoreTypeOK, Steps
  <2>3. CASE ~Doing(h, "delete")
    <3>1. /\ timer' = FALSE /\ Move(h, "draining")
          /\ queue' = Append(queue, [SaveEntry(h) EXCEPT !.real = FALSE])
      BY <1>2, <2>3 DEF Confirm
    <3>2. [SaveEntry(h) EXCEPT !.real = FALSE] \in QueueEntry
      BY DEF SaveEntry, QueueEntry
    <3>3. queue' \in Seq(QueueEntry)
      BY <3>1, <3>2, Pushed
    <3> QED BY <2>1, <3>1, <3>3, Moved DEF storeVars, StoreTypeOK, Steps
  <2> QED BY <2>2, <2>3
<1>3. CASE Cancel(h)
  BY <1>3, Finished DEF Cancel, storeVars, StoreTypeOK
<1>4. CASE Commit(h)
  <2> DEFINE id == handler[h].target
             imported == [handler[h].base EXCEPT !.edit = edits + 1]
  <2>1. edits + 1 \in 0..MaxEdits /\ UNCHANGED <<storeVars, activeId, listed, queue, used>>
    BY <1>4, NextEdit DEF Commit
  <2>2. imported \in Values /\ id \in Ids
    BY <2>1, RecordTyped, ValueTyped
  <2>3. CASE id \notin listed
    <3>1. Finish(h) /\ UNCHANGED <<memory, timer, edits, latest>>
      BY <1>4, <2>3 DEF Commit
    <3> QED BY <2>1, <3>1, Finished DEF storeVars, StoreTypeOK
  <2>4. CASE id \in listed /\ id = activeId
    <3>1. /\ edits' = edits + 1 /\ memory' = imported /\ timer' = TRUE /\ Move(h, "refresh")
          /\ latest' = [latest EXCEPT ![id] = edits + 1]
      BY <1>4, <2>4 DEF Commit
    <3> HIDE DEF id, imported
    <3>2. latest' \in [Ids -> 0..MaxEdits]
      BY <2>1, <2>2, <3>1
    <3> QED BY <2>1, <2>2, <3>1, <3>2, Moved DEF storeVars, StoreTypeOK, Steps
  <2>5. CASE id \in listed /\ id # activeId
    <3>1. /\ edits' = edits + 1 /\ UNCHANGED <<memory, timer, latest>>
          /\ handler' = [handler EXCEPT ![h].at = "directSave", ![h].base = imported]
      BY <1>4, <2>5 DEF Commit
    <3> HIDE DEF id, imported
    <3>2. /\ [handler[h] EXCEPT !.at = "directSave", !.base = imported] \in HandlerState
          /\ handler' = [handler EXCEPT ![h] =
                           [handler[h] EXCEPT !.at = "directSave", !.base = imported]]
      BY <2>2, <3>1, RecordTyped DEF HandlerState, Steps
    <3>3. handler' \in [Handlers -> HandlerState]
      BY <3>2, HandlerSet
    <3> QED BY <2>1, <3>1, <3>3 DEF storeVars, StoreTypeOK
  <2> QED BY <2>3, <2>4, <2>5
<1>5. ASSUME NEW id \in Ids, StartSwitch(h, id) PROVE PageTyped'
  BY <1>5, Started, Saved DEF StartSwitch, storeVars, StoreTypeOK, Steps
<1>6. ASSUME NEW id \in Ids, StartCreate(h, id) PROVE PageTyped'
  <2>1. PICK op \in {"new", "copy"}, activate \in BOOLEAN :
          handler' = [handler EXCEPT ![h] =
              [Idle EXCEPT !.op = op, !.target = id, !.at = "saving",
                           !.previous = activeId, !.activate = activate]]
    BY <1>6 DEF StartCreate
  <2>2. [Idle EXCEPT !.op = op, !.target = id, !.at = "saving",
                     !.previous = activeId, !.activate = activate] \in HandlerState
    BY StoreAssumption DEF Idle, HandlerState, OpNames, Steps
  <2>3. handler' \in [Handlers -> HandlerState]
    BY <2>1, <2>2, HandlerSet
  <2> QED BY <1>6, <2>3, Saved DEF StartCreate, storeVars, StoreTypeOK
<1>7. ASSUME NEW id \in Ids, StartImport(h, id) PROVE PageTyped'
  BY <1>7, Started DEF StartImport, storeVars, StoreTypeOK, Steps
<1>8. ASSUME NEW id \in Ids, StartArchiveSave(h, id) PROVE PageTyped'
  BY <1>8, Started DEF StartArchiveSave, storeVars, StoreTypeOK, Steps
<1>9. ASSUME NEW id \in Ids, StartDelete(h, id) PROVE PageTyped'
  BY <1>9, Started DEF StartDelete, storeVars, StoreTypeOK, Steps
<1> QED BY <1>1, <1>2, <1>3, <1>4, <1>5, <1>6, <1>7, <1>8, <1>9 DEF UserStep

\* The read of a handler keeps the edits in range.
LEMMA ReadTyped ==
    ASSUME Typed, NEW h \in Handlers, ReadDone(h)
    PROVE  PageTyped'
<1> DEFINE id == handler[h].target
           content == ReadTarget(id)
           next == CASE Doing(h, "copy") -> "create"
                     [] Doing(h, "import") -> "review"
                     [] OTHER -> "directSave"
<1> USE DEF Typed, TypeOK, PageTyped, ActiveExists
<1>1. /\ UNCHANGED <<storeVars, memory, activeId, listed, timer, queue, used, latest>>
      /\ next \in Steps
  BY DEF ReadDone, Steps
<1>2. CASE Finish(h) /\ UNCHANGED edits
  BY <1>1, <1>2, Finished DEF storeVars, StoreTypeOK
<1>3. ASSUME id = activeId \/ id \in DOMAIN store
      PROVE  content \in Values
  BY <1>3 DEF ReadTarget, StoreTypeOK
<1>4. CASE /\ id = activeId \/ id \in DOMAIN store
           /\ ~Doing(h, "archive") /\ UNCHANGED edits
           /\ handler' = [handler EXCEPT ![h].at = next, ![h].base = content]
  <2>1. content \in Values
    BY <1>3, <1>4
  <2> HIDE DEF content, next, id
  <2>2. /\ [handler[h] EXCEPT !.at = next, !.base = content] \in HandlerState
        /\ handler' = [handler EXCEPT ![h] = [handler[h] EXCEPT !.at = next, !.base = content]]
    BY <1>1, <1>4, <2>1, RecordTyped DEF HandlerState
  <2>3. handler' \in [Handlers -> HandlerState]
    BY <2>2, HandlerSet
  <2> QED BY <1>1, <1>4, <2>3 DEF storeVars, StoreTypeOK
<1>5. CASE /\ id = activeId \/ id \in DOMAIN store
           /\ Doing(h, "archive") /\ edits < MaxEdits /\ edits' = edits + 1
           /\ handler' = [handler EXCEPT ![h].at = next,
                            ![h].base = [content EXCEPT !.edit = edits + 1]]
  <2>1. edits + 1 \in 0..MaxEdits
    BY <1>5, NextEdit
  <2>2. [content EXCEPT !.edit = edits + 1] \in Values
    BY <1>3, <1>5, <2>1, ValueTyped
  <2> DEFINE base == [content EXCEPT !.edit = edits + 1]
  <2> HIDE DEF content, next, id, base
  <2>3. /\ [handler[h] EXCEPT !.at = next, !.base = base] \in HandlerState
        /\ handler' = [handler EXCEPT ![h] = [handler[h] EXCEPT !.at = next, !.base = base]]
    BY <1>1, <1>5, <2>2, RecordTyped DEF HandlerState, base
  <2>4. handler' \in [Handlers -> HandlerState]
    BY <2>3, HandlerSet
  <2> QED BY <1>1, <1>5, <2>1, <2>4 DEF storeVars, StoreTypeOK
<1> QED BY <1>2, <1>4, <1>5 DEF ReadDone

LEMMA HandlerStepTyped ==
    ASSUME Typed, NEW h \in Handlers, HandlerStep(h)
    PROVE  PageTyped'
<1> USE DEF Typed, TypeOK, PageTyped, ActiveExists, storeVars
<1>1. CASE Fails(h)
  BY <1>1, Finished DEF Fails, StoreTypeOK
<1>2. CASE SelectDone(h)
  <2>1. UNCHANGED <<activeId, listed, timer, queue, used, edits, latest>>
    BY <1>2 DEF SelectDone
  <2>2. CASE handler[h].target \in DOMAIN store
    <3>1. /\ StoreSelect(handler[h].target) /\ memory' = store[handler[h].target]
          /\ Move(h, "refresh")
      BY <1>2, <2>2 DEF SelectDone
    <3>2. memory' \in Values
      BY <2>2, <3>1 DEF StoreTypeOK
    <3> QED BY <2>1, <2>2, <3>1, <3>2, StoreSelected, Moved DEF Steps
  <2>3. CASE handler[h].target \notin DOMAIN store
    BY <1>2, <2>1, <2>3, Finished DEF SelectDone, StoreTypeOK
  <2> QED BY <2>2, <2>3
<1>3. CASE ReadDone(h)
  BY <1>3, ReadTyped
<1>4. CASE DirectSaveDone(h)
  <2> DEFINE id == handler[h].target
             content == handler[h].base
  <2>1. UNCHANGED <<activeId, listed, timer, queue, used, edits>>
    BY <1>4 DEF DirectSaveDone
  <2>2. content \in Values /\ content.edit \in 0..MaxEdits /\ id \in Ids
    BY RecordTyped, ValueTyped
  <2>3. CASE id \in DOMAIN store
    <3>1. /\ StoreSave(id, content)
          /\ latest' = [latest EXCEPT ![id] = IF @ > content.edit THEN @ ELSE content.edit]
          /\ memory' \in {content, memory} /\ Move(h, "refresh")
      BY <1>4, <2>3 DEF DirectSaveDone
    <3> HIDE DEF id, content
    <3>2. latest' \in [Ids -> 0..MaxEdits]
      BY <2>2, <3>1
    <3>3. StoreTypeOK' /\ ActiveExists'
      BY <2>2, <3>1, StoreSaved
    <3> QED BY <2>1, <2>2, <3>1, <3>2, <3>3, Moved DEF Steps
  <2>4. CASE id \notin DOMAIN store
    BY <1>4, <2>1, <2>4, Finished DEF DirectSaveDone, StoreTypeOK
  <2> QED BY <2>3, <2>4
<1>5. CASE CreateDone(h)
  <2>1. /\ UNCHANGED <<memory, activeId, listed, timer, queue, edits>>
        /\ Move(h, IF handler[h].activate THEN "load" ELSE "restore")
    BY <1>5 DEF CreateDone
  <2> DEFINE edit == IF Doing(h, "copy") THEN handler[h].base.edit ELSE 0
  <2>2. PICK id \in Ids \ used :
          /\ StoreCreate(id, [owner |-> id, edit |-> edit])
          /\ used' = used \cup {id} /\ latest' = [latest EXCEPT ![id] = edit]
    BY <1>5 DEF CreateDone
  <2>5. edit \in 0..MaxEdits
    BY RecordTyped, ValueTyped, SessionAssumption
  <2> HIDE DEF edit
  <2>3. StoreTypeOK' /\ ActiveExists'
    BY <2>2, <2>5, StoreCreated, SessionAssumption
  <2>4. handler' \in [Handlers -> HandlerState]
    BY <2>1, Moved DEF Steps
  <2>6. latest' \in [Ids -> 0..MaxEdits]
    BY <2>2, <2>5
  <2> QED BY <2>1, <2>2, <2>3, <2>4, <2>6
<1>6. CASE RestoreDone(h)
  BY <1>6, StoreSelected, Moved, Finished DEF RestoreDone, Steps, StoreTypeOK
<1>7. CASE LoadDone(h)
  BY <1>7, Moved DEF LoadDone, Steps, StoreTypeOK
<1>8. CASE DeleteDone(h)
  <2>1. UNCHANGED <<activeId, listed, timer, queue, used, edits, latest>>
    BY <1>8 DEF DeleteDone
  <2>2. CASE /\ StoreDelete(handler[h].target) /\ memory' = EditorAfterDelete
             /\ Move(h, "refresh")
    <3>1. StoreTypeOK' /\ active' \in DOMAIN store'
      BY <2>2, StoreDeleted
    <3>2. memory' \in Values
      BY <2>2, <3>1 DEF EditorAfterDelete, StoreTypeOK
    <3> QED BY <2>1, <2>2, <3>1, <3>2, Moved DEF Steps
  <2>3. CASE Finish(h) /\ UNCHANGED <<storeVars, memory>>
    BY <2>1, <2>3, Finished DEF StoreTypeOK
  <2> QED BY <1>8, <2>2, <2>3 DEF DeleteDone
<1>9. CASE ClearDone(h)
  <2>1. latest' \in [Ids -> 0..MaxEdits]
    BY <1>9, SessionAssumption DEF ClearDone
  <2> QED BY <1>9, <2>1, StoreCleared, Moved DEF ClearDone, Steps
<1>10. CASE RefreshDone(h)
  BY <1>10, Moved, Finished DEF RefreshDone, Steps, StoreTypeOK
<1>11. CASE ResaveDone(h)
  BY <1>11, StoreSaved, Finished DEF ResaveDone
<1> QED BY <1>1, <1>2, <1>3, <1>4, <1>5, <1>6, <1>7, <1>8, <1>9, <1>10, <1>11 DEF HandlerStep

\* Types hold, and the store always has an active profile, for any number of
\* handlers that wait at the same time and whatever calls reject.
THEOREM TypeCorrect == Spec => []Typed
<1>1. Init => Typed
  <2> SUFFICES ASSUME Init PROVE Typed
    OBVIOUS
  <2>1. PICK ids \in SUBSET Ids :
          /\ Default \in ids
          /\ store = [id \in ids |-> [owner |-> id, edit |-> 0]]
          /\ active \in ids /\ used = ids
    BY DEF Init, InitWith
  <2>2. \A id \in Ids : [owner |-> id, edit |-> 0] \in Values
    BY SessionAssumption
  <2>3. StoreTypeOK /\ ActiveExists /\ memory \in Values
    BY <2>1, <2>2 DEF Init, InitWith, StoreTypeOK, ActiveExists
  <2>4. /\ handler \in [Handlers -> HandlerState] /\ latest \in [Ids -> 0..MaxEdits]
        /\ edits \in 0..MaxEdits
    BY IdleTyped, SessionAssumption DEF Init, InitWith
  <2>5. used \in SUBSET Ids /\ listed \in SUBSET Ids /\ activeId \in Ids
    BY <2>1, <2>3 DEF Init, InitWith, StoreTypeOK
  <2>6. timer \in BOOLEAN /\ lossy \in BOOLEAN
    BY ZenonT(20) DEF Init, InitWith
  <2>7. queue \in Seq(QueueEntry)
    BY DEF Init, InitWith
  <2> QED BY <2>3, <2>4, <2>5, <2>6, <2>7 DEF Typed, TypeOK
<1>2. Typed /\ [Next]_vars => Typed'
  <2> SUFFICES ASSUME Typed, [Next]_vars PROVE Typed'
    OBVIOUS
  <2>1. CASE Next
    <3>1. PageTyped'
      BY <2>1, PageStepTyped, UserStepTyped, HandlerStepTyped DEF Next
    <3>2. lossy' \in BOOLEAN
      BY <2>1 DEF Next
    <3> QED BY <3>1, <3>2 DEF PageTyped, Typed, TypeOK
  <2>2. CASE UNCHANGED vars
    BY <2>2 DEF vars, pageVars, storeVars, sessionVars, Typed, TypeOK, ActiveExists, StoreTypeOK
  <2> QED BY <2>1, <2>2
<1> QED BY <1>1, <1>2, PTL DEF Spec
-----------------------------------------------------------------------------
(* One handler at a time.                                                  *)

\* The user waits for a handler before doing anything else, and the runtime
\* rejects only calls whose failure leaves the page as it was.
OneHandler ==
    /\ \E h : Handlers = {h}
    /\ BusyInput = FALSE
    /\ Failing \subseteq {"save", "import", "archive"}

only == CHOOSE h \in Handlers : TRUE
m == handler[only]

Agrees == memory.owner = activeId /\ activeId = active /\ listed = DOMAIN store

\* The steps at which the editor and the page belong to the active profile.
Steady ==
    \/ m.at \in {"idle", "confirm", "saving", "select", "read", "review", "create",
                 "directSave", "draining", "delete", "clear", "resave"}
    \/ m.at = "refresh" /\ m.op \in {"import", "archive"}

\* The steps behind a save the handler has waited for: nothing is pending.
Settled ==
    \/ m.at \in {"select", "create", "restore", "load", "clear", "resave"}
    \/ m.at = "refresh" /\ m.op \in {"switch", "new", "copy", "clear"}
    \/ m.at = "read" /\ m.op = "copy"

Waiting == m.at \in {"saving", "draining"}

\* Which operation may be at which step.
OpsInPlace ==
    /\ m.at = "idle" => m.op = "switch"
    /\ m.at = "saving" => m.op \in {"switch", "new", "copy"}
    /\ m.at = "select" => m.op = "switch"
    /\ m.at = "read" => m.op \in {"copy", "import", "archive"}
    /\ m.at = "review" => m.op = "import"
    /\ m.at = "directSave" => m.op \in {"import", "archive"}
    /\ m.at \in {"create", "restore"} => m.op \in {"new", "copy"}
    /\ m.at = "load" => m.op \in {"new", "copy", "clear"}
    /\ m.at = "confirm" => m.op \in {"delete", "clear"}
    /\ m.at = "delete" => m.op = "delete"
    /\ m.at \in {"draining", "clear", "resave"} => m.op = "clear"

\* The one handler waits for at most one save, the last in the chain; a save
\* carries what the user entered for its profile, unless the profile is gone.
SavesInOrder ==
    /\ Settled => queue = <<>> /\ timer = FALSE
    /\ Waiting => timer = FALSE
    /\ \A i \in 1..Len(queue) :
         /\ queue[i].by = only => i = Len(queue) /\ Waiting
         /\ queue[i].content.owner = queue[i].id \/ queue[i].id \notin DOMAIN store

\* The editor shows the active profile, but between the call that changes it
\* and the refresh of the page.
EditorInStep ==
    /\ Steady => Agrees
    /\ m.at = "refresh" =>
         /\ memory.owner = active
         /\ m.op = "delete" => activeId = active \/ activeId \notin DOMAIN store

\* What the handler has read or remembered.
Remembers ==
    /\ m.at \in {"review", "directSave"} => m.base.owner = m.target
    /\ m.at \in {"saving", "read", "create"} /\ m.op \in {"new", "copy"}
         => m.previous = activeId
    /\ m.at = "restore" => m.previous \in DOMAIN store

SInv == Isolation /\ OpsInPlace /\ SavesInOrder /\ EditorInStep /\ Remembers

\* As long as nothing was lost: the last edit to a profile is in the store, or
\* in the last save of the chain, or the timer that will save it is armed.
LastPending ==
    IF queue = <<>> THEN store[activeId].edit ELSE queue[Len(queue)].content.edit
ChainToActive == \A i \in 1..Len(queue) : queue[i].id = activeId /\ queue[i].real = TRUE
OthersStored ==
    \A id \in DOMAIN store : (id = activeId /\ Steady) \/ store[id].edit = latest[id]
EditorLatest ==
    /\ Steady => /\ memory.edit = latest[activeId]
                 /\ timer = FALSE => LastPending = latest[activeId]
    /\ m.at = "refresh" => memory.edit = latest[active]
CarriedLatest ==
    /\ m.at = "directSave" => m.base.edit = edits /\ m.target # activeId
    /\ m.at = "create" /\ m.op = "copy" => m.base.edit <= edits
EditsCounted == \A id \in Ids : latest[id] <= edits

Kept ==
    /\ m.op \in {"switch", "new", "copy", "import"}
    /\ ChainToActive /\ OthersStored /\ EditorLatest /\ CarriedLatest /\ EditsCounted

LInv == lossy = FALSE => Kept

LEMMA OnlyOne == OneHandler => Handlers = {only} /\ only \in Handlers
BY DEF OneHandler, only

LEMMA MMoved ==
    ASSUME TypeOK, only \in Handlers, NEW step, Move(only, step)
    PROVE  /\ m'.at = step /\ m'.op = m.op /\ m'.target = m.target
           /\ m'.previous = m.previous /\ m'.base = m.base
<1>1. m' = [m EXCEPT !.at = step]
  BY DEF Move, TypeOK, m
<1>2. m \in HandlerState
  BY RecordTyped DEF m
<1> QED BY <1>1, <1>2 DEF HandlerState

LEMMA MFinished ==
    ASSUME TypeOK, only \in Handlers, Finish(only)
    PROVE  m'.at = "idle" /\ m'.op = "switch"
BY IdleTyped DEF Finish, TypeOK, m

LEMMA MStarted ==
    ASSUME TypeOK, only \in Handlers, NEW op, NEW target \in Ids, NEW step \in Steps,
           Start(only, op, target, step)
    PROVE  /\ m.at = "idle" /\ op \in Ops
           /\ m'.op = op /\ m'.at = step /\ m'.target = target /\ m'.previous = activeId
BY Started DEF m

LEMMA MTyped ==
    ASSUME TypeOK, only \in Handlers
    PROVE  /\ m.at \in Steps /\ m.op \in OpNames /\ m.target \in Ids /\ m.previous \in Ids
           /\ m.base \in Values
BY RecordTyped DEF m

\* The chain after a step that leaves it alone.
LEMMA ChainKept ==
    ASSUME SavesInOrder, queue' = queue, queue = <<>> \/ DOMAIN store' \subseteq DOMAIN store,
           Settled' => queue = <<>> /\ timer' = FALSE,
           Waiting' => timer' = FALSE,
           Waiting => Waiting'
    PROVE  SavesInOrder'
<1>1. queue = <<>> => 1..Len(queue) = {}
  OBVIOUS
<1>2. ASSUME NEW i \in 1..Len(queue)
      PROVE  /\ queue[i].by = only => i = Len(queue) /\ Waiting'
             /\ queue[i].content.owner = queue[i].id \/ queue[i].id \notin DOMAIN store'
  BY <1>1, <1>2 DEF SavesInOrder
<1> QED BY <1>2 DEF SavesInOrder

\* The chain after a step that adds a save to it.
LEMMA ChainGrown ==
    ASSUME TypeOK, SavesInOrder, NEW e \in QueueEntry, queue' = Append(queue, e),
           timer' = FALSE, store' = store, ~Waiting, ~Settled', e.by = only => Waiting',
           e.content.owner = e.id \/ e.id \notin DOMAIN store
    PROVE  SavesInOrder'
<1>1. /\ Len(queue') = Len(queue) + 1 /\ Len(queue) \in Nat /\ queue'[Len(queue) + 1] = e
      /\ \A i \in 1..Len(queue) : queue'[i] = queue[i]
  BY Pushed DEF TypeOK
<1>2. ASSUME NEW i \in 1..Len(queue')
      PROVE  /\ queue'[i].by = only => i = Len(queue') /\ Waiting'
             /\ queue'[i].content.owner = queue'[i].id \/ queue'[i].id \notin DOMAIN store'
  <2>1. CASE i = Len(queue) + 1
    BY <1>1, <2>1
  <2>2. CASE i # Len(queue) + 1
    <3>1. i \in 1..Len(queue) /\ queue'[i] = queue[i]
      BY <1>1, <2>2
    <3> QED BY <3>1 DEF SavesInOrder
  <2> QED BY <2>1, <2>2
<1> QED BY <1>2 DEF SavesInOrder

LEMMA OneLess ==
    ASSUME NEW long \in Nat, NEW short, short = long - 1, NEW i \in Int
    PROVE  i + 1 = long => i = short
OBVIOUS

\* The chain after its head has settled or was rejected.
LEMMA ChainShrunk ==
    ASSUME TypeOK, SavesInOrder, queue # <<>>, queue' = Tail(queue), timer' = timer,
           DOMAIN store' = DOMAIN store,
           IF Head(queue).by = only THEN ~Waiting' ELSE m' = m
    PROVE  SavesInOrder'
<1>1. /\ Len(queue) \in Nat /\ Len(queue) >= 1 /\ Len(queue') = Len(queue) - 1
      /\ Head(queue) = queue[1]
      /\ \A i \in 1..Len(queue') : queue'[i] = queue[i + 1] /\ i + 1 \in 1..Len(queue)
      /\ Len(queue) = 1 => queue' = <<>>
  BY Popped DEF TypeOK
<1>2. CASE Head(queue).by = only
  <2>1. 1 \in 1..Len(queue)
    BY <1>1
  <2>2. Len(queue) = 1 /\ Waiting
    BY <1>1, <1>2, <2>1 DEF SavesInOrder
  <2>3. queue' = <<>> /\ timer' = FALSE /\ 1..Len(queue') = {}
    BY <1>1, <2>2 DEF SavesInOrder
  <2> QED BY <1>2, <2>3 DEF SavesInOrder
<1>3. CASE Head(queue).by # only
  <2>1. m' = m
    BY <1>3
  <2>2. ~Settled' /\ (Waiting' <=> Waiting) /\ (Waiting' => timer' = FALSE)
    BY <2>1 DEF SavesInOrder, Settled, Waiting
  <2>3. ASSUME NEW i \in 1..Len(queue')
        PROVE  /\ queue'[i].by = only => i = Len(queue') /\ Waiting'
               /\ queue'[i].content.owner = queue'[i].id \/ queue'[i].id \notin DOMAIN store'
    <3>1. queue'[i] = queue[i + 1] /\ i + 1 \in 1..Len(queue)
      BY <1>1
    <3>2. /\ queue[i + 1].by = only => i + 1 = Len(queue) /\ Waiting
          /\ queue[i + 1].content.owner = queue[i + 1].id \/ queue[i + 1].id \notin DOMAIN store
      BY <3>1 DEF SavesInOrder
    <3>3. i + 1 = Len(queue) => i = Len(queue')
      <4>1. Len(queue) \in Nat /\ Len(queue') = Len(queue) - 1
        BY <1>1
      <4>2. Len(queue') \in Int
        BY <4>1
      <4>3. i \in Int
        BY ONLY <4>2
      <4> QED BY <4>1, <4>3, OneLess
    <3> QED BY <1>1, <2>2, <3>1, <3>2, <3>3
  <2> QED BY <2>2, <2>3 DEF SavesInOrder
<1> QED BY <1>2, <1>3

-----------------------------------------------------------------------------
LEMMA PageStepSafe ==
    ASSUME OneHandler, Typed, SInv, Edit \/ TimerFires \/ CalculateSaves \/ SaveStep
    PROVE  SInv'
<1> USE OnlyOne DEF SInv, Typed
<1>1. CASE Edit
  <2>1. /\ m.at = "idle" /\ m' = m
        /\ UNCHANGED <<store, active, activeId, listed, queue>> /\ timer' = TRUE
    BY <1>1 DEF Edit, MayInput, NoHandler, OneHandler, At, m, storeVars
  <2>2. memory'.owner = memory.owner
    <3>1. edits + 1 \in 0..MaxEdits
      BY <1>1, NextEdit DEF Edit, TypeOK
    <3> QED BY <1>1, <3>1, ValueTyped DEF Edit, TypeOK
  <2>3. SavesInOrder'
    BY <2>1, ChainKept DEF Settled, Waiting
  <2> QED BY <2>1, <2>2, <2>3 DEF Isolation, OpsInPlace, EditorInStep, Steady, Agrees, Remembers
<1>2. CASE TimerFires
  <2>1. /\ timer = TRUE /\ SavePlayerNow("timer") /\ m' = m
        /\ UNCHANGED <<store, active, memory, activeId, listed>>
    BY <1>2 DEF TimerFires, m, storeVars, TypeOK
  <2>2. /\ SaveEntry("timer") \in QueueEntry /\ queue' = Append(queue, SaveEntry("timer"))
        /\ timer' = FALSE /\ SaveEntry("timer").id = activeId
        /\ SaveEntry("timer").content = memory /\ SaveEntry("timer").by = "timer"
    BY <2>1, Saved
  <2>3. ~Settled /\ ~Waiting
    BY <2>1 DEF SavesInOrder
  <2>4. memory.owner = activeId \/ activeId \notin DOMAIN store
    BY <2>3, MTyped DEF EditorInStep, Steady, Agrees, Settled, Waiting, Steps, OpNames
  <2>5. only # "timer"
    BY SessionAssumption
  <2>6. SavesInOrder'
    <3>1. ~Settled'
      BY <2>1, <2>3 DEF Settled
    <3> QED BY <2>1, <2>2, <2>3, <2>4, <2>5, <3>1, ChainGrown
  <2> QED BY <2>1, <2>6 DEF Isolation, OpsInPlace, EditorInStep, Steady, Agrees, Remembers
<1>3. CASE CalculateSaves
  <2>1. /\ m.at = "idle" /\ SavePlayerNow("calculate") /\ m' = m
        /\ UNCHANGED <<store, active, memory, activeId, listed>>
    BY <1>3 DEF CalculateSaves, MayInput, NoHandler, OneHandler, At, m, storeVars
  <2>2. /\ SaveEntry("calculate") \in QueueEntry
        /\ queue' = Append(queue, SaveEntry("calculate"))
        /\ timer' = FALSE /\ SaveEntry("calculate").id = activeId
        /\ SaveEntry("calculate").content = memory /\ SaveEntry("calculate").by = "calculate"
    BY <2>1, Saved
  <2>3. ~Settled /\ ~Waiting /\ memory.owner = activeId
    BY <2>1 DEF Settled, Waiting, EditorInStep, Steady, Agrees
  <2>4. only # "calculate"
    BY SessionAssumption
  <2>5. SavesInOrder'
    <3>1. ~Settled'
      BY <2>1, <2>3 DEF Settled
    <3> QED BY <2>1, <2>2, <2>3, <2>4, <3>1, ChainGrown
  <2> QED BY <2>1, <2>5 DEF Isolation, OpsInPlace, EditorInStep, Steady, Agrees, Remembers
<1>4. CASE SaveSettles
  <2> DEFINE e == Head(queue)
  <2>1. /\ queue # <<>> /\ queue' = Tail(queue)
        /\ UNCHANGED <<memory, activeId, listed, timer>>
        /\ e = queue[1] /\ 1 \in 1..Len(queue) /\ e \in QueueEntry
    <3>1. queue # <<>> /\ queue' = Tail(queue) /\ UNCHANGED <<memory, activeId, listed, timer>>
      BY <1>4 DEF SaveSettles
    <3> QED BY <3>1, Popped DEF TypeOK
  <2>2. e.content.owner = e.id \/ e.id \notin DOMAIN store
    BY <2>1 DEF SavesInOrder
  <2>3. DOMAIN store' = DOMAIN store /\ active' = active /\ Isolation'
    <3>1. CASE e.real
      <4>1. StoreSave(e.id, e.content) /\ e.content \in Values
        BY <1>4, <2>1, <3>1 DEF SaveSettles, SaveTarget, QueueEntry
      <4>2. /\ e.id \in DOMAIN store /\ DOMAIN store' = DOMAIN store
            /\ active' = active /\ store'[e.id] = e.content
            /\ \A p \in DOMAIN store \ {e.id} : store'[p] = store[p]
        BY <4>1, StoreSaved DEF TypeOK
      <4> QED BY <2>2, <4>2 DEF Isolation
    <3>2. CASE ~e.real
      BY <1>4, <3>2 DEF SaveSettles, storeVars, Isolation
    <3> QED BY <3>1, <3>2
  <2>4. CASE e.by = only
    <3>1. Move(only, AfterSave(m.op))
      BY <1>4, <2>4 DEF SaveSettles, m
    <3>2. /\ m'.at = AfterSave(m.op) /\ m'.op = m.op /\ m'.target = m.target
          /\ m'.previous = m.previous /\ m'.base = m.base
      BY <3>1, MMoved
    <3>3. Waiting
      BY <2>1, <2>4 DEF SavesInOrder
    <3>4. /\ m.op \in {"switch", "new", "copy", "clear"}
          /\ m'.at = CASE m.op = "switch" -> "select" [] m.op = "copy" -> "read"
                       [] m.op = "clear" -> "clear" [] OTHER -> "create"
      BY <3>2, <3>3 DEF Waiting, OpsInPlace, AfterSave
    <3>5. SavesInOrder'
      <4>1. ~Waiting'
        BY <3>4 DEF Waiting
      <4> QED BY <2>1, <2>3, <2>4, <4>1, ChainShrunk
    <3>6. Agrees /\ Agrees'
      BY <2>1, <2>3, <3>3 DEF Waiting, EditorInStep, Steady, Agrees
    <3>7. OpsInPlace' /\ EditorInStep'
      BY <3>2, <3>4, <3>6 DEF OpsInPlace, EditorInStep
    <3>8. Remembers'
      BY <2>1, <3>2, <3>3, <3>4 DEF Remembers, Waiting, OpsInPlace
    <3> QED BY <2>3, <3>5, <3>7, <3>8
  <2>5. CASE e.by # only
    <3>1. m' = m
      BY <1>4, <2>5 DEF SaveSettles, m
    <3>2. SavesInOrder'
      BY <2>1, <2>3, <2>5, <3>1, ChainShrunk
    <3> QED BY <2>1, <2>3, <3>1, <3>2 DEF OpsInPlace, EditorInStep, Steady, Agrees, Remembers
  <2> QED BY <2>4, <2>5
<1>5. CASE SaveRejected
  <2> DEFINE e == Head(queue)
  <2>1. /\ queue # <<>> /\ queue' = Tail(queue)
        /\ UNCHANGED <<store, active, memory, activeId, listed, timer>>
        /\ IF e.by \in Handlers THEN Finish(e.by) ELSE UNCHANGED handler
        /\ e = queue[1] /\ 1 \in 1..Len(queue) /\ e \in QueueEntry
    <3>1. /\ queue # <<>> /\ queue' = Tail(queue)
          /\ UNCHANGED <<store, active, memory, activeId, listed, timer>>
          /\ IF e.by \in Handlers THEN Finish(e.by) ELSE UNCHANGED handler
      BY <1>5 DEF SaveRejected, storeVars
    <3> QED BY <3>1, Popped DEF TypeOK
  <2>2. CASE e.by = only
    <3>1. m'.at = "idle" /\ m'.op = "switch"
      BY <2>1, <2>2, MFinished
    <3>2. Waiting
      BY <2>1, <2>2 DEF SavesInOrder
    <3>3. SavesInOrder'
      <4>1. ~Waiting'
        BY <3>1 DEF Waiting
      <4> QED BY <2>1, <2>2, <4>1, ChainShrunk
    <3>4. Agrees'
      BY <2>1, <3>2 DEF Waiting, EditorInStep, Steady, Agrees
    <3> QED BY <2>1, <3>1, <3>3, <3>4 DEF Isolation, OpsInPlace, EditorInStep, Remembers
  <2>3. CASE e.by # only
    <3>1. m' = m
      BY <2>1, <2>3 DEF m
    <3>2. SavesInOrder'
      BY <2>1, <2>3, <3>1, ChainShrunk
    <3> QED BY <2>1, <3>1, <3>2 DEF Isolation, OpsInPlace, EditorInStep, Steady, Agrees, Remembers
  <2> QED BY <2>2, <2>3
<1> QED BY <1>1, <1>2, <1>3, <1>4, <1>5 DEF SaveStep

LEMMA UserStepSafe ==
    ASSUME OneHandler, Typed, SInv, UserStep(only)
    PROVE  SInv'
<1> USE OnlyOne DEF SInv, Typed
<1>1. ASSUME m.at = "idle", Agrees, UNCHANGED <<store, active, memory, activeId, listed>>,
             m'.at \in {"confirm", "read", "saving"},
             m'.at = "confirm" => m'.op \in {"delete", "clear"},
             m'.at = "read" => m'.op \in {"import", "archive"},
             m'.at = "saving" => m'.op \in {"switch", "new", "copy"} /\ m'.previous = activeId
      PROVE  Isolation' /\ OpsInPlace' /\ EditorInStep' /\ Remembers'
  BY <1>1 DEF Isolation, OpsInPlace, EditorInStep, Agrees, Remembers
<1>2. ASSUME UNCHANGED <<store, queue, timer>>, ~Waiting, ~Waiting', ~Settled'
      PROVE  SavesInOrder'
  BY <1>2, ChainKept
<1>3. ASSUME m.at = "idle" PROVE Agrees
  BY <1>3 DEF EditorInStep, Steady
<1>4. ASSUME m.at = "idle", SavePlayerNow(only), m'.at = "saving", store' = store, Agrees
      PROVE  SavesInOrder'
  <2>1. /\ SaveEntry(only) \in QueueEntry /\ queue' = Append(queue, SaveEntry(only))
        /\ timer' = FALSE /\ SaveEntry(only).id = activeId
        /\ SaveEntry(only).content = memory
    BY <1>4, Saved
  <2>2. ~Waiting /\ ~Settled' /\ Waiting'
    BY <1>4 DEF Waiting, Settled
  <2> QED BY <1>4, <2>1, <2>2, ChainGrown DEF Agrees
<1>5. CASE StartClear(only)
  <2>1. /\ m.at = "idle" /\ m'.op = "clear" /\ m'.at = "confirm"
        /\ UNCHANGED <<store, active, memory, activeId, listed, queue, timer>>
    BY <1>5, MStarted DEF StartClear, storeVars, TypeOK, Steps
  <2> QED BY <1>1, <1>2, <1>3, <2>1 DEF Waiting, Settled
<1>6. CASE Confirm(only)
  <2>1. /\ m.at = "confirm" /\ m.op \in {"delete", "clear"} /\ Agrees
        /\ UNCHANGED <<store, active, memory, activeId, listed>>
    BY <1>6 DEF Confirm, At, m, storeVars, OpsInPlace, EditorInStep, Steady
  <2>2. CASE m.op = "delete"
    <3>1. Move(only, "delete") /\ UNCHANGED <<timer, queue>>
      BY <1>6, <2>2 DEF Confirm, Doing, m
    <3>2. m'.at = "delete" /\ m'.op = "delete"
      BY <2>2, <3>1, MMoved
    <3>3. SavesInOrder'
      BY <1>2, <2>1, <3>1, <3>2 DEF Waiting, Settled
    <3> QED BY <2>1, <3>2, <3>3 DEF Isolation, OpsInPlace, EditorInStep, Agrees, Remembers
  <2>3. CASE m.op = "clear"
    <3> DEFINE e == [SaveEntry(only) EXCEPT !.real = FALSE]
    <3>1. /\ timer' = FALSE /\ Move(only, "draining") /\ queue' = Append(queue, e)
      BY <1>6, <2>3 DEF Confirm, Doing, m
    <3>2. e \in QueueEntry /\ e.id = activeId /\ e.content = memory
      BY DEF SaveEntry, QueueEntry, TypeOK
    <3> HIDE DEF e
    <3>3. m'.at = "draining" /\ m'.op = "clear"
      BY <2>3, <3>1, MMoved
    <3>4. SavesInOrder'
      <4>1. ~Waiting /\ ~Settled' /\ Waiting'
        BY <2>1, <3>3 DEF Waiting, Settled
      <4> QED BY <2>1, <3>1, <3>2, <4>1, ChainGrown DEF Agrees
    <3> QED BY <2>1, <3>3, <3>4 DEF Isolation, OpsInPlace, EditorInStep, Agrees, Remembers
  <2> QED BY <2>1, <2>2, <2>3
<1>7. CASE Cancel(only)
  <2>1. /\ m.at \in {"confirm", "review"} /\ Agrees /\ Finish(only)
        /\ UNCHANGED <<store, active, memory, activeId, listed, queue, timer>>
    BY <1>7 DEF Cancel, At, m, storeVars, EditorInStep, Steady
  <2>2. m'.at = "idle" /\ m'.op = "switch"
    BY <2>1, MFinished
  <2>3. SavesInOrder'
    BY <1>2, <2>1, <2>2 DEF Waiting, Settled
  <2> QED BY <2>1, <2>2, <2>3 DEF Isolation, OpsInPlace, EditorInStep, Agrees, Remembers
<1>8. CASE Commit(only)
  <2> DEFINE imported == [m.base EXCEPT !.edit = edits + 1]
  <2>1. /\ m.at = "review" /\ Agrees /\ m.op = "import" /\ m.base.owner = m.target
        /\ UNCHANGED <<store, active, activeId, listed, queue>>
    BY <1>8 DEF Commit, At, m, storeVars, OpsInPlace, EditorInStep, Steady, Remembers
  <2>2. imported.owner = m.target /\ imported \in Values
    <3>1. edits + 1 \in 0..MaxEdits
      BY <1>8, NextEdit DEF Commit, TypeOK
    <3> QED BY <2>1, <3>1, MTyped, ValueTyped
  <2>3. CASE m.target \notin listed
    <3>1. Finish(only) /\ UNCHANGED <<memory, timer>>
      BY <1>8, <2>3 DEF Commit, m
    <3>2. m'.at = "idle" /\ m'.op = "switch"
      BY <3>1, MFinished
    <3>3. SavesInOrder'
      BY <1>2, <2>1, <3>1, <3>2 DEF Waiting, Settled
    <3> QED BY <2>1, <3>1, <3>2, <3>3 DEF Isolation, OpsInPlace, EditorInStep, Agrees, Remembers
  <2>4. CASE m.target \in listed /\ m.target = activeId
    <3>1. memory' = imported /\ timer' = TRUE /\ Move(only, "refresh")
      BY <1>8, <2>4 DEF Commit, m
    <3>2. m'.at = "refresh" /\ m'.op = "import"
      BY <2>1, <3>1, MMoved
    <3>3. SavesInOrder'
      BY <2>1, <3>2, ChainKept DEF Waiting, Settled
    <3>4. memory'.owner = activeId
      BY <2>2, <2>4, <3>1
    <3> QED BY <2>1, <3>2, <3>3, <3>4 DEF Isolation, OpsInPlace, EditorInStep, Agrees, Remembers
  <2>5. CASE m.target \in listed /\ m.target # activeId
    <3>1. /\ UNCHANGED <<memory, timer>>
          /\ handler' = [handler EXCEPT ![only].at = "directSave", ![only].base = imported]
      BY <1>8, <2>5 DEF Commit, m
    <3> HIDE DEF imported
    <3>2. m' = [m EXCEPT !.at = "directSave", !.base = imported]
      BY <3>1 DEF m, TypeOK
    <3>3. m'.at = "directSave" /\ m'.op = "import" /\ m'.base = imported /\ m'.target = m.target
      BY <2>1, <3>2, RecordTyped DEF HandlerState, m
    <3>4. SavesInOrder'
      BY <1>2, <2>1, <3>1, <3>3 DEF Waiting, Settled
    <3> QED BY <2>1, <2>2, <3>1, <3>3, <3>4 DEF Isolation, OpsInPlace, EditorInStep, Agrees, Remembers
  <2> QED BY <2>3, <2>4, <2>5
<1>9. ASSUME NEW id \in Ids, StartSwitch(only, id) PROVE SInv'
  <2>1. /\ m.at = "idle" /\ m'.op = "switch" /\ m'.at = "saving" /\ m'.previous = activeId
        /\ SavePlayerNow(only) /\ UNCHANGED <<store, active, memory, activeId, listed>>
    BY <1>9, MStarted DEF StartSwitch, storeVars, TypeOK, Steps
  <2> QED BY <1>1, <1>3, <1>4, <2>1
<1>10. ASSUME NEW id \in Ids, StartCreate(only, id) PROVE SInv'
  <2>1. PICK op \in {"new", "copy"}, activate \in BOOLEAN :
          handler' = [handler EXCEPT ![only] =
              [Idle EXCEPT !.op = op, !.target = id, !.at = "saving",
                           !.previous = activeId, !.activate = activate]]
    BY <1>10 DEF StartCreate
  <2>2. /\ m.at = "idle" /\ SavePlayerNow(only)
        /\ UNCHANGED <<store, active, memory, activeId, listed>>
    BY <1>10 DEF StartCreate, At, m, storeVars
  <2>3. m'.op \in {"new", "copy"} /\ m'.at = "saving" /\ m'.previous = activeId
    BY <2>1 DEF m, TypeOK, Idle
  <2> QED BY <1>1, <1>3, <1>4, <2>2, <2>3
<1>11. ASSUME NEW id \in Ids, StartImport(only, id) PROVE SInv'
  <2>1. /\ m.at = "idle" /\ m'.op = "import" /\ m'.at = "read"
        /\ UNCHANGED <<store, active, memory, activeId, listed, queue, timer>>
    BY <1>11, MStarted DEF StartImport, storeVars, TypeOK, Steps
  <2> QED BY <1>1, <1>2, <1>3, <2>1 DEF Waiting, Settled
<1>12. ASSUME NEW id \in Ids, StartArchiveSave(only, id) PROVE SInv'
  <2>1. /\ m.at = "idle" /\ m'.op = "archive" /\ m'.at = "read"
        /\ UNCHANGED <<store, active, memory, activeId, listed, queue, timer>>
    BY <1>12, MStarted DEF StartArchiveSave, storeVars, TypeOK, Steps
  <2> QED BY <1>1, <1>2, <1>3, <2>1 DEF Waiting, Settled
<1>13. ASSUME NEW id \in Ids, StartDelete(only, id) PROVE SInv'
  <2>1. /\ m.at = "idle" /\ m'.op = "delete" /\ m'.at = "confirm"
        /\ UNCHANGED <<store, active, memory, activeId, listed, queue, timer>>
    BY <1>13, MStarted DEF StartDelete, storeVars, TypeOK, Steps
  <2> QED BY <1>1, <1>2, <1>3, <2>1 DEF Waiting, Settled
<1> QED BY <1>5, <1>6, <1>7, <1>8, <1>9, <1>10, <1>11, <1>12, <1>13 DEF UserStep

LEMMA HandlerStepSafe ==
    ASSUME OneHandler, Typed, SInv, HandlerStep(only)
    PROVE  SInv'
<1> USE OnlyOne DEF SInv, Typed
<1>1. ASSUME UNCHANGED <<store, active, memory, activeId, listed, queue, timer>>,
             Agrees, ~Waiting, Finish(only)
      PROVE  SInv'
  <2>1. m'.at = "idle" /\ m'.op = "switch"
    BY <1>1, MFinished
  <2>2. SavesInOrder'
    BY <1>1, <2>1, ChainKept DEF Waiting, Settled
  <2> QED BY <1>1, <2>1, <2>2 DEF Isolation, OpsInPlace, EditorInStep, Agrees, Remembers
\* Nothing is pending: the chain stays empty and the timer off.
<1>2. ASSUME Settled, UNCHANGED <<queue, timer>>, ~Waiting, ~Waiting'
      PROVE  SavesInOrder'
  BY <1>2, ChainKept DEF SavesInOrder
<1>3. CASE Fails(only)
  <2>1. /\ m.op \in {"import", "archive"} /\ m.at \notin {"saving", "draining"}
        /\ Agrees /\ Finish(only)
        /\ UNCHANGED <<store, active, memory, activeId, listed, queue, timer>>
    BY <1>3, MTyped DEF Fails, m, storeVars, OneHandler, OpNames, Steps, OpsInPlace,
       EditorInStep, Steady
  <2> QED BY <1>1, <2>1 DEF Waiting
<1>4. CASE SelectDone(only)
  <2>1. /\ m.at = "select" /\ m.op = "switch" /\ Agrees /\ Settled /\ ~Waiting
        /\ UNCHANGED <<activeId, listed, timer, queue>>
    BY <1>4 DEF SelectDone, At, m, OpsInPlace, EditorInStep, Steady, Settled, Waiting
  <2>2. CASE m.target \in DOMAIN store
    <3>1. /\ StoreSelect(m.target) /\ memory' = store[m.target] /\ Move(only, "refresh")
      BY <1>4, <2>2 DEF SelectDone, m
    <3>2. store' = store /\ active' = m.target /\ memory'.owner = active'
      BY <2>2, <3>1, StoreSelected DEF Isolation, TypeOK
    <3>3. m'.at = "refresh" /\ m'.op = "switch"
      BY <2>1, <3>1, MMoved
    <3>4. SavesInOrder'
      BY <1>2, <2>1, <3>3 DEF Waiting
    <3> QED BY <3>2, <3>3, <3>4 DEF Isolation, OpsInPlace, EditorInStep, Steady, Remembers
  <2>3. CASE m.target \notin DOMAIN store
    <3>1. Finish(only) /\ UNCHANGED <<store, active, memory>>
      BY <1>4, <2>3 DEF SelectDone, m, storeVars
    <3> QED BY <1>1, <2>1, <3>1
  <2> QED BY <2>2, <2>3
<1>5. CASE ReadDone(only)
  <2>1. /\ m.at = "read" /\ m.op \in {"copy", "import", "archive"} /\ Agrees
        /\ UNCHANGED <<store, active, memory, activeId, listed, queue, timer>>
    BY <1>5 DEF ReadDone, At, m, storeVars, OpsInPlace, EditorInStep, Steady
  <2> DEFINE content == ReadTarget(m.target)
             next == CASE m.op = "copy" -> "create" [] m.op = "import" -> "review"
                       [] OTHER -> "directSave"
  <2>2. CASE Finish(only)
    BY <1>1, <2>1, <2>2 DEF Waiting
  <2>3. CASE m.target = activeId \/ m.target \in DOMAIN store
    <3>1. content.owner = m.target /\ content \in Values
      BY <2>1, <2>3 DEF ReadTarget, Agrees, Isolation, TypeOK, StoreTypeOK
    <3>2. /\ edits < MaxEdits => [content EXCEPT !.edit = edits + 1].owner = m.target
      BY <3>1, NextEdit, ValueTyped DEF TypeOK
    <3>3. PICK base : /\ base.owner = m.target
                      /\ handler' = [handler EXCEPT ![only].at = next, ![only].base = base]
      BY <1>5, <2>3, <3>1, <3>2 DEF ReadDone, Doing, m
    <3> HIDE DEF next
    <3>4. m' = [m EXCEPT !.at = next, !.base = base]
      BY <3>3 DEF m, TypeOK
    <3>5. /\ m'.at = next /\ m'.op = m.op /\ m'.base = base /\ m'.target = m.target
          /\ m'.previous = m.previous
      BY <3>4, RecordTyped DEF HandlerState, m
    <3>6. SavesInOrder'
      <4>1. ~Waiting /\ ~Waiting' /\ (Settled' => Settled)
        BY <2>1, <3>5 DEF Waiting, Settled, next
      <4> QED BY <2>1, <4>1, ChainKept DEF SavesInOrder
    <3>7. OpsInPlace' /\ EditorInStep'
      BY <2>1, <3>5 DEF OpsInPlace, EditorInStep, Agrees, next
    <3>8. Remembers'
      BY <2>1, <3>3, <3>5 DEF Remembers, next
    <3> QED BY <2>1, <3>6, <3>7, <3>8 DEF Isolation
  <2> QED BY <1>5, <2>2, <2>3 DEF ReadDone, m
<1>6. CASE DirectSaveDone(only)
  <2>1. /\ m.at = "directSave" /\ m.op \in {"import", "archive"} /\ Agrees
        /\ m.base.owner = m.target /\ UNCHANGED <<activeId, listed, timer, queue>>
    BY <1>6 DEF DirectSaveDone, At, m, OpsInPlace, EditorInStep, Steady, Remembers
  <2>2. CASE m.target \in DOMAIN store
    <3>1. /\ StoreSave(m.target, m.base) /\ Move(only, "refresh")
          /\ memory' = IF Doing(only, "archive") /\ m.target = activeId THEN m.base ELSE memory
      BY <1>6, <2>2 DEF DirectSaveDone, m
    <3>2. /\ DOMAIN store' = DOMAIN store /\ active' = active /\ store'[m.target] = m.base
          /\ \A p \in DOMAIN store \ {m.target} : store'[p] = store[p]
      BY <3>1, StoreSaved, MTyped DEF TypeOK
    <3>3. m'.at = "refresh" /\ m'.op = m.op
      BY <3>1, MMoved
    <3>4. Agrees'
      BY <2>1, <3>1, <3>2 DEF Agrees
    <3>5. SavesInOrder'
      BY <2>1, <3>2, <3>3, ChainKept DEF Waiting, Settled
    <3>6. Isolation'
      BY <2>1, <3>2 DEF Isolation
    <3> QED BY <2>1, <3>3, <3>4, <3>5, <3>6 DEF OpsInPlace, EditorInStep, Agrees, Remembers
  <2>3. CASE m.target \notin DOMAIN store
    <3>1. Finish(only) /\ UNCHANGED <<store, active, memory>>
      BY <1>6, <2>3 DEF DirectSaveDone, m, storeVars
    <3> QED BY <1>1, <2>1, <3>1 DEF Waiting
  <2> QED BY <2>2, <2>3
<1>7. CASE CreateDone(only)
  <2>1. /\ m.at = "create" /\ m.op \in {"new", "copy"} /\ Agrees /\ Settled
        /\ m.previous = activeId /\ UNCHANGED <<memory, activeId, listed, timer, queue>>
        /\ Move(only, IF m.activate THEN "load" ELSE "restore")
    BY <1>7 DEF CreateDone, At, m, OpsInPlace, EditorInStep, Steady, Remembers, Settled
  <2> DEFINE edit == IF Doing(only, "copy") THEN m.base.edit ELSE 0
  <2>2. PICK id \in Ids \ used : StoreCreate(id, [owner |-> id, edit |-> edit])
    BY <1>7 DEF CreateDone, m
  <2>3. edit \in 0..MaxEdits
    BY MTyped, ValueTyped, SessionAssumption
  <2> HIDE DEF edit
  <2> DEFINE v == [owner |-> id, edit |-> edit]
  <2>4. v \in Values /\ v.owner = id /\ StoreCreate(id, v)
    BY <2>2, <2>3, SessionAssumption
  <2> HIDE DEF v
  <2>5. /\ DOMAIN store' = DOMAIN store \cup {id} /\ store'[id].owner = id
        /\ \A p \in DOMAIN store : store'[p] = store[p]
    <3>1. /\ DOMAIN store' = DOMAIN store \cup {id} /\ store'[id] = v
          /\ \A p \in DOMAIN store : store'[p] = store[p]
      BY <2>4, StoreCreated DEF TypeOK
    <3> QED BY <2>4, <3>1
  <2>6. m'.at \in {"load", "restore"} /\ m'.op = m.op /\ m'.previous = m.previous
    BY <2>1, MMoved
  <2>7. SavesInOrder'
    <3>1. ~Waiting /\ ~Waiting'
      BY <2>1, <2>6 DEF Waiting
    <3> QED BY <2>1, <3>1, ChainKept DEF SavesInOrder
  <2>8. Isolation'
    BY <2>5 DEF Isolation
  <2>9. Remembers'
    BY <2>1, <2>5, <2>6 DEF Remembers, Agrees, ActiveExists
  <2> QED BY <2>1, <2>6, <2>7, <2>8, <2>9 DEF OpsInPlace, EditorInStep, Steady
<1>8. CASE RestoreDone(only)
  <2>1. /\ m.at = "restore" /\ m.op \in {"new", "copy"} /\ Settled
        /\ m.previous \in DOMAIN store /\ UNCHANGED <<memory, activeId, listed, timer, queue>>
    BY <1>8 DEF RestoreDone, At, m, OpsInPlace, Remembers, Settled
  <2>2. store' = store /\ Move(only, "load")
    BY <1>8, <2>1, StoreSelected DEF RestoreDone, m, TypeOK
  <2>3. m'.at = "load" /\ m'.op = m.op
    BY <2>2, MMoved
  <2>4. SavesInOrder'
    BY <1>2, <2>1, <2>3 DEF Waiting
  <2> QED BY <2>1, <2>2, <2>3, <2>4 DEF Isolation, OpsInPlace, EditorInStep, Steady, Remembers
<1>9. CASE LoadDone(only)
  <2>1. /\ m.at = "load" /\ m.op \in {"new", "copy", "clear"} /\ Settled
        /\ memory' = store[active] /\ Move(only, "refresh")
        /\ UNCHANGED <<store, active, activeId, listed, timer, queue>>
    BY <1>9 DEF LoadDone, At, m, OpsInPlace, Settled, storeVars
  <2>2. m'.at = "refresh" /\ m'.op = m.op
    BY <2>1, MMoved
  <2>3. memory'.owner = active
    BY <2>1 DEF Isolation, ActiveExists
  <2>4. SavesInOrder'
    BY <1>2, <2>1, <2>2 DEF Waiting
  <2> QED BY <2>1, <2>2, <2>3, <2>4 DEF Isolation, OpsInPlace, EditorInStep, Steady, Remembers
<1>10. CASE DeleteDone(only)
  <2>1. /\ m.at = "delete" /\ m.op = "delete" /\ Agrees
        /\ UNCHANGED <<activeId, listed, timer, queue>>
    BY <1>10 DEF DeleteDone, At, m, OpsInPlace, EditorInStep, Steady
  <2>2. CASE /\ StoreDelete(m.target) /\ memory' = EditorAfterDelete
             /\ Move(only, "refresh")
    <3>1. /\ DOMAIN store' = DOMAIN store \ {m.target} /\ active' \in DOMAIN store'
          /\ (active # m.target => active' = active)
          /\ \A p \in DOMAIN store' : store'[p] = store[p]
      BY <2>2, StoreDeleted DEF TypeOK, ActiveExists
    <3>2. m'.at = "refresh" /\ m'.op = "delete"
      BY <2>1, <2>2, MMoved
    <3>3. Isolation'
      BY <3>1 DEF Isolation
    <3>4. memory'.owner = active'
      BY <2>2, <3>1 DEF Isolation, EditorAfterDelete
    <3>5. activeId' = active' \/ activeId' \notin DOMAIN store'
      BY <2>1, <3>1 DEF Agrees
    <3>6. SavesInOrder'
      BY <2>1, <3>1, <3>2, ChainKept DEF Waiting, Settled
    <3> QED BY <3>2, <3>3, <3>4, <3>5, <3>6 DEF OpsInPlace, EditorInStep, Steady, Remembers
  <2>3. CASE Finish(only) /\ UNCHANGED <<store, active, memory>>
    BY <1>1, <2>1, <2>3 DEF Waiting
  <2> QED BY <1>10, <2>2, <2>3 DEF DeleteDone, m, storeVars
<1>11. CASE ClearDone(only)
  <2>1. /\ m.at = "clear" /\ m.op = "clear" /\ Settled /\ StoreClear /\ Move(only, "load")
        /\ UNCHANGED <<memory, activeId, listed, timer, queue>>
    BY <1>11 DEF ClearDone, At, m, OpsInPlace, Settled
  <2>2. m'.at = "load" /\ m'.op = "clear"
    BY <2>1, MMoved
  <2>3. Isolation'
    BY <2>1, StoreCleared, SessionAssumption DEF Isolation
  <2>4. SavesInOrder'
    <3>1. ~Waiting /\ ~Waiting'
      BY <2>1, <2>2 DEF Waiting
    <3> QED BY <2>1, <3>1, ChainKept DEF SavesInOrder
  <2> QED BY <2>2, <2>3, <2>4 DEF OpsInPlace, EditorInStep, Steady, Remembers
<1>12. CASE RefreshDone(only)
  <2>1. /\ m.at = "refresh" /\ listed' = DOMAIN store /\ activeId' = active
        /\ memory.owner = active /\ UNCHANGED <<store, active, memory, timer, queue>>
    BY <1>12 DEF RefreshDone, At, m, storeVars, EditorInStep
  <2>2. Agrees'
    BY <2>1 DEF Agrees
  <2>3. CASE m.op = "clear"
    <3>1. Move(only, "resave")
      BY <1>12, <2>3 DEF RefreshDone, Doing, m
    <3>2. m'.at = "resave" /\ m'.op = "clear" /\ Settled
      BY <2>1, <2>3, <3>1, MMoved DEF Settled
    <3>3. SavesInOrder'
      BY <1>2, <2>1, <3>2 DEF Waiting
    <3> QED BY <2>1, <2>2, <3>2, <3>3 DEF Isolation, OpsInPlace, EditorInStep, Remembers
  <2>4. CASE m.op # "clear"
    <3>1. Finish(only)
      BY <1>12, <2>4 DEF RefreshDone, Doing, m
    <3>2. m'.at = "idle" /\ m'.op = "switch"
      BY <3>1, MFinished
    <3>3. SavesInOrder'
      BY <2>1, <3>2, ChainKept DEF Waiting, Settled
    <3> QED BY <2>1, <2>2, <3>2, <3>3 DEF Isolation, OpsInPlace, EditorInStep, Remembers
  <2> QED BY <2>3, <2>4
<1>13. CASE ResaveDone(only)
  <2>1. /\ m.at = "resave" /\ Agrees /\ Settled /\ StoreSave(active, memory) /\ Finish(only)
        /\ UNCHANGED <<memory, activeId, listed, timer, queue>>
    BY <1>13 DEF ResaveDone, At, m, EditorInStep, Steady, Settled
  <2>2. /\ DOMAIN store' = DOMAIN store /\ active' = active /\ store'[active] = memory
        /\ \A p \in DOMAIN store \ {active} : store'[p] = store[p]
    BY <2>1, StoreSaved DEF TypeOK
  <2>3. m'.at = "idle" /\ m'.op = "switch"
    BY <2>1, MFinished
  <2>4. Isolation' /\ Agrees'
    BY <2>1, <2>2 DEF Isolation, Agrees
  <2>5. SavesInOrder'
    BY <1>2, <2>1, <2>3 DEF Waiting
  <2> QED BY <2>3, <2>4, <2>5 DEF OpsInPlace, EditorInStep, Remembers
<1> QED BY <1>3, <1>4, <1>5, <1>6, <1>7, <1>8, <1>9, <1>10, <1>11, <1>12, <1>13 DEF HandlerStep

-----------------------------------------------------------------------------
(* No edit is lost. *)

LEMMA ActiveStored ==
    ASSUME Typed, Agrees
    PROVE  activeId \in DOMAIN store /\ DOMAIN store \subseteq Ids /\ activeId \in Ids
BY DEF Typed, TypeOK, StoreTypeOK, ActiveExists, Agrees

LEMMA EditTyped ==
    ASSUME Typed
    PROVE  /\ edits \in Nat /\ memory.edit \in Nat
           /\ \A id \in Ids : latest[id] \in Nat
           /\ \A id \in DOMAIN store : store[id].edit \in Nat
BY ValueTyped, MTyped, SessionAssumption DEF Typed, TypeOK, StoreTypeOK

\* Behind a save the handler waited for, every profile is stored.
LEMMA AllStored ==
    ASSUME SInv, Kept, Settled
    PROVE  \A id \in DOMAIN store : store[id].edit = latest[id]
<1>1. queue = <<>> /\ timer = FALSE
  BY DEF SInv, SavesInOrder
<1>2. Steady => store[activeId].edit = latest[activeId]
  BY <1>1 DEF Kept, EditorLatest, LastPending
<1> QED BY <1>2 DEF Kept, OthersStored

\* A step of the handler that changes neither the profiles nor the editor.
LEMMA KeptQuietly ==
    ASSUME Kept, Steady, Steady', m'.op \in {"switch", "new", "copy", "import"},
           UNCHANGED <<store, active, memory, activeId, timer, queue, latest, edits>>,
           m'.at = "refresh" => activeId = active,
           CarriedLatest'
    PROVE  Kept'
<1>1. ChainToActive' /\ OthersStored' /\ EditsCounted'
  BY DEF Kept, ChainToActive, OthersStored, EditsCounted
<1>2. LastPending' = LastPending
  BY DEF LastPending
<1>3. EditorLatest'
  BY <1>2 DEF Kept, EditorLatest
<1> QED BY <1>1, <1>3 DEF Kept

\* A step that chains a save of the editor.
LEMMA KeptSaving ==
    ASSUME Typed, Kept, Steady => Steady', NEW e \in QueueEntry,
           m'.op \in {"switch", "new", "copy", "import"},
           queue' = Append(queue, e), e.id = activeId, e.real = TRUE, e.content = memory,
           UNCHANGED <<store, active, memory, activeId, latest, edits>>,
           Steady' => Steady, m'.at = "refresh" => m.at = "refresh",
           CarriedLatest'
    PROVE  Kept'
<1>1. /\ Len(queue') = Len(queue) + 1 /\ Len(queue) \in Nat /\ queue'[Len(queue) + 1] = e
      /\ \A i \in 1..Len(queue) : queue'[i] = queue[i]
      /\ queue' # <<>>
  BY Pushed DEF Typed, TypeOK
<1>2. ChainToActive'
  <2>1. ASSUME NEW i \in 1..Len(queue')
        PROVE  queue'[i].id = activeId /\ queue'[i].real = TRUE
    <3>1. CASE i = Len(queue) + 1
      BY <1>1, <3>1
    <3>2. CASE i # Len(queue) + 1
      <4>1. i \in 1..Len(queue) /\ queue'[i] = queue[i]
        BY <1>1, <3>2
      <4> QED BY <4>1 DEF Kept, ChainToActive
    <3> QED BY <3>1, <3>2
  <2> QED BY <2>1 DEF ChainToActive
<1>3. OthersStored' /\ EditsCounted'
  BY DEF Kept, OthersStored, EditsCounted
<1>4. LastPending' = memory.edit
  BY <1>1 DEF LastPending
<1>5. EditorLatest'
  BY <1>4 DEF Kept, EditorLatest
<1> QED BY <1>2, <1>3, <1>5 DEF Kept

LEMMA PageStepKeeps ==
    ASSUME OneHandler, Typed, SInv, Kept, ~SaveRejected,
           Edit \/ TimerFires \/ CalculateSaves \/ SaveStep
    PROVE  Kept'
<1> USE OnlyOne DEF Typed
<1>1. CASE Edit
  <2>1. /\ m.at = "idle" /\ m' = m /\ timer' = TRUE
        /\ UNCHANGED <<store, active, activeId, queue>>
        /\ edits' = edits + 1 /\ memory' = [memory EXCEPT !.edit = edits + 1]
        /\ latest' = [latest EXCEPT ![memory.owner] = edits + 1]
    BY <1>1 DEF Edit, MayInput, NoHandler, OneHandler, At, m, storeVars
  <2>2. Agrees /\ Steady /\ Steady' /\ memory.owner = activeId
    BY <2>1 DEF SInv, EditorInStep, Steady, Agrees
  <2>3. memory'.edit = edits + 1
    <3>1. edits + 1 \in 0..MaxEdits
      BY <1>1, NextEdit DEF Edit, TypeOK
    <3> QED BY <2>1, <3>1, ValueTyped DEF TypeOK
  <2>4. /\ latest'[activeId] = edits + 1
        /\ \A id \in Ids \ {activeId} : latest'[id] = latest[id]
    BY <2>1, <2>2, ActiveStored DEF TypeOK
  <2>5. ChainToActive'
    BY <2>1 DEF Kept, ChainToActive
  <2>6. OthersStored'
    BY <2>1, <2>2, <2>4, ActiveStored DEF Kept, OthersStored
  <2>7. EditsCounted'
    BY <2>1, <2>4, EditTyped DEF Kept, EditsCounted
  <2>8. EditorLatest' /\ CarriedLatest'
    BY <2>1, <2>3, <2>4 DEF EditorLatest, CarriedLatest
  <2> QED BY <2>1, <2>5, <2>6, <2>7, <2>8 DEF Kept
<1>2. CASE TimerFires \/ CalculateSaves
  <2>1. PICK by \in {"timer", "calculate"} :
          /\ SavePlayerNow(by) /\ m' = m
          /\ UNCHANGED <<store, active, memory, activeId, latest, edits>>
    BY <1>2 DEF TimerFires, CalculateSaves, m, storeVars
  <2>2. /\ SaveEntry(by) \in QueueEntry /\ queue' = Append(queue, SaveEntry(by))
        /\ SaveEntry(by).id = activeId /\ SaveEntry(by).real = TRUE
        /\ SaveEntry(by).content = memory
    BY <2>1, Saved
  <2>3. CarriedLatest' /\ (Steady' <=> Steady) /\ m'.op \in {"switch", "new", "copy", "import"}
    BY <2>1 DEF Kept, CarriedLatest, Steady
  <2> QED BY <2>1, <2>2, <2>3, KeptSaving
<1>3. CASE SaveSettles
  <2> DEFINE e == Head(queue)
  <2>1. /\ queue # <<>> /\ queue' = Tail(queue) /\ e = queue[1] /\ e \in QueueEntry
        /\ UNCHANGED <<memory, activeId, timer, latest, edits>>
        /\ Len(queue) \in Nat /\ Len(queue) >= 1 /\ Len(queue') = Len(queue) - 1
        /\ \A i \in 1..Len(queue') : queue'[i] = queue[i + 1] /\ i + 1 \in 1..Len(queue)
        /\ queue' = <<>> => Len(queue) = 1
    <3>1. queue # <<>> /\ queue' = Tail(queue) /\ UNCHANGED <<memory, activeId, timer, latest, edits>>
      BY <1>3 DEF SaveSettles
    <3> QED BY <3>1, Popped DEF TypeOK
  <2>2. 1 \in 1..Len(queue) /\ e.id = activeId /\ e.real = TRUE
    <3>1. 1 \in 1..Len(queue)
      BY <2>1
    <3> QED BY <2>1, <3>1 DEF Kept, ChainToActive
  <2>3. StoreSave(activeId, e.content) /\ e.content \in Values
    BY <1>3, <2>1, <2>2 DEF SaveSettles, SaveTarget, QueueEntry
  <2>4. /\ DOMAIN store' = DOMAIN store /\ active' = active /\ store'[activeId] = e.content
        /\ \A p \in DOMAIN store \ {activeId} : store'[p] = store[p]
    BY <2>3, StoreSaved DEF TypeOK
  <2>5. ~Settled
    BY <2>1 DEF SInv, SavesInOrder
  <2>6. Steady
    BY <2>5, MTyped DEF Steady, Settled, Kept, SInv, OpsInPlace, Steps
  <2>7. /\ Steady' /\ m'.op \in {"switch", "new", "copy", "import"}
        /\ m'.at = "refresh" => m.at = "refresh"
        /\ CarriedLatest'
    <3>1. CASE e.by = only
      <4>1. Move(only, AfterSave(m.op))
        BY <1>3, <3>1 DEF SaveSettles, m
      <4>2. m'.at = AfterSave(m.op) /\ m'.op = m.op
        BY <4>1, MMoved
      <4>3. Waiting
        BY <2>1, <2>2, <3>1 DEF SInv, SavesInOrder
      <4>4. /\ m.op \in {"switch", "new", "copy"}
            /\ m'.at = CASE m.op = "switch" -> "select" [] m.op = "copy" -> "read"
                         [] OTHER -> "create"
        BY <4>2, <4>3 DEF SInv, Waiting, OpsInPlace, Kept, AfterSave
      <4> QED BY <4>2, <4>4 DEF Steady, CarriedLatest
    <3>2. CASE e.by # only
      <4>1. m' = m
        BY <1>3, <3>2 DEF SaveSettles, m
      <4> QED BY <2>1, <2>6, <4>1 DEF Kept, Steady, CarriedLatest
    <3> QED BY <3>1, <3>2
  <2>8. ChainToActive'
    BY <2>1 DEF Kept, ChainToActive
  <2>9. OthersStored'
    BY <2>1, <2>4, <2>7 DEF Kept, OthersStored
  <2>10. LastPending' = LastPending
    <3>1. CASE queue' = <<>>
      BY <2>1, <2>4, <3>1 DEF LastPending
    <3>2. CASE queue' # <<>>
      <4>1. Len(queue') \in 1..Len(queue')
        <5>1. queue' \in Seq(QueueEntry)
          BY <2>1, Popped DEF TypeOK
        <5>2. Len(queue') >= 1 /\ Len(queue') \in Nat
          BY <3>2, <5>1
        <5> QED BY <5>2
      <4>2. queue'[Len(queue')] = queue[Len(queue') + 1] /\ Len(queue') + 1 = Len(queue)
        BY <2>1, <4>1
      <4> QED BY <2>1, <3>2, <4>2 DEF LastPending
    <3> QED BY <3>1, <3>2
  <2>11. EditorLatest'
    BY <2>1, <2>4, <2>6, <2>7, <2>10 DEF Kept, EditorLatest
  <2>12. EditsCounted'
    BY <2>1 DEF Kept, EditsCounted
  <2> QED BY <2>7, <2>8, <2>9, <2>11, <2>12 DEF Kept
<1> QED BY <1>1, <1>2, <1>3 DEF SaveStep

LEMMA UserStepKeeps ==
    ASSUME OneHandler, Typed, SInv, Kept, UserStep(only),
           m'.op \notin {"archive", "delete", "clear"}
    PROVE  Kept'
<1> USE OnlyOne DEF Typed
<1>1. CASE StartClear(only)
  BY <1>1, MStarted DEF StartClear, TypeOK, Steps
<1>2. CASE Confirm(only)
  BY <1>2 DEF Confirm, At, m, SInv, OpsInPlace, Kept
<1>3. ASSUME m.at \in {"idle", "review"},
             UNCHANGED <<store, active, memory, activeId, timer, queue, latest, edits>>,
             m'.at \in {"idle", "read"}, m'.op \in {"switch", "import"}
      PROVE  Kept'
  <2>1. Steady /\ Steady' /\ CarriedLatest'
    BY <1>3 DEF Steady, CarriedLatest
  <2> QED BY <1>3, <2>1, KeptQuietly
<1>4. ASSUME m.at = "idle", SavePlayerNow(only), m'.at = "saving",
             m'.op \in {"switch", "new", "copy"},
             UNCHANGED <<store, active, memory, activeId, latest, edits>>
      PROVE  Kept'
  <2>1. /\ SaveEntry(only) \in QueueEntry /\ queue' = Append(queue, SaveEntry(only))
        /\ SaveEntry(only).id = activeId /\ SaveEntry(only).real = TRUE
        /\ SaveEntry(only).content = memory
    BY <1>4, Saved
  <2>2. Steady /\ Steady' /\ CarriedLatest'
    BY <1>4 DEF Steady, CarriedLatest
  <2> QED BY <1>4, <2>1, <2>2, KeptSaving
<1>5. CASE Cancel(only)
  <2>1. /\ m.at = "review" /\ Finish(only)
        /\ UNCHANGED <<store, active, memory, activeId, timer, queue, latest, edits>>
    BY <1>5 DEF Cancel, At, m, storeVars, SInv, OpsInPlace, Kept
  <2> QED BY <1>3, <2>1, MFinished
<1>6. CASE Commit(only)
  <2> DEFINE imported == [m.base EXCEPT !.edit = edits + 1]
  <2>1. /\ m.at = "review" /\ Agrees /\ m.op = "import" /\ Steady
        /\ UNCHANGED <<store, active, activeId, queue>>
    BY <1>6 DEF Commit, At, m, storeVars, SInv, OpsInPlace, EditorInStep, Steady
  <2>2. imported.edit = edits + 1 /\ imported \in Values
    <3>1. edits + 1 \in 0..MaxEdits
      BY <1>6, NextEdit DEF Commit, TypeOK
    <3> QED BY <2>1, <3>1, MTyped, ValueTyped
  <2>3. CASE m.target \notin listed
    <3>1. Finish(only) /\ UNCHANGED <<memory, timer, edits, latest>>
      BY <1>6, <2>3 DEF Commit, m
    <3> QED BY <1>3, <2>1, <3>1, MFinished
  <2>4. CASE m.target \in listed /\ m.target = activeId
    <3>1. /\ memory' = imported /\ timer' = TRUE /\ Move(only, "refresh")
          /\ edits' = edits + 1 /\ latest' = [latest EXCEPT ![activeId] = edits + 1]
      BY <1>6, <2>4 DEF Commit, m
    <3>2. m'.at = "refresh" /\ m'.op = "import"
      BY <2>1, <3>1, MMoved
    <3>3. Steady' /\ CarriedLatest'
      BY <3>2 DEF Steady, CarriedLatest
    <3>4. /\ latest'[activeId] = edits + 1
          /\ \A id \in Ids \ {activeId} : latest'[id] = latest[id]
      BY <2>1, <3>1, ActiveStored DEF TypeOK
    <3>5. ChainToActive'
      BY <2>1 DEF Kept, ChainToActive
    <3>6. OthersStored'
      BY <2>1, <3>3, <3>4, ActiveStored DEF Kept, OthersStored
    <3>7. EditsCounted'
      BY <3>1, <3>4, EditTyped DEF Kept, EditsCounted
    <3>8. EditorLatest'
      <4>1. memory'.edit = edits + 1 /\ activeId = active
        BY <2>1, <2>2, <3>1 DEF Agrees
      <4> QED BY <2>1, <3>1, <3>4, <4>1 DEF EditorLatest
    <3> QED BY <3>2, <3>3, <3>5, <3>6, <3>7, <3>8 DEF Kept
  <2>5. CASE m.target \in listed /\ m.target # activeId
    <3>1. /\ UNCHANGED <<memory, timer, latest>> /\ edits' = edits + 1
          /\ handler' = [handler EXCEPT ![only].at = "directSave", ![only].base = imported]
      BY <1>6, <2>5 DEF Commit, m
    <3> HIDE DEF imported
    <3>2. m' = [m EXCEPT !.at = "directSave", !.base = imported]
      BY <3>1 DEF m, TypeOK
    <3>3. m'.at = "directSave" /\ m'.op = "import" /\ m'.base = imported /\ m'.target = m.target
      BY <2>1, <3>2, RecordTyped DEF HandlerState, m
    <3>4. Steady' /\ CarriedLatest'
      BY <2>1, <2>2, <2>5, <3>1, <3>3 DEF Steady, CarriedLatest
    <3>5. ChainToActive' /\ OthersStored'
      BY <2>1, <3>1, <3>4 DEF Kept, ChainToActive, OthersStored
    <3>6. EditsCounted'
      BY <3>1, EditTyped DEF Kept, EditsCounted
    <3>7. LastPending' = LastPending
      BY <2>1 DEF LastPending
    <3>8. EditorLatest'
      BY <2>1, <3>1, <3>3, <3>4, <3>7 DEF Kept, EditorLatest
    <3> QED BY <3>3, <3>4, <3>5, <3>6, <3>8 DEF Kept
  <2> QED BY <2>3, <2>4, <2>5
<1>7. ASSUME NEW id \in Ids, StartSwitch(only, id) PROVE Kept'
  <2>1. /\ m.at = "idle" /\ m'.op = "switch" /\ m'.at = "saving" /\ SavePlayerNow(only)
        /\ UNCHANGED <<store, active, memory, activeId, latest, edits>>
    BY <1>7, MStarted DEF StartSwitch, storeVars, TypeOK, Steps
  <2> QED BY <1>4, <2>1
<1>8. ASSUME NEW id \in Ids, StartCreate(only, id) PROVE Kept'
  <2>1. PICK op \in {"new", "copy"}, activate \in BOOLEAN :
          handler' = [handler EXCEPT ![only] =
              [Idle EXCEPT !.op = op, !.target = id, !.at = "saving",
                           !.previous = activeId, !.activate = activate]]
    BY <1>8 DEF StartCreate
  <2>2. /\ m.at = "idle" /\ SavePlayerNow(only)
        /\ UNCHANGED <<store, active, memory, activeId, latest, edits>>
    BY <1>8 DEF StartCreate, At, m, storeVars
  <2>3. m'.op \in {"new", "copy"} /\ m'.at = "saving"
    BY <2>1 DEF m, TypeOK, Idle
  <2> QED BY <1>4, <2>2, <2>3
<1>9. ASSUME NEW id \in Ids, StartImport(only, id) PROVE Kept'
  <2>1. /\ m.at = "idle" /\ m'.op = "import" /\ m'.at = "read"
        /\ UNCHANGED <<store, active, memory, activeId, timer, queue, latest, edits>>
    BY <1>9, MStarted DEF StartImport, storeVars, TypeOK, Steps
  <2> QED BY <1>3, <2>1
<1>10. ASSUME NEW id \in Ids, StartArchiveSave(only, id) PROVE Kept'
  BY <1>10, MStarted DEF StartArchiveSave, Steps
<1>11. ASSUME NEW id \in Ids, StartDelete(only, id) PROVE Kept'
  BY <1>11, MStarted DEF StartDelete, Steps
<1> QED BY <1>1, <1>2, <1>5, <1>6, <1>7, <1>8, <1>9, <1>10, <1>11 DEF UserStep

LEMMA HandlerStepKeeps ==
    ASSUME OneHandler, Typed, SInv, Kept, HandlerStep(only), ~Fails(only),
           m'.op \notin {"archive", "delete", "clear"}
    PROVE  Kept'
<1> USE OnlyOne DEF Typed
\* The handler gives up: nothing but its record changes.
<1>1. ASSUME Steady, Finish(only),
             UNCHANGED <<store, active, memory, activeId, timer, queue, latest, edits>>
      PROVE  Kept'
  <2>1. m'.at = "idle" /\ m'.op = "switch"
    BY <1>1, MFinished
  <2>2. Steady' /\ CarriedLatest'
    BY <2>1 DEF Steady, CarriedLatest
  <2> QED BY <1>1, <2>1, <2>2, KeptQuietly
<1>2. ChainToActive /\ EditsCounted /\ EditorLatest /\ OthersStored /\ CarriedLatest
      /\ m.op \in {"switch", "new", "copy", "import"}
  BY DEF Kept
\* Behind a save that was waited for, the chain is empty.
<1>3. ASSUME Settled, queue' = queue
      PROVE  ChainToActive' /\ queue = <<>> /\ timer = FALSE
  BY <1>3 DEF SInv, SavesInOrder, ChainToActive
<1>4. CASE SelectDone(only)
  <2>1. /\ m.at = "select" /\ m.op = "switch" /\ Steady /\ Settled
        /\ UNCHANGED <<activeId, listed, timer, queue, latest, edits>>
    BY <1>4 DEF SelectDone, At, m, SInv, OpsInPlace, Steady, Settled
  <2>2. CASE m.target \in DOMAIN store
    <3>1. /\ StoreSelect(m.target) /\ memory' = store[m.target] /\ Move(only, "refresh")
      BY <1>4, <2>2 DEF SelectDone, m
    <3>2. store' = store /\ active' = m.target
      BY <3>1, StoreSelected DEF TypeOK
    <3>3. m'.at = "refresh" /\ m'.op = "switch"
      BY <2>1, <3>1, MMoved
    <3>4. OthersStored' /\ EditorLatest'
      BY <2>1, <2>2, <3>1, <3>2, <3>3, AllStored DEF OthersStored, EditorLatest, Steady
    <3>5. EditsCounted' /\ CarriedLatest'
      BY <1>2, <2>1, <3>3 DEF EditsCounted, CarriedLatest
    <3> QED BY <1>3, <2>1, <3>3, <3>4, <3>5 DEF Kept
  <2>3. CASE m.target \notin DOMAIN store
    <3>1. Finish(only) /\ UNCHANGED <<store, active, memory>>
      BY <1>4, <2>3 DEF SelectDone, m, storeVars
    <3> QED BY <1>1, <2>1, <3>1
  <2> QED BY <2>2, <2>3
<1>5. CASE ReadDone(only)
  <2>1. /\ m.at = "read" /\ m.op \in {"copy", "import"} /\ Agrees /\ Steady
        /\ UNCHANGED <<store, active, memory, activeId, timer, queue, latest>>
    BY <1>2, <1>5 DEF ReadDone, At, m, storeVars, SInv, OpsInPlace, EditorInStep, Steady
  <2> DEFINE content == ReadTarget(m.target)
             next == CASE m.op = "copy" -> "create" [] m.op = "import" -> "review"
                       [] OTHER -> "directSave"
  <2>2. edits' = edits
    BY <1>5, <2>1 DEF ReadDone, Doing, m
  <2>3. CASE Finish(only)
    BY <1>1, <2>1, <2>2, <2>3
  <2>4. CASE m.target = activeId \/ m.target \in DOMAIN store
    <3>1. content.edit <= edits
      BY <1>2, <2>1, <2>4, MTyped, ActiveStored
      DEF ReadTarget, OthersStored, EditorLatest, EditsCounted
    <3>2. handler' = [handler EXCEPT ![only].at = next, ![only].base = content]
          \/ Finish(only)
      BY <1>5, <2>1, <2>4 DEF ReadDone, Doing, m
    <3>3. CASE handler' = [handler EXCEPT ![only].at = next, ![only].base = content]
      <4> HIDE DEF next, content
      <4>1. m' = [m EXCEPT !.at = next, !.base = content]
        BY <3>3 DEF m, TypeOK
      <4>2. m'.at = next /\ m'.op = m.op /\ m'.base = content
        BY <4>1, RecordTyped DEF HandlerState, m
      <4>3. m'.at \in {"create", "review"}
        BY <2>1, <4>2 DEF next
      <4>4. Steady' /\ CarriedLatest'
        BY <2>2, <3>1, <4>2, <4>3 DEF Steady, CarriedLatest
      <4> QED BY <2>1, <2>2, <4>2, <4>3, <4>4, KeptQuietly
    <3> QED BY <2>3, <3>2, <3>3
  <2> QED BY <1>5, <2>3, <2>4 DEF ReadDone, m
<1>6. CASE DirectSaveDone(only)
  <2>1. /\ m.at = "directSave" /\ m.op = "import" /\ Agrees /\ Steady
        /\ UNCHANGED <<activeId, listed, timer, queue, edits>>
        /\ m.base.edit = edits /\ m.target # activeId
    BY <1>2, <1>6 DEF DirectSaveDone, At, m, SInv, OpsInPlace, EditorInStep, Steady,
       CarriedLatest
  <2>2. CASE m.target \in DOMAIN store
    <3>1. /\ StoreSave(m.target, m.base) /\ Move(only, "refresh") /\ memory' = memory
          /\ latest' = [latest EXCEPT ![m.target] =
                          IF @ > m.base.edit THEN @ ELSE m.base.edit]
      BY <1>6, <2>1, <2>2 DEF DirectSaveDone, Doing, m
    <3>2. /\ DOMAIN store' = DOMAIN store /\ active' = active /\ store'[m.target] = m.base
          /\ \A p \in DOMAIN store \ {m.target} : store'[p] = store[p]
      BY <3>1, StoreSaved, MTyped DEF TypeOK
    <3>3. m'.at = "refresh" /\ m'.op = "import"
      BY <2>1, <3>1, MMoved
    <3>4. /\ latest'[m.target] = edits
          /\ \A id \in Ids \ {m.target} : latest'[id] = latest[id]
      <4>1. m.target \in Ids /\ latest[m.target] <= edits
        BY <1>2, MTyped DEF EditsCounted
      <4>2. ~(latest[m.target] > edits)
        BY <4>1, EditTyped
      <4> QED BY <2>1, <3>1, <4>1, <4>2 DEF TypeOK
    <3>5. Steady' /\ CarriedLatest' /\ Agrees'
      BY <2>1, <3>1, <3>2, <3>3 DEF Steady, CarriedLatest, SInv, Agrees
    <3>6. ChainToActive'
      BY <1>2, <2>1 DEF ChainToActive
    <3>7. EditsCounted'
      BY <1>2, <2>1, <3>4, EditTyped DEF EditsCounted
    <3>8. OthersStored'
      BY <1>2, <2>1, <3>2, <3>4, <3>5, ActiveStored DEF OthersStored
    <3>9. LastPending' = LastPending /\ latest'[activeId] = latest[activeId]
      BY <2>1, <3>2, <3>4, ActiveStored DEF LastPending
    <3>10. EditorLatest'
      BY <1>2, <2>1, <3>1, <3>2, <3>5, <3>9 DEF EditorLatest, Agrees
    <3> QED BY <3>3, <3>5, <3>6, <3>7, <3>8, <3>10 DEF Kept
  <2>3. CASE m.target \notin DOMAIN store
    <3>1. Finish(only) /\ UNCHANGED <<store, active, memory, latest>>
      BY <1>6, <2>3 DEF DirectSaveDone, m, storeVars
    <3> QED BY <1>1, <2>1, <3>1
  <2> QED BY <2>2, <2>3
<1>7. CASE CreateDone(only)
  <2> DEFINE edit == IF Doing(only, "copy") THEN m.base.edit ELSE 0
  <2>1. /\ m.at = "create" /\ m.op \in {"new", "copy"} /\ Settled
        /\ UNCHANGED <<memory, activeId, listed, timer, queue, edits>>
        /\ Move(only, IF m.activate THEN "load" ELSE "restore")
    BY <1>7 DEF CreateDone, At, m, SInv, OpsInPlace, Settled
  <2>2. PICK id \in Ids \ used : /\ StoreCreate(id, [owner |-> id, edit |-> edit])
                                 /\ latest' = [latest EXCEPT ![id] = edit]
    BY <1>7 DEF CreateDone, m
  <2>3. edit \in 0..MaxEdits /\ edit <= edits
    <3>1. edits >= 0
      BY EditTyped
    <3> QED BY <1>2, <2>1, <3>1, MTyped, ValueTyped, SessionAssumption
            DEF CarriedLatest, Doing, m
  <2> HIDE DEF edit
  <2> DEFINE v == [owner |-> id, edit |-> edit]
  <2>4. v \in Values /\ v.edit = edit /\ StoreCreate(id, v)
    BY <2>2, <2>3, SessionAssumption
  <2> HIDE DEF v
  <2>5. /\ DOMAIN store' = DOMAIN store \cup {id} /\ store'[id].edit = edit
        /\ id \notin DOMAIN store
        /\ \A p \in DOMAIN store : store'[p] = store[p]
    <3>1. /\ DOMAIN store' = DOMAIN store \cup {id} /\ store'[id] = v
          /\ id \notin DOMAIN store
          /\ \A p \in DOMAIN store : store'[p] = store[p]
      BY <2>4, StoreCreated DEF TypeOK
    <3> QED BY <2>4, <3>1
  <2>6. m'.at \in {"load", "restore"} /\ m'.op = m.op
    BY <2>1, MMoved
  <2>7. latest'[id] = edit /\ \A p \in Ids \ {id} : latest'[p] = latest[p]
    BY <2>2 DEF TypeOK
  <2>8. \A p \in DOMAIN store : store[p].edit = latest[p]
    BY <2>1, AllStored
  <2>9. OthersStored'
    <3>1. DOMAIN store \subseteq Ids
      BY DEF TypeOK, StoreTypeOK
    <3> QED BY <2>5, <2>7, <2>8, <3>1 DEF OthersStored
  <2>10. EditsCounted'
    BY <1>2, <2>1, <2>3, <2>7 DEF EditsCounted
  <2>11. EditorLatest' /\ CarriedLatest'
    BY <2>6 DEF EditorLatest, CarriedLatest, Steady
  <2> QED BY <1>3, <2>1, <2>6, <2>9, <2>10, <2>11 DEF Kept
<1>8. CASE RestoreDone(only)
  <2>1. /\ m.at = "restore" /\ m.op \in {"new", "copy"} /\ Settled /\ ~Steady
        /\ m.previous \in DOMAIN store
        /\ UNCHANGED <<memory, activeId, listed, timer, queue, latest, edits>>
    BY <1>8 DEF RestoreDone, At, m, SInv, OpsInPlace, Remembers, Settled, Steady
  <2>2. store' = store /\ Move(only, "load")
    BY <1>8, <2>1, StoreSelected DEF RestoreDone, m, TypeOK
  <2>3. m'.at = "load" /\ m'.op = m.op
    BY <2>2, MMoved
  <2>4. OthersStored' /\ EditsCounted'
    BY <1>2, <2>1, <2>2 DEF OthersStored, EditsCounted
  <2>5. EditorLatest' /\ CarriedLatest'
    BY <2>3 DEF EditorLatest, CarriedLatest, Steady
  <2> QED BY <1>3, <2>1, <2>3, <2>4, <2>5 DEF Kept
<1>9. CASE LoadDone(only)
  <2>1. /\ m.at = "load" /\ m.op \in {"new", "copy"} /\ Settled /\ ~Steady
        /\ memory' = store[active] /\ Move(only, "refresh")
        /\ UNCHANGED <<store, active, activeId, listed, timer, queue, latest, edits>>
    BY <1>2, <1>9 DEF LoadDone, At, m, SInv, OpsInPlace, Settled, storeVars, Steady
  <2>2. m'.at = "refresh" /\ m'.op = m.op
    BY <2>1, MMoved
  <2>3. OthersStored' /\ EditsCounted'
    BY <1>2, <2>1 DEF OthersStored, EditsCounted
  <2>4. memory'.edit = latest[active]
    BY <1>2, <2>1 DEF OthersStored, ActiveExists
  <2>5. EditorLatest' /\ CarriedLatest'
    BY <2>1, <2>2, <2>4 DEF EditorLatest, CarriedLatest, Steady
  <2> QED BY <1>3, <2>1, <2>2, <2>3, <2>5 DEF Kept
<1>10. CASE RefreshDone(only)
  <2>1. /\ m.at = "refresh" /\ activeId' = active
        /\ UNCHANGED <<store, active, memory, timer, queue, latest, edits>>
        /\ Finish(only)
    BY <1>2, <1>10 DEF RefreshDone, At, Doing, m, storeVars
  <2>2. m'.at = "idle" /\ m'.op = "switch"
    BY <2>1, MFinished
  <2>3. CASE m.op = "import"
    <3>1. Steady /\ activeId' = activeId
      BY <2>1, <2>3 DEF SInv, EditorInStep, Steady, Agrees
    <3> QED BY <1>1, <2>1, <3>1
  <2>4. CASE m.op \in {"switch", "new", "copy"}
    <3>1. Settled
      BY <2>1, <2>4 DEF Settled
    <3>2. OthersStored' /\ EditsCounted'
      BY <1>2, <2>1, <3>1, AllStored DEF OthersStored, EditsCounted
    <3>3. LastPending' = store[active].edit
      BY <1>3, <2>1, <3>1 DEF LastPending
    <3>4. EditorLatest' /\ CarriedLatest'
      BY <1>2, <2>1, <2>2, <3>1, <3>3, AllStored DEF EditorLatest, CarriedLatest, ActiveExists
    <3> QED BY <1>3, <2>1, <2>2, <3>1, <3>2, <3>4 DEF Kept
  <2> QED BY <1>2, <2>3, <2>4
<1>11. CASE DeleteDone(only) \/ ClearDone(only) \/ ResaveDone(only)
  BY <1>2, <1>11 DEF DeleteDone, ClearDone, ResaveDone, At, m, SInv, OpsInPlace
<1> QED BY <1>4, <1>5, <1>6, <1>7, <1>8, <1>9, <1>10, <1>11 DEF HandlerStep

-----------------------------------------------------------------------------
(* The theorems. *)

LEMMA SafeInit == ASSUME OneHandler, Init PROVE SInv /\ LInv
<1> USE OnlyOne
<1>1. /\ m = Idle /\ m.at = "idle" /\ m.op = "switch" /\ Agrees /\ Isolation
      /\ queue = <<>> /\ timer = FALSE
  BY IdleTyped DEF Init, InitWith, m, Agrees, Isolation
<1>2. 1..Len(queue) = {}
  BY <1>1
<1>3. SInv
  BY <1>1, <1>2 DEF SInv, OpsInPlace, SavesInOrder, Settled, Waiting, EditorInStep, Remembers
<1>4. /\ \A id \in DOMAIN store : store[id].edit = 0
      /\ \A id \in Ids : latest[id] = 0
      /\ edits = 0 /\ memory.edit = 0 /\ active \in Ids /\ activeId = active
      /\ active \in DOMAIN store /\ DOMAIN store \subseteq Ids
  BY DEF Init, InitWith
<1>5. LastPending = 0
  BY <1>1, <1>4 DEF LastPending
<1>6. Kept
  BY <1>1, <1>2, <1>4, <1>5
  DEF Kept, ChainToActive, OthersStored, EditorLatest, CarriedLatest, EditsCounted
<1> QED BY <1>3, <1>6 DEF LInv

LEMMA SafeStep ==
    ASSUME OneHandler, Typed, SInv, [Next]_vars
    PROVE  SInv'
<1>1. CASE Next
  BY <1>1, OnlyOne, PageStepSafe, UserStepSafe, HandlerStepSafe DEF Next
<1>2. CASE UNCHANGED vars
  BY <1>2 DEF vars, pageVars, storeVars, sessionVars, SInv, Isolation, OpsInPlace, SavesInOrder,
     Settled, Waiting, EditorInStep, Steady, Agrees, Remembers, m
<1> QED BY <1>1, <1>2

LEMMA LossStep ==
    ASSUME OneHandler, Next, lossy \in BOOLEAN, lossy' = FALSE
    PROVE  /\ lossy = FALSE /\ ~SaveRejected /\ ~Fails(only)
           /\ m'.op \notin {"archive", "delete", "clear"}
<1>1. ~(lossy \/ MayLose)
  BY DEF Next
<1> QED BY <1>1, OnlyOne DEF MayLose, m

LEMMA KeepStep ==
    ASSUME OneHandler, Typed, SInv, LInv, [Next]_vars
    PROVE  LInv'
<1> SUFFICES ASSUME lossy' = FALSE PROVE Kept'
  BY DEF LInv
<1>0. lossy \in BOOLEAN
  BY DEF Typed, TypeOK
<1>1. CASE Next
  <2>1. /\ lossy = FALSE /\ ~SaveRejected /\ ~Fails(only)
        /\ m'.op \notin {"archive", "delete", "clear"}
    BY <1>0, <1>1, LossStep
  <2>2. Kept
    BY <2>1 DEF LInv
  <2>3. \/ Edit \/ TimerFires \/ CalculateSaves \/ SaveStep
        \/ HandlerStep(only) \/ UserStep(only)
    BY <1>1, OnlyOne DEF Next
  <2> QED BY <2>1, <2>2, <2>3, PageStepKeeps, UserStepKeeps, HandlerStepKeeps
<1>2. CASE UNCHANGED vars
  <2>1. Kept
    BY <1>2 DEF LInv, vars
  <2> QED BY <1>2, <2>1 DEF vars, pageVars, storeVars, sessionVars, Kept, ChainToActive,
          OthersStored, EditorLatest, CarriedLatest, EditsCounted, LastPending, Steady, m
<1> QED BY <1>1, <1>2

THEOREM Safe == ASSUME OneHandler PROVE Spec => [](Typed /\ SInv /\ LInv)
<1>1. Init => SInv /\ LInv
  BY SafeInit
<1>2. Typed /\ SInv /\ LInv /\ [Next]_vars => (SInv /\ LInv)'
  BY SafeStep, KeepStep
<1>3. Spec => []Typed
  BY TypeCorrect
<1> QED BY <1>1, <1>2, <1>3, PTL DEF Spec

\* Whatever the page does between its awaits, the store never holds under one
\* profile what the user entered for another (player.js, actions/profile.js):
\* a save of the chain carries the profile it was asked for.
THEOREM ProfilesIsolated == ASSUME OneHandler PROVE Spec => []Isolation
<1>1. SInv => Isolation
  BY DEF SInv
<1> QED BY <1>1, Safe, PTL

\* When no handler, save or timer is pending, the editor shows the active
\* profile of the store and the page knows the store's profiles (the handlers
\* refresh only as their last step).
THEOREM EditorFollows == ASSUME OneHandler PROVE Spec => []EditorShowsActive
<1>1. Typed /\ SInv => EditorShowsActive
  BY OnlyOne DEF SInv, EditorShowsActive, EditorInStep, Steady, Agrees, Quiet, NoHandler, At, m
<1> QED BY <1>1, Safe, PTL

\* Unless a call was rejected, or a handler ran that does not wait for the
\* saves, nothing pending means nothing lost: every profile is stored with its
\* last edit (flushPlayerSave before the switch, the copy and the new profile).
THEOREM EditsKept == ASSUME OneHandler PROVE Spec => []NoLostEdit
<1>1. ASSUME Typed, LInv, Quiet, ~lossy
      PROVE  \A id \in DOMAIN store : store[id].edit = latest[id]
  <2>1. lossy = FALSE
    BY <1>1 DEF Typed, TypeOK
  <2>2. Kept
    BY <1>1, <2>1 DEF LInv
  <2>3. m.at = "idle" /\ queue = <<>> /\ ~timer
    BY <1>1, OnlyOne DEF Quiet, NoHandler, At, m
  <2>4. timer = FALSE
    BY <1>1, <2>3 DEF Typed, TypeOK
  <2>5. store[activeId].edit = latest[activeId]
    BY <2>2, <2>3, <2>4 DEF Kept, EditorLatest, LastPending, Steady
  <2> QED BY <2>2, <2>5 DEF Kept, OthersStored
<1>2. Typed /\ LInv => NoLostEdit
  BY <1>1 DEF NoLostEdit, Stored
<1> QED BY <1>2, Safe, PTL
=============================================================================
