----------------------------- MODULE UserStorage -----------------------------
(***************************************************************************)
(* apps/web/src/storage/user.js: player profiles in IndexedDB.             *)
(*                                                                         *)
(* Every getValue, putValue, deleteValue, clearStore and deleteDatabase is *)
(* a transaction of its own with an await after it, so one action below is *)
(* one transaction.  Exported functions run concurrently: two tabs share   *)
(* the database, and one page may have several calls in flight.  A call    *)
(* stops between any two transactions when its page is closed.             *)
(*                                                                         *)
(* Profile metadata (name, updatedAt) is left out; the list is the set of  *)
(* the identifiers in it, and "the first profile" is any member.           *)
(***************************************************************************)
EXTENDS FiniteSets, Integers

CONSTANTS Callers,    \* calls that may be in flight at the same time
          Ids, Default,
          Contents,   \* configurations a caller may save
          Sample,     \* samplePlayerConfig()
          Legacy,     \* the configuration of the single-profile format
          None,
          LegacyIn,   \* where that configuration may be: {"key", "db"} or less
          Ops         \* operations the callers may invoke

OpNames == {"load", "save", "list", "select", "create", "rename", "delete", "clear"}

ASSUME StorageAssumption ==
    /\ Default \in Ids
    /\ IsFiniteSet(Ids)
    /\ None \notin Ids \cup Contents \cup {Sample, Legacy}
    /\ Legacy \notin Contents \cup {Sample}
    /\ LegacyIn \subseteq {"key", "db"}
    /\ Ops \subseteq OpNames

Values == Contents \cup {Sample, Legacy}
NoList == {}          \* the key PLAYER_PROFILES_KEY is absent or empty

VARIABLES list,       \* value of player-config-profiles
          config,     \* values of player-config:<id>
          active,     \* value of active-player-config-id
          legacyKey,  \* value of player-config, the old key
          legacyDb,   \* what the old database holds
          used,       \* identifiers handed out so far (they are unique)
          call,       \* the calls in flight
          cut         \* "some" once a page was closed during a call, else "none"; an
                      \* earlier page may have been closed before its first transaction

db == <<list, config, active, legacyKey, legacyDb>>
vars == <<list, config, active, legacyKey, legacyDb, used, call, cut>>

Pcs == {"idle", "getList", "getLegacyKey", "getLegacyDb", "takeLegacyDb",
        "newList", "newConfig", "newActive", "newDropKey", "newDropDb",
        "dropKey", "dropDb", "putList", "getActive", "putActive", "getConfig",
        "putSample", "body", "touchGet", "touchPut", "createConfig",
        "createActive", "deleteList", "deleteActive", "clearStore", "clearDb"}

Idle == [op |-> "list", pc |-> "idle", id |-> Default, val |-> Sample,
         profs |-> {}, act |-> Default, legacy |-> None]

CallRecord == [op : OpNames, pc : Pcs, id : Ids, val : Values,
               profs : SUBSET Ids, act : Ids,
               legacy : Values \cup {None}]

TypeOK ==
    /\ list \in SUBSET Ids
    /\ config \in [Ids -> Values \cup {None}]
    /\ active \in Ids \cup {None}
    /\ legacyKey \in {Legacy, None}
    /\ legacyDb \in {Legacy, None}
    /\ used \in SUBSET Ids
    /\ call \in [Callers -> CallRecord]
    /\ cut \in {"none", "some"}

Init ==
    /\ list = NoList
    /\ config = [id \in Ids |-> None]
    /\ active = None
    /\ legacyKey \in IF "key" \in LegacyIn THEN {Legacy, None} ELSE {None}
    /\ legacyDb \in IF "db" \in LegacyIn THEN {Legacy, None} ELSE {None}
    /\ used = {Default}
    /\ call = [c \in Callers |-> Idle]
    /\ cut \in {"none", "some"}

-----------------------------------------------------------------------------
At(c, pc) == call[c].pc = pc
Goto(c, pc) == call' = [call EXCEPT ![c].pc = pc]
Finish(c) == call' = [call EXCEPT ![c] = Idle]

\* A caller invokes an exported function.  createPlayerConfig draws an
\* identifier nobody had before (time plus random); the others name a profile
\* that exists or existed.
Begin(c) ==
    /\ At(c, "idle")
    /\ \E op \in Ops, id \in Ids, v \in Contents \cup {Sample} :
         /\ IF op = "create" THEN id \notin used ELSE id \in used
         /\ op \in {"list", "clear"} => id = Default
         /\ IF op \in {"save", "create"} THEN v # Sample ELSE v = Sample
         /\ used' = used \cup {id}
         /\ call' = [call EXCEPT ![c] =
              [Idle EXCEPT !.op = op, !.id = id, !.val = v,
                 !.pc = IF op = "clear" THEN "clearStore" ELSE "getList"]]
    /\ UNCHANGED <<db, cut>>

\* The page that runs the call is closed.
Close(c) ==
    /\ ~At(c, "idle")
    /\ Finish(c)
    /\ cut' = "some"
    /\ UNCHANGED <<db, used>>

-----------------------------------------------------------------------------
(* ensurePlayerProfiles: the prefix of every exported function.            *)

GetList(c) ==
    /\ At(c, "getList")
    /\ call' = [call EXCEPT ![c].profs = list,
                            ![c].pc = IF list = NoList THEN "getLegacyKey"
                                                       ELSE "dropKey"]
    /\ UNCHANGED <<db, used, cut>>

DropKey(c) ==
    /\ At(c, "dropKey")
    /\ legacyKey' = None
    /\ Goto(c, "dropDb")
    /\ UNCHANGED <<list, config, active, legacyDb, used, cut>>

DropDb(c) ==
    /\ At(c, "dropDb")
    /\ legacyDb' = None
    /\ Goto(c, "putList")
    /\ UNCHANGED <<list, config, active, legacyKey, used, cut>>

\* The normalised list is written back.
PutList(c) ==
    /\ At(c, "putList")
    /\ list' = call[c].profs
    /\ Goto(c, "getActive")
    /\ UNCHANGED <<config, active, legacyKey, legacyDb, used, cut>>

ActiveOrFirst(c) == IF active \in call[c].profs THEN {active} ELSE call[c].profs

GetActive(c) ==
    /\ At(c, "getActive")
    /\ \E a \in ActiveOrFirst(c) :
         call' = [call EXCEPT ![c].act = a,
                    ![c].pc = IF a = active THEN "getConfig" ELSE "putActive"]
    /\ UNCHANGED <<db, used, cut>>

PutActive(c) ==
    /\ At(c, "putActive")
    /\ active' = call[c].act
    /\ Goto(c, "getConfig")
    /\ UNCHANGED <<list, config, legacyKey, legacyDb, used, cut>>

NeedsSampleNever(c) == FALSE
NeedsSample(c) == config[call[c].act] = None

GetConfig(c) ==
    /\ At(c, "getConfig")
    /\ Goto(c, IF NeedsSample(c) THEN "putSample" ELSE "body")
    /\ UNCHANGED <<db, used, cut>>

PutSample(c) ==
    /\ At(c, "putSample")
    /\ config' = [config EXCEPT ![call[c].act] = Sample]
    /\ Goto(c, "body")
    /\ UNCHANGED <<list, active, legacyKey, legacyDb, used, cut>>

-----------------------------------------------------------------------------
(* The first start: the old configuration becomes the default profile.     *)

GetLegacyKey(c) ==
    /\ At(c, "getLegacyKey")
    /\ call' = [call EXCEPT ![c].legacy = legacyKey,
                            ![c].pc = IF legacyKey = None THEN "getLegacyDb"
                                                          ELSE "newList"]
    /\ UNCHANGED <<db, used, cut>>

\* takeLegacyPlayerConfig: read the old database, then delete it.
GetLegacyDb(c) ==
    /\ At(c, "getLegacyDb")
    /\ call' = [call EXCEPT ![c].legacy = legacyDb, ![c].pc = "takeLegacyDb"]
    /\ UNCHANGED <<db, used, cut>>

TakeLegacyDb(c) ==
    /\ At(c, "takeLegacyDb")
    /\ legacyDb' = None
    /\ Goto(c, "newList")
    /\ UNCHANGED <<list, config, active, legacyKey, used, cut>>

\* createDefaultPlayerProfile(db, player = samplePlayerConfig())
MigratedSampleOnly(c) == Sample
Migrated(c) == IF call[c].legacy = None THEN Sample ELSE call[c].legacy

NewList(c) ==
    /\ At(c, "newList")
    /\ list' = {Default}
    /\ Goto(c, "newConfig")
    /\ UNCHANGED <<config, active, legacyKey, legacyDb, used, cut>>

NewConfig(c) ==
    /\ At(c, "newConfig")
    /\ config' = [config EXCEPT ![Default] = Migrated(c)]
    /\ Goto(c, "newActive")
    /\ UNCHANGED <<list, active, legacyKey, legacyDb, used, cut>>

NewActive(c) ==
    /\ At(c, "newActive")
    /\ active' = Default
    /\ Goto(c, "newDropKey")
    /\ UNCHANGED <<list, config, legacyKey, legacyDb, used, cut>>

NewDropKey(c) ==
    /\ At(c, "newDropKey")
    /\ legacyKey' = None
    /\ Goto(c, "newDropDb")
    /\ UNCHANGED <<list, config, active, legacyDb, used, cut>>

NewDropDb(c) ==
    /\ At(c, "newDropDb")
    /\ legacyDb' = None
    /\ call' = [call EXCEPT ![c].profs = {Default}, ![c].act = Default,
                            ![c].pc = "body"]
    /\ UNCHANGED <<list, config, active, legacyKey, used, cut>>

-----------------------------------------------------------------------------
(* What follows in each exported function.  A failed check throws.         *)

Reject(c) ==
    /\ At(c, "body")
    /\ \/ /\ call[c].op \in {"load", "save", "select", "rename", "delete"}
          /\ call[c].id \notin call[c].profs
       \/ /\ call[c].op = "delete"
          /\ Cardinality(call[c].profs) <= 1
    /\ Finish(c)
    /\ UNCHANGED <<db, used, cut>>

\* loadPlayerConfig, listPlayerConfigs and the end of clearPlayerConfigCache
\* change nothing more.
Reply(c) ==
    /\ At(c, "body")
    /\ call[c].op \in {"load", "list", "clear"}
    /\ call[c].op = "load" => call[c].id \in call[c].profs
    /\ Finish(c)
    /\ UNCHANGED <<db, used, cut>>

SaveConfig(c) ==
    /\ At(c, "body") /\ call[c].op = "save"
    /\ call[c].id \in call[c].profs
    /\ config' = [config EXCEPT ![call[c].id] = call[c].val]
    /\ Goto(c, "touchGet")
    /\ UNCHANGED <<list, active, legacyKey, legacyDb, used, cut>>

\* touchPlayerProfile reads the list again and writes it back.
TouchGet(c) ==
    /\ At(c, "touchGet")
    /\ IF call[c].id \in list
         THEN call' = [call EXCEPT ![c].profs = list, ![c].pc = "touchPut"]
         ELSE Finish(c)
    /\ UNCHANGED <<db, used, cut>>

TouchPut(c) ==
    /\ At(c, "touchPut")
    /\ list' = call[c].profs
    /\ Finish(c)
    /\ UNCHANGED <<config, active, legacyKey, legacyDb, used, cut>>

Select(c) ==
    /\ At(c, "body") /\ call[c].op = "select"
    /\ call[c].id \in call[c].profs
    /\ active' = call[c].id
    /\ Finish(c)
    /\ UNCHANGED <<list, config, legacyKey, legacyDb, used, cut>>

CreateList(c) ==
    /\ At(c, "body") /\ call[c].op = "create"
    /\ list' = call[c].profs \cup {call[c].id}
    /\ Goto(c, "createConfig")
    /\ UNCHANGED <<config, active, legacyKey, legacyDb, used, cut>>

CreateConfig(c) ==
    /\ At(c, "createConfig")
    /\ config' = [config EXCEPT ![call[c].id] = call[c].val]
    /\ Goto(c, "createActive")
    /\ UNCHANGED <<list, active, legacyKey, legacyDb, used, cut>>

CreateActive(c) ==
    /\ At(c, "createActive")
    /\ active' = call[c].id
    /\ Finish(c)
    /\ UNCHANGED <<list, config, legacyKey, legacyDb, used, cut>>

\* renamePlayerConfig writes the list it read at the start.
Rename(c) ==
    /\ At(c, "body") /\ call[c].op = "rename"
    /\ call[c].id \in call[c].profs
    /\ list' = call[c].profs
    /\ Finish(c)
    /\ UNCHANGED <<config, active, legacyKey, legacyDb, used, cut>>

MayDelete(c) == call[c].id \in call[c].profs /\ Cardinality(call[c].profs) > 1

NextActiveKept(c) == {call[c].act}
NextActive(c) ==
    IF call[c].act = call[c].id THEN call[c].profs \ {call[c].id}
                                ELSE {call[c].act}

DeleteConfig(c) ==
    /\ At(c, "body") /\ call[c].op = "delete"
    /\ MayDelete(c)
    /\ config' = [config EXCEPT ![call[c].id] = None]
    /\ \E a \in NextActive(c) :
         call' = [call EXCEPT ![c].act = a, ![c].pc = "deleteList"]
    /\ UNCHANGED <<list, active, legacyKey, legacyDb, used, cut>>

RemainingAll(c) == call[c].profs
RemainingReread(c) == list \ {call[c].id}
Remaining(c) == call[c].profs \ {call[c].id}

DeleteList(c) ==
    /\ At(c, "deleteList")
    /\ list' = Remaining(c)
    /\ Goto(c, "deleteActive")
    /\ UNCHANGED <<config, active, legacyKey, legacyDb, used, cut>>

DeleteActive(c) ==
    /\ At(c, "deleteActive")
    /\ active' = call[c].act
    /\ Finish(c)
    /\ UNCHANGED <<list, config, legacyKey, legacyDb, used, cut>>

ClearStore(c) ==
    /\ At(c, "clearStore")
    /\ list' = NoList
    /\ config' = [id \in Ids |-> None]
    /\ active' = None
    /\ legacyKey' = None
    /\ Goto(c, "clearDb")
    /\ UNCHANGED <<legacyDb, used, cut>>

ClearDb(c) ==
    /\ At(c, "clearDb")
    /\ legacyDb' = None
    /\ Goto(c, "getList")
    /\ UNCHANGED <<list, config, active, legacyKey, used, cut>>

-----------------------------------------------------------------------------
Ensure(c) ==
    \/ GetList(c) \/ DropKey(c) \/ DropDb(c) \/ PutList(c) \/ GetActive(c)
    \/ PutActive(c) \/ GetConfig(c) \/ PutSample(c)

Migrate(c) ==
    \/ GetLegacyKey(c) \/ GetLegacyDb(c) \/ TakeLegacyDb(c) \/ NewList(c)
    \/ NewConfig(c) \/ NewActive(c) \/ NewDropKey(c) \/ NewDropDb(c)

Body(c) ==
    \/ Reject(c) \/ Reply(c) \/ SaveConfig(c) \/ TouchGet(c) \/ TouchPut(c)
    \/ Select(c) \/ CreateList(c) \/ CreateConfig(c) \/ CreateActive(c)
    \/ Rename(c) \/ DeleteConfig(c) \/ DeleteList(c) \/ DeleteActive(c)
    \/ ClearStore(c) \/ ClearDb(c)

Run(c) == Ensure(c) \/ Migrate(c) \/ Body(c)

Next == \E c \in Callers : Begin(c) \/ Close(c) \/ Run(c)

Spec == Init /\ [][Next]_vars

\* The browser completes the transactions a page has asked for, and the page
\* asks for the next one.  A call to begin with is up to the user, except
\* that starting the application loads the configuration.
FairSpec == Spec /\ \A c \in Callers : WF_vars(Run(c)) /\ WF_vars(Begin(c))

-----------------------------------------------------------------------------
(* The store a sequential client sees: the database with the remaining     *)
(* writes of the call in flight, or of the pending migration, applied.     *)

caller == CHOOSE c \in Callers : TRUE
Migrating == At(caller, "takeLegacyDb") \/ At(caller, "newList") \/ At(caller, "newConfig")
Creating == At(caller, "createConfig") \/ At(caller, "createActive")
Deleting == At(caller, "deleteList") \/ At(caller, "deleteActive")

PendingDefault ==
    IF At(caller, "clearDb") THEN Sample
    ELSE IF Migrating THEN Migrated(caller)
    ELSE IF Legacy \in {legacyKey, legacyDb} THEN Legacy ELSE Sample

visibleStore ==
    IF list = NoList \/ At(caller, "newConfig")
      THEN [id \in {Default} |-> PendingDefault]
      ELSE [id \in (IF Deleting THEN list \ {call[caller].id} ELSE list) |->
              IF Creating /\ id = call[caller].id THEN call[caller].val
              ELSE IF config[id] = None THEN Sample ELSE config[id]]

visibleActive ==
    IF list = NoList \/ At(caller, "newConfig") \/ At(caller, "newActive")
      THEN Default
      ELSE IF Creating THEN call[caller].id
      ELSE IF Deleting THEN call[caller].act ELSE active

Store == INSTANCE ProfileStore WITH store <- visibleStore, active <- visibleActive

-----------------------------------------------------------------------------
(* Properties *)

\* "At least one profile is kept" (deletePlayerConfig): whatever calls
\* interleave and wherever pages are closed, no call ever writes an empty
\* list over a list of profiles; only clearing the store removes it.
KeepsOneProfile ==
    [][list # NoList => list' # NoList \/ \E c \in Callers : ClearStore(c)]_vars

\* Once ensurePlayerProfiles has returned to a single caller, the active
\* profile is listed and has a configuration, even when earlier calls were
\* cut off between any two of their transactions.
EnsuredActive ==
    \A c \in Callers : At(c, "body") =>
        /\ active = call[c].act
        /\ active \in list
        /\ config[active] # None

Quiet == \A c \in Callers : At(c, "idle")

\* Until a page is closed during a call, a single caller leaves the metadata
\* list and the configurations in agreement: no listed profile without a
\* configuration and no configuration of an unlisted profile.
ListMatchesConfigs ==
    Quiet /\ cut = "none" => list = {id \in Ids : config[id] # None}

\* The migration order of docs/persistence.md: an old key or database is
\* deleted only when the default profile holds what it held, also when pages
\* are closed in the middle.
OldDataDeletedLast ==
    [][(legacyKey # None /\ legacyKey' = None) \/ (legacyDb # None /\ legacyDb' = None)
         => config[Default] = Legacy]_vars

\* A start after an upgrade ends with the old configuration in the default
\* profile and nothing left in the old places, unless a page is closed or the
\* user clears the whole store.
MigrationCompletes ==
    (legacyKey = Legacy \/ legacyDb = Legacy)
      ~> \/ cut = "some"
         \/ /\ legacyKey = None /\ legacyDb = None
            /\ config[Default] = Legacy \/ \E c \in Callers : call[c].op = "clear"

\* Calls made one after the other behave as the operations of a profile store
\* that take effect at once, until a page is closed during a call; migration
\* and repair are invisible in it.
ImplementsStore ==
    /\ Store!StoreInit
    /\ [][cut' = "none" => Store!StoreNext]_<<visibleStore, visibleActive>>
=============================================================================
