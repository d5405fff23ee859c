----------------------------- MODULE LocalStore -----------------------------
(***************************************************************************)
(* The profiles of the desktop client: LocalPlayerConfigStore of           *)
(* crates/storage-local/src/lib.rs behind the commands of                  *)
(* apps/desktop/src-tauri/src/main.rs, and the page that opens, refreshes  *)
(* and repairs its list of profiles (app/lifecycle.js, app/player.js).     *)
(*                                                                         *)
(* The commands hold one mutex, so a command is the sequence of disks that *)
(* its file writes leave one after the other; each write replaces a whole  *)
(* file.  Between two writes the program may be killed, and a write may    *)
(* fail; the command then returns the error and leaves what it wrote.      *)
(* Names and times of profiles are left out.                               *)
(***************************************************************************)
EXTENDS Integers, FiniteSets, Sequences

CONSTANTS Ids,      \* identifiers that unique_config_id hands out
          Default,  \* the one it hands out first
          Values,   \* complete player configurations
          Sample,   \* samplePlayerConfig(), default_user_config()
          Absent      \* no file, no identifier

ASSUME LocalAssumption ==
    /\ Default \in Ids /\ Sample \in Values
    /\ Absent \notin Ids \cup Values

VARIABLES reliable,  \* no write fails and no crash interrupts a command
          disk,      \* the three kinds of files
          command,   \* the command that holds the mutex, and the disk it found
          writes,    \* the disks its remaining writes will leave
          page,      \* the page: what it waits for, shows and believes
          used,      \* identifiers handed out
          expected,  \* contents the user may find in a profile
          deleting,  \* profiles with an unconfirmed deletion
          deleted    \* profiles whose deletion was confirmed

ghosts == <<expected, deleting, deleted>>
localVars == <<reliable, disk, command, writes, page, used, expected, deleting, deleted>>

Listed(d) == {d.list[i] : i \in DOMAIN d.list}
Disk == [list : Seq(Ids), configs : [Ids -> Values \cup {Absent}],
         active : Ids \cup {Absent}]
CommandKinds == {"none", "first", "save", "saveActive", "select", "repair", "create", "rename", "delete"}
Page == [at : {"closed", "list", "relist", "init", "ready"}, booting : BOOLEAN,
         profiles : Seq(Ids), active : Ids \cup {Absent}, content : Values]

EmptyDisk == [list |-> <<>>, configs |-> [id \in Ids |-> Absent], active |-> Absent]
NoCommand == [kind |-> "none", id |-> Absent, value |-> Sample, before |-> EmptyDisk]
ClosedPage == [at |-> "closed", booting |-> TRUE, profiles |-> <<>>,
               active |-> Absent, content |-> Sample]

LocalTypeOK ==
    /\ reliable \in BOOLEAN
    /\ disk \in Disk
    /\ Cardinality(Listed(disk)) = Len(disk.list)
    /\ command \in [kind : CommandKinds, id : Ids \cup {Absent}, value : Values, before : Disk]
    /\ writes \in Seq(Disk)
    /\ page \in Page
    /\ used \in SUBSET Ids
    /\ expected \in [Ids -> SUBSET Values]
    /\ deleting \in SUBSET Ids /\ deleted \in SUBSET Ids

LocalInit ==
    /\ reliable \in BOOLEAN
    /\ disk = EmptyDisk
    /\ command = NoCommand /\ writes = <<>>
    /\ page = ClosedPage
    /\ used = {}
    /\ expected = [id \in Ids |-> {}]
    /\ deleting = {} /\ deleted = {}

-----------------------------------------------------------------------------
(* What the commands write *)

SetConfig(d, id, v) == [d EXCEPT !.configs[id] = v]
SetActive(d, id) == [d EXCEPT !.active = id]
Push(d, id) == [d EXCEPT !.list = Append(@, id)]

\* retain; a profile is in the list once.
Retain(d, id) ==
    LET at == CHOOSE i \in DOMAIN d.list : d.list[i] = id
    IN  [d EXCEPT !.list = [i \in 1 .. Len(@) - 1 |-> IF i < at THEN @[i] ELSE @[i + 1]]]

\* create_user_config_value: the file, the list, the active profile.
CreateListFirst(d, id, v) ==
    LET d1 == Push(d, id)
        d2 == SetConfig(d1, id, v)
    IN  <<d1, d2, SetActive(d2, id)>>
Create(d, id, v) ==
    LET d1 == SetConfig(d, id, v)
        d2 == Push(d1, id)
    IN  <<d1, d2, SetActive(d2, id)>>

\* save_user_config_value: the file and its time in the list.
Save(d, id, v) == <<SetConfig(d, id, v), SetConfig(d, id, v)>>

\* delete_user_config: the file if there is one, the list, and the active
\* profile if it was this one.
DeleteKeepsActive(d, id) ==
    LET d1 == SetConfig(d, id, Absent)
    IN  <<d1, Retain(d1, id)>>
Delete(d, id) ==
    LET d1 == SetConfig(d, id, Absent)
        d2 == Retain(d1, id)
    IN  (IF d.configs[id] # Absent THEN <<d1>> ELSE <<>>) \o <<d2>>
        \o (IF d.active = id THEN <<SetActive(d2, Head(d2.list))>> ELSE <<>>)

\* load_user_config_value; a missing file becomes the sample in the page.
Content(d, id) == IF id = Absent \/ d.configs[id] = Absent THEN Sample ELSE d.configs[id]

-----------------------------------------------------------------------------
(* The page calls commands, one at a time *)

Free == command.kind = "none"
Run(kind, id, v, disks) ==
    /\ Free
    /\ command' = [kind |-> kind, id |-> id, value |-> v, before |-> disk]
    /\ writes' = disks

StartCreate(kind, id, v) ==
    /\ id \notin used
    /\ Run(kind, id, v, Create(disk, id, v))
    /\ used' = used \cup {id}
    /\ expected' = [expected EXCEPT ![id] = {v}]
    /\ UNCHANGED <<deleting, deleted>>

\* A save is refused when the profile is not in the list.
MaySaveAny(id) == id # Absent
MaySave(id) == id \in Listed(disk)
StartSave(kind, id, v) ==
    /\ MaySave(id)
    /\ Run(kind, id, v, Save(disk, id, v))
    /\ expected' = [expected EXCEPT ![id] = @ \cup {v}]
    /\ UNCHANGED <<used, deleting, deleted>>

StartDelete(id) ==
    /\ Len(disk.list) > 1 /\ id \in Listed(disk)
    /\ Run("delete", id, Sample, Delete(disk, id))
    /\ deleting' = deleting \cup {id}
    /\ UNCHANGED <<used, expected, deleted>>

\* bootstrap reads the active profile before it asks for the list.
Boot ==
    /\ page.at = "closed" /\ Free
    /\ page' = [page EXCEPT !.at = "list", !.content = Content(disk, disk.active)]
    /\ UNCHANGED <<reliable, disk, command, writes, used, ghosts>>

\* list_player_configs creates a profile when there is none, and once more
\* under another identifier when the first attempt left no list.
ListEmpty ==
    /\ page.at = "list" /\ disk.list = <<>>
    /\ \E id \in Ids : /\ id = Default \/ Default \in used
                       /\ StartCreate("first", id, Sample)
    /\ UNCHANGED <<reliable, disk, page>>

NeedsNoRepair(d) == FALSE
NeedsRepair(d) == d.active \notin Listed(d)
Refreshed == [page EXCEPT !.at = IF page.booting THEN "init" ELSE "ready",
                          !.profiles = disk.list, !.active = disk.active]

List ==
    /\ page.at \in {"list", "relist"} /\ Free /\ disk.list # <<>>
    /\ page.at = "list" => ~NeedsRepair(disk)
    /\ page' = Refreshed
    /\ UNCHANGED <<reliable, disk, command, writes, used, ghosts>>

\* refreshPlayerProfiles selects the first profile when the active one is not
\* in the list.
RepairActive ==
    /\ page.at = "list" /\ disk.list # <<>> /\ NeedsRepair(disk)
    /\ LET first == Head(disk.list)
       IN  Run("repair", first, Sample, <<SetActive(disk, first)>>)
    /\ UNCHANGED <<reliable, disk, page, used, ghosts>>

\* bootstrap saves the defaults it filled in, to the active profile.
SaveDefaults ==
    /\ page.at = "init"
    /\ StartSave("saveActive", disk.active, page.content)
    /\ UNCHANGED <<reliable, disk, page>>
NoDefaults ==
    /\ page.at = "init" /\ Free
    /\ page' = [page EXCEPT !.at = "ready", !.booting = FALSE]
    /\ UNCHANGED <<reliable, disk, command, writes, used, ghosts>>

Ready == page.at = "ready" /\ Free
Shown == {page.profiles[i] : i \in DOMAIN page.profiles}

Edit(v) ==
    /\ Ready
    /\ StartSave("save", page.active, v)
    /\ page' = [page EXCEPT !.content = v]
    /\ UNCHANGED <<reliable, disk>>
\* A page with an old list may edit a profile that is gone.
EditRefused(v) ==
    /\ Ready /\ ~MaySave(page.active)
    /\ page' = [page EXCEPT !.content = v]
    /\ UNCHANGED <<reliable, disk, command, writes, used, ghosts>>

NewProfile(id, v) ==
    /\ Ready
    /\ StartCreate("create", id, v)
    /\ UNCHANGED <<reliable, disk, page>>
Remove(id) ==
    /\ Ready /\ id \in Shown /\ Len(page.profiles) > 1
    /\ StartDelete(id)
    /\ UNCHANGED <<reliable, disk, page>>

\* set_active_user_config_id does not look into the list.
Select(id) ==
    /\ Ready /\ id \in Shown
    /\ Run("select", id, Sample, <<SetActive(disk, id)>>)
    /\ UNCHANGED <<reliable, disk, page, used, ghosts>>
Rename(id) ==
    /\ Ready /\ id \in Shown \cap Listed(disk)
    /\ Run("rename", id, Sample, <<disk>>)
    /\ UNCHANGED <<reliable, disk, page, used, ghosts>>

-----------------------------------------------------------------------------
(* Writes, answers and failures *)

WriteNext ==
    /\ writes # <<>>
    /\ disk' = Head(writes) /\ writes' = Tail(writes)
    /\ UNCHANGED <<reliable, command, page, used, ghosts>>

PageAfter ==
    CASE command.kind = "first"      -> page
      [] command.kind = "repair"     -> [page EXCEPT !.at = "relist",
                                                     !.content = Content(disk, command.id)]
      [] command.kind = "saveActive" -> [page EXCEPT !.at = "ready", !.booting = FALSE]
      [] command.kind = "save"       -> page
      [] command.kind = "rename"     -> [page EXCEPT !.at = "list"]
      [] OTHER -> [page EXCEPT !.at = "list", !.content = Content(disk, disk.active)]

\* The command answers: what it did is confirmed to the user.
Answer ==
    /\ ~Free /\ writes = <<>>
    /\ command' = NoCommand
    /\ page' = PageAfter
    /\ LET saved == command.kind \in {"save", "saveActive"}
           removed == command.kind = "delete" IN
         /\ expected' = IF saved THEN [expected EXCEPT ![command.id] = {command.value}]
                                 ELSE expected
         /\ deleting' = IF saved \/ removed THEN deleting \ {command.id} ELSE deleting
         /\ deleted' = IF removed THEN deleted \cup {command.id} ELSE deleted
    /\ UNCHANGED <<reliable, disk, writes, used>>

\* The page shows the error; opening it fails when the list does.
Stopped == IF page.booting THEN ClosedPage ELSE [page EXCEPT !.at = "ready"]

WriteFails ==
    /\ ~reliable /\ writes # <<>>
    /\ command' = NoCommand /\ writes' = <<>>
    /\ page' = Stopped
    /\ UNCHANGED <<reliable, disk, used, ghosts>>

ListFails ==
    /\ ~reliable /\ page.at \in {"list", "relist"} /\ Free
    /\ page' = Stopped
    /\ UNCHANGED <<reliable, disk, command, writes, used, ghosts>>

Killed ==
    /\ reliable => Free
    /\ command' = NoCommand /\ writes' = <<>>
    /\ page' = ClosedPage
    /\ UNCHANGED <<reliable, disk, used, ghosts>>

LocalNext ==
    \/ Boot \/ ListEmpty \/ List \/ RepairActive \/ SaveDefaults \/ NoDefaults
    \/ \E v \in Values : Edit(v) \/ EditRefused(v)
    \/ \E id \in Ids :
         \/ Remove(id) \/ Select(id) \/ Rename(id)
         \/ \E v \in Values : NewProfile(id, v)
    \/ WriteNext \/ Answer \/ WriteFails \/ ListFails \/ Killed

LocalSpec == LocalInit /\ [][LocalNext]_localVars

-----------------------------------------------------------------------------
(* Properties *)

\* A profile in the list has the content of the last confirmed save or of an
\* unconfirmed one after it, unless its deletion was interrupted; a confirmed
\* deletion leaves neither list entry nor file, whatever a page with an old
\* list does later.
Durable ==
    /\ \A id \in Listed(disk) \ deleting : disk.configs[id] \in expected[id]
    /\ \A id \in deleted : id \notin Listed(disk) /\ disk.configs[id] = Absent

\* A refresh that succeeds ends on a profile of the list, and opening the page
\* shows its content, whatever was interrupted before.
RefreshRepairs ==
    [][List
         => /\ page'.active \in Listed(disk)
            /\ page.booting => page'.content = Content(disk, page'.active)]_localVars

\* On a reliable disk the commands implement the profile store: the state
\* when no command runs is the abstract one.
Seen == IF Free THEN disk ELSE command.before
Fresh == Seen.list = <<>> \/ ~reliable
Promise == INSTANCE ProfileStore WITH
    store <- IF Fresh THEN [id \in {Default} |-> Sample]
                      ELSE [id \in Listed(Seen) |-> Seen.configs[id]],
    active <- IF Fresh THEN Default ELSE Seen.active
KeepsPromise == Promise!StoreSpec
=============================================================================
