---------------------------- MODULE DesktopProofs ----------------------------
(***************************************************************************)
(* The two stores of the desktop client, the server that calculates for    *)
(* the web client, and its imports of accounts, for every value of the     *)
(* constants.                                                              *)
(*                                                                         *)
(* LocalStore: whatever writes fail and wherever the program is killed, no *)
(* profile is lost or comes back, and a refresh ends on a profile of the   *)
(* list; on a reliable disk the commands implement ProfileStore.  The      *)
(* invariant says it of the disk and of every disk that the command still  *)
(* has to write, and what that last disk is.                               *)
(*                                                                         *)
(* GameDataCache: the types; the calculator in memory was made from the    *)
(* files on disk unless some command is about to drop it or failed before  *)
(* it could; the manifest lists no version newer than the file on disk;    *)
(* and a calculation uses the versions its manifest listed.                *)
(*                                                                         *)
(* HttpServer: no calculator reads what the first synchronisation replaced *)
(* (before it has ended nothing is read), and the records of the limiter   *)
(* are the last attempts while every other one is a window old.            *)
(*                                                                         *)
(* AccountImport: the import in hand of a region is alone, so that nobody  *)
(* else replaces the file of defaults whose version it is about to use.    *)
(***************************************************************************)
EXTENDS LocalStore, GameDataCache, HttpServer, AccountImport, SequenceTheorems, TLAPS

-----------------------------------------------------------------------------
(* The profile store: the invariant *)

Distinct(s) == \A i, j \in DOMAIN s : s[i] = s[j] => i = j

\* A disk as every command finds or leaves it, after any of its writes.
Well(d) ==
    /\ d \in Disk
    /\ Distinct(d.list)
    /\ d.list = <<>> => d.active = Absent

\* What a disk must hold for the promises made to the user so far.
Sound(d, exp, dg, dd, us) ==
    /\ Listed(d) \subseteq us
    /\ \A id \in Listed(d) \ dg : d.configs[id] \in exp[id]
    /\ \A id \in dd : id \notin Listed(d) /\ d.configs[id] = Absent

Holds(d) == Well(d) /\ Sound(d, expected, deleting, deleted, used)

\* The disk a command leaves when all its writes succeed.
Result(kind, d, id, v) ==
    CASE kind \in {"first", "create"}    -> SetActive(Push(SetConfig(d, id, v), id), id)
      [] kind \in {"save", "saveActive"} -> SetConfig(d, id, v)
      [] kind \in {"select", "repair"}   -> SetActive(d, id)
      [] kind = "rename"                 -> d
      [] kind = "delete" ->
           LET d2 == Retain(SetConfig(d, id, Absent), id)
           IN  IF d.active = id THEN SetActive(d2, Head(d2.list)) ELSE d2

Final == IF writes = <<>> THEN disk ELSE writes[Len(writes)]

Ghosts ==
    /\ used \in SUBSET Ids /\ expected \in [Ids -> SUBSET Values]
    /\ deleting \in SUBSET Ids /\ deleted \in SUBSET used
CommandTyped ==
    command \in [kind : CommandKinds, id : Ids \cup {Absent}, value : Values, before : Disk]

\* The disk and every disk still to be written keep the promises, and the last
\* is what the command is for.
DiskInv ==
    /\ Ghosts /\ CommandTyped /\ writes \in Seq(Disk)
    /\ Holds(disk) /\ \A i \in 1..Len(writes) : Holds(writes[i])
    /\ IF Free THEN writes = <<>>
       ELSE /\ Final = Result(command.kind, command.before, command.id, command.value)
            /\ command.id \in Ids /\ Well(command.before)
            /\ command.kind \in {"save", "saveActive", "delete", "repair"}
                 => command.id \in Listed(command.before)
            /\ command.kind \in {"first", "create"} => command.id \notin Listed(command.before)
            /\ command.kind = "delete" => Len(command.before.list) > 1 /\ command.id \in used

\* Which command the page waits for, and what it has loaded.
Opened == page.booting = FALSE \/ page.at \in {"relist", "init"}
PageInv ==
    /\ page \in Page
    /\ Opened => disk.list # <<>> /\ \A i \in 1..Len(writes) : writes[i].list # <<>>
    /\ ~Free =>
         page.at = CASE command.kind \in {"first", "repair"} -> "list"
                     [] command.kind = "saveActive"          -> "init"
                     [] OTHER                                -> "ready"
    /\ page.at = "ready" => page.booting = FALSE
    /\ page.at = "list" /\ page.booting /\ Free => page.content = Content(disk, disk.active)
    /\ command.kind = "first" => /\ command.before.list = <<>> /\ command.value = Sample
                                 /\ page.booting => page.content = Sample
    /\ page.at = "relist" =>
         disk.active \in Listed(disk) /\ page.content = Content(disk, disk.active)

\* When nothing fails, the page knows the profiles of the store and one of them
\* is active.
InOrder(d) ==
    /\ d.active \in Listed(d) /\ \A id \in Listed(d) : d.configs[id] \in Values
ReliableInv ==
    reliable = TRUE =>
      /\ Seen.list = <<>> \/ InOrder(Seen)
      /\ Seen.list = <<>> => /\ used = IF Free THEN {} ELSE {Default}
                             /\ ~Free => command.kind = "first" /\ command.id = Default
                             /\ page.at \in {"closed", "list"}
      /\ page.at \in {"init", "ready"} => page.profiles = Seen.list /\ page.active = Seen.active
      /\ command.kind = "select" => command.id \in Listed(Seen)
      /\ command.kind = "first" => Seen.list = <<>>

LocalInv == DiskInv /\ PageInv /\ ReliableInv

-----------------------------------------------------------------------------
(* Disks *)

LEMMA DiskParts ==
    ASSUME NEW d \in Disk
    PROVE  /\ d.list \in Seq(Ids) /\ d.configs \in [Ids -> Values \cup {Absent}]
           /\ d.active \in Ids \cup {Absent}
           /\ DOMAIN d.list = 1..Len(d.list) /\ Len(d.list) \in Nat
           /\ Listed(d) \subseteq Ids
BY DEF Disk, Listed

LEMMA ConfigSet ==
    ASSUME NEW d \in Disk, NEW id \in Ids, NEW v \in Values \cup {Absent},
           NEW e, e = SetConfig(d, id, v)
    PROVE  /\ e \in Disk /\ e.list = d.list /\ e.active = d.active /\ Listed(e) = Listed(d)
           /\ e.configs[id] = v /\ \A p \in Ids \ {id} : e.configs[p] = d.configs[p]
<1>1. e = [list |-> d.list, configs |-> [d.configs EXCEPT ![id] = v], active |-> d.active]
  BY DEF SetConfig, Disk
<1>2. [d.configs EXCEPT ![id] = v] \in [Ids -> Values \cup {Absent}]
  BY DiskParts
<1> QED BY <1>1, <1>2, DiskParts DEF Disk, Listed

LEMMA ActiveSet ==
    ASSUME NEW d \in Disk, NEW id \in Ids, NEW e, e = SetActive(d, id)
    PROVE  /\ e \in Disk /\ e.list = d.list /\ e.active = id /\ e.configs = d.configs
           /\ Listed(e) = Listed(d)
<1>1. e = [list |-> d.list, configs |-> d.configs, active |-> id]
  BY DEF SetActive, Disk
<1> QED BY <1>1, DiskParts DEF Disk, Listed

LEMMA ListPushed ==
    ASSUME NEW d \in Disk, NEW id \in Ids, id \notin Listed(d), Distinct(d.list),
           NEW e, e = Push(d, id)
    PROVE  /\ e \in Disk /\ e.active = d.active /\ e.configs = d.configs
           /\ Listed(e) = Listed(d) \cup {id} /\ Distinct(e.list) /\ e.list # <<>>
           /\ e.list = Append(d.list, id)
<1>1. e = [list |-> Append(d.list, id), configs |-> d.configs, active |-> d.active]
  BY DEF Push, Disk
<1> DEFINE s == Append(d.list, id)
<1>2. /\ s \in Seq(Ids) /\ Len(s) = Len(d.list) + 1 /\ s # <<>>
      /\ DOMAIN s = 1..(Len(d.list) + 1) /\ s[Len(d.list) + 1] = id
      /\ \A i \in 1..Len(d.list) : s[i] = d.list[i]
  BY DiskParts
<1>3. e \in Disk /\ e.list = s /\ e.active = d.active /\ e.configs = d.configs
  BY <1>1, <1>2, DiskParts DEF Disk
<1> HIDE DEF s
<1>4. Listed(e) = Listed(d) \cup {id}
  <2>1. ASSUME NEW p \in Listed(e) PROVE p \in Listed(d) \cup {id}
    <3>1. PICK i \in 1..(Len(d.list) + 1) : p = s[i]
      BY <1>2, <1>3, <2>1 DEF Listed
    <3>2. CASE i = Len(d.list) + 1
      BY <1>2, <3>1, <3>2
    <3>3. CASE i # Len(d.list) + 1
      <4>1. i \in 1..Len(d.list)
        BY <3>3, DiskParts
      <4> QED BY <1>2, <3>1, <4>1, DiskParts DEF Listed
    <3> QED BY <3>2, <3>3
  <2>2. id \in Listed(e)
    <3>1. Len(d.list) + 1 \in DOMAIN s
      BY <1>2, DiskParts
    <3> QED BY <1>2, <1>3, <3>1 DEF Listed
  <2>3. ASSUME NEW p \in Listed(d) PROVE p \in Listed(e)
    <3>1. PICK i \in 1..Len(d.list) : p = d.list[i]
      BY <2>3, DiskParts DEF Listed
    <3>2. i \in DOMAIN s
      BY <1>2, <3>1, DiskParts
    <3> QED BY <1>2, <1>3, <3>1, <3>2 DEF Listed
  <2> QED BY <2>1, <2>2, <2>3
<1>5. Distinct(e.list)
  <2>1. ASSUME NEW i \in DOMAIN s, NEW j \in DOMAIN s, s[i] = s[j] PROVE i = j
    <3>1. \A k \in 1..Len(d.list) : d.list[k] # id
      BY DiskParts DEF Listed
    <3>2. \A k \in DOMAIN s : k = Len(d.list) + 1 \/ k \in 1..Len(d.list)
      BY <1>2, DiskParts
    <3> QED BY <1>2, <2>1, <3>1, <3>2, DiskParts DEF Distinct
  <2> QED BY <1>3, <2>1 DEF Distinct
<1> QED BY <1>2, <1>3, <1>4, <1>5 DEF s

LEMMA ListCut ==
    ASSUME NEW d \in Disk, NEW id \in Listed(d), Distinct(d.list), Len(d.list) > 1,
           NEW e, e = Retain(d, id)
    PROVE  /\ e \in Disk /\ e.active = d.active /\ e.configs = d.configs
           /\ Listed(e) = Listed(d) \ {id} /\ Distinct(e.list) /\ e.list # <<>>
           /\ Head(e.list) \in Listed(e)
<1> DEFINE n == Len(d.list)
           at == CHOOSE i \in DOMAIN d.list : d.list[i] = id
           s == [i \in 1 .. n - 1 |-> IF i < at THEN d.list[i] ELSE d.list[i + 1]]
<1>1. n \in Nat /\ n > 1 /\ DOMAIN d.list = 1..n /\ \A i \in 1..n : d.list[i] \in Ids
  BY DiskParts
<1>2. at \in 1..n /\ d.list[at] = id
  BY <1>1 DEF Listed
<1>3. e = [list |-> s, configs |-> d.configs, active |-> d.active]
  BY DEF Retain, Disk
<1> HIDE DEF at, n
<1>4. \A i \in 1 .. n - 1 : s[i] = IF i < at THEN d.list[i] ELSE d.list[i + 1]
  OBVIOUS
<1>5. \A i \in 1 .. n - 1 : i \in 1..n /\ i + 1 \in 1..n /\ i # n
  BY <1>1
<1>6. s \in Seq(Ids) /\ Len(s) = n - 1 /\ DOMAIN s = 1 .. n - 1
  <2>1. s \in [1 .. n - 1 -> Ids]
    BY <1>1, <1>5
  <2>2. n - 1 \in Nat
    BY <1>1
  <2> QED BY <2>1, <2>2
<1>7. e \in Disk /\ e.list = s /\ e.active = d.active /\ e.configs = d.configs
  BY <1>3, <1>6, DiskParts DEF Disk
<1> HIDE DEF s
\* Where the entries of the shorter list come from.
<1>8. ASSUME NEW i \in 1 .. n - 1
      PROVE  \E k \in 1..n : k # at /\ s[i] = d.list[k] /\ k = IF i < at THEN i ELSE i + 1
  BY <1>1, <1>2, <1>4, <1>5
<1>9. \A i, j \in 1..n : d.list[i] = d.list[j] => i = j
  BY <1>1 DEF Distinct
<1>10. Listed(e) = Listed(d) \ {id}
  <2>1. ASSUME NEW p \in Listed(e) PROVE p \in Listed(d) \ {id}
    <3>1. PICK i \in 1 .. n - 1 : p = s[i]
      BY <1>6, <1>7, <2>1 DEF Listed
    <3>2. PICK k \in 1..n : k # at /\ s[i] = d.list[k]
      BY <1>8
    <3> QED BY <1>1, <1>2, <1>9, <3>1, <3>2 DEF Listed
  <2>2. ASSUME NEW p \in Listed(d), p # id PROVE p \in Listed(e)
    <3>1. PICK k \in 1..n : p = d.list[k]
      BY <1>1, <2>2 DEF Listed
    <3>2. k # at
      BY <1>2, <2>2, <3>1
    <3>3. PICK i \in 1 .. n - 1 : s[i] = d.list[k]
      <4>1. CASE k < at
        <5>1. k \in 1 .. n - 1
          BY <1>1, <1>2, <4>1
        <5> QED BY <1>4, <4>1, <5>1
      <4>2. CASE k > at
        <5>1. k - 1 \in 1 .. n - 1 /\ ~(k - 1 < at) /\ k - 1 + 1 = k
          BY <1>1, <1>2, <4>2
        <5> QED BY <1>4, <5>1
      <4> QED BY <1>1, <1>2, <3>2, <4>1, <4>2
    <3> QED BY <1>6, <1>7, <3>1, <3>3 DEF Listed
  <2> QED BY <2>1, <2>2
<1>11. Distinct(e.list)
  <2>1. ASSUME NEW i \in 1 .. n - 1, NEW j \in 1 .. n - 1, s[i] = s[j] PROVE i = j
    <3>1. PICK k \in 1..n : s[i] = d.list[k] /\ k = IF i < at THEN i ELSE i + 1
      BY <1>8
    <3>2. PICK l \in 1..n : s[j] = d.list[l] /\ l = IF j < at THEN j ELSE j + 1
      BY <1>8
    <3>3. k = l
      BY <1>9, <2>1, <3>1, <3>2
    <3> QED BY <1>1, <1>2, <3>1, <3>2, <3>3
  <2> QED BY <1>6, <1>7, <2>1 DEF Distinct
<1>12. e.list # <<>> /\ Head(e.list) \in Listed(e)
  <2>1. 1 \in 1 .. n - 1 /\ Len(s) >= 1
    BY <1>1, <1>6
  <2>2. s # <<>> /\ Head(s) = s[1]
    BY <1>6, <2>1
  <2> QED BY <1>6, <1>7, <2>1, <2>2 DEF Listed
<1> QED BY <1>7, <1>10, <1>11, <1>12

-----------------------------------------------------------------------------
(* What the writes of the commands leave *)

LEMMA CreateWrites ==
    ASSUME Ghosts, Holds(disk), NEW id \in Ids \ used, NEW v \in Values,
           expected' = [expected EXCEPT ![id] = {v}], used' = used \cup {id},
           NEW w, w = Create(disk, id, v)
    PROVE  /\ Sound(disk, expected', deleting, deleted, used')
           /\ w \in Seq(Disk) /\ Len(w) = 3
           /\ \A i \in 1..3 : Well(w[i]) /\ Sound(w[i], expected', deleting, deleted, used')
           /\ disk.list # <<>> => \A i \in 1..3 : w[i].list # <<>>
           /\ w[3] = SetActive(Push(SetConfig(disk, id, v), id), id)
           /\ id \notin Listed(disk)
<1> DEFINE d1 == SetConfig(disk, id, v)
           d2 == Push(d1, id)
           d3 == SetActive(d2, id)
<1>1. w = <<d1, d2, d3>>
  BY DEF Create
<1>2. disk \in Disk /\ id \notin Listed(disk) /\ Listed(disk) \subseteq used /\ id \notin deleted
  BY DEF Well, Sound, Holds, Ghosts
<1>3. /\ d1 \in Disk /\ d1.list = disk.list /\ d1.active = disk.active /\ Listed(d1) = Listed(disk)
      /\ d1.configs[id] = v /\ \A p \in Ids \ {id} : d1.configs[p] = disk.configs[p]
  BY <1>2, ConfigSet
<1> HIDE DEF d1
<1>4. Distinct(d1.list) /\ id \notin Listed(d1)
  BY <1>2, <1>3 DEF Well, Holds
<1>5. /\ d2 \in Disk /\ d2.active = d1.active /\ d2.configs = d1.configs
      /\ Listed(d2) = Listed(disk) \cup {id} /\ Distinct(d2.list) /\ d2.list # <<>>
  BY <1>3, <1>4, ListPushed
<1> HIDE DEF d2
<1>6. /\ d3 \in Disk /\ d3.list = d2.list /\ d3.active = id /\ d3.configs = d2.configs
      /\ Listed(d3) = Listed(d2)
  BY <1>5, ActiveSet
<1> HIDE DEF d3
<1>7. /\ expected'[id] = {v} /\ \A p \in Ids \ {id} : expected'[p] = expected[p]
      /\ Listed(disk) \subseteq Ids /\ deleted \subseteq Ids
  BY <1>2 DEF Ghosts
<1>8. Sound(disk, expected', deleting, deleted, used') /\ Well(d1) /\ Sound(d1, expected', deleting, deleted, used')
  BY <1>2, <1>3, <1>7 DEF Sound, Well, Holds, Ghosts
<1>9. Well(d2) /\ Sound(d2, expected', deleting, deleted, used')
  BY <1>2, <1>3, <1>5, <1>7 DEF Sound, Well, Holds, Ghosts
<1>10. Well(d3) /\ Sound(d3, expected', deleting, deleted, used')
  BY <1>5, <1>6, <1>9 DEF Sound, Well, Holds, Ghosts
<1>11. w \in Seq(Disk) /\ Len(w) = 3 /\ w[1] = d1 /\ w[2] = d2 /\ w[3] = d3
  BY <1>1, <1>3, <1>5, <1>6
<1>12. w[3] = SetActive(Push(SetConfig(disk, id, v), id), id)
  BY <1>11 DEF d1, d2, d3
<1>13. \A i \in 1..3 : i = 1 \/ i = 2 \/ i = 3
  OBVIOUS
<1> QED BY <1>2, <1>3, <1>5, <1>6, <1>8, <1>9, <1>10, <1>11, <1>12, <1>13

LEMMA SaveWrites ==
    ASSUME Ghosts, Holds(disk), NEW id \in Listed(disk), NEW v \in Values,
           expected' = [expected EXCEPT ![id] = @ \cup {v}],
           NEW w, w = Save(disk, id, v)
    PROVE  /\ Sound(disk, expected', deleting, deleted, used)
           /\ w \in Seq(Disk) /\ Len(w) = 2
           /\ \A i \in 1..2 : Well(w[i]) /\ Sound(w[i], expected', deleting, deleted, used)
           /\ disk.list # <<>> => \A i \in 1..2 : w[i].list # <<>>
           /\ w[2] = SetConfig(disk, id, v)
           /\ id \in Ids
<1> DEFINE d1 == SetConfig(disk, id, v)
<1>1. w = <<d1, d1>>
  BY DEF Save
<1>2. disk \in Disk /\ Listed(disk) \subseteq used /\ id \notin deleted /\ id \in Ids
  BY DEF Well, Sound, Holds, Ghosts
<1>3. /\ d1 \in Disk /\ d1.list = disk.list /\ d1.active = disk.active /\ Listed(d1) = Listed(disk)
      /\ d1.configs[id] = v /\ \A p \in Ids \ {id} : d1.configs[p] = disk.configs[p]
  BY <1>2, ConfigSet
<1> HIDE DEF d1
<1>4. /\ expected'[id] = expected[id] \cup {v} /\ \A p \in Ids \ {id} : expected'[p] = expected[p]
      /\ Listed(disk) \subseteq Ids /\ deleted \subseteq Ids
  BY <1>2 DEF Ghosts
<1>5. Sound(disk, expected', deleting, deleted, used) /\ Well(d1) /\ Sound(d1, expected', deleting, deleted, used)
  BY <1>2, <1>3, <1>4 DEF Sound, Well, Holds, Ghosts
<1>6. w \in Seq(Disk) /\ Len(w) = 2 /\ w[1] = d1 /\ w[2] = d1
  BY <1>1, <1>3
<1>7. \A i \in 1..2 : i = 1 \/ i = 2
  OBVIOUS
<1> QED BY <1>2, <1>3, <1>5, <1>6, <1>7 DEF d1

LEMMA ActiveWrites ==
    ASSUME Holds(disk), disk.list # <<>>,
           NEW id \in Ids, NEW w, w = <<SetActive(disk, id)>>
    PROVE  /\ w \in Seq(Disk) /\ Len(w) = 1
           /\ \A i \in 1..1 : Well(w[i]) /\ Sound(w[i], expected, deleting, deleted, used)
           /\ \A i \in 1..1 : w[i].list # <<>>
           /\ w[1] = SetActive(disk, id)
<1> DEFINE d1 == SetActive(disk, id)
<1>1. /\ d1 \in Disk /\ d1.list = disk.list /\ d1.configs = disk.configs /\ Listed(d1) = Listed(disk)
  BY ActiveSet DEF Well, Holds
<1> HIDE DEF d1
<1>2. Well(d1) /\ Sound(d1, expected, deleting, deleted, used)
  BY <1>1 DEF Well, Sound, Holds
<1>3. w \in Seq(Disk) /\ Len(w) = 1 /\ w[1] = d1
  BY <1>1 DEF d1
<1>4. \A i \in 1..1 : i = 1
  OBVIOUS
<1> QED BY <1>1, <1>2, <1>3, <1>4 DEF d1

LEMMA Joined ==
    ASSUME NEW S, NEW s \in Seq(S), NEW e \in S, NEW w, w = s \o <<e>>
    PROVE  /\ w \in Seq(S) /\ Len(w) = Len(s) + 1 /\ Len(s) \in Nat /\ w[Len(s) + 1] = e
           /\ \A i \in 1..Len(s) : w[i] = s[i]
OBVIOUS

LEMMA DeleteWrites ==
    ASSUME Ghosts, Holds(disk), Len(disk.list) > 1, NEW id \in Listed(disk),
           deleting' = deleting \cup {id}, NEW w, w = Delete(disk, id)
    PROVE  /\ Sound(disk, expected, deleting', deleted, used)
           /\ w \in Seq(Disk) /\ Len(w) \in 1..3
           /\ \A i \in 1..Len(w) : Well(w[i]) /\ Sound(w[i], expected, deleting', deleted, used)
           /\ \A i \in 1..Len(w) : w[i].list # <<>>
           /\ w[Len(w)] = LET d2 == Retain(SetConfig(disk, id, Absent), id)
                          IN  IF disk.active = id THEN SetActive(d2, Head(d2.list)) ELSE d2
           /\ id \in Ids
<1> DEFINE d1 == SetConfig(disk, id, Absent)
           d2 == Retain(d1, id)
           d3 == SetActive(d2, Head(d2.list))
<1>1. w = (IF disk.configs[id] # Absent THEN <<d1>> ELSE <<>>) \o <<d2>>
            \o (IF disk.active = id THEN <<d3>> ELSE <<>>)
  BY DEF Delete
<1>2. disk \in Disk /\ Listed(disk) \subseteq used /\ id \notin deleted /\ id \in Ids
  BY DEF Well, Sound, Holds, Ghosts
<1>3. /\ d1 \in Disk /\ d1.list = disk.list /\ d1.active = disk.active /\ Listed(d1) = Listed(disk)
      /\ d1.configs[id] = Absent /\ \A p \in Ids \ {id} : d1.configs[p] = disk.configs[p]
  BY <1>2, ConfigSet
<1> HIDE DEF d1
<1>4. Distinct(d1.list) /\ id \in Listed(d1) /\ Len(d1.list) > 1
  BY <1>3 DEF Well, Holds
<1>5. /\ d2 \in Disk /\ d2.active = disk.active /\ d2.configs = d1.configs
      /\ Listed(d2) = Listed(disk) \ {id} /\ Distinct(d2.list) /\ d2.list # <<>>
      /\ Head(d2.list) \in Listed(d2)
  BY <1>3, <1>4, ListCut
<1> HIDE DEF d2
<1>6. Head(d2.list) \in Ids
  BY <1>5, DiskParts
<1>7. /\ d3 \in Disk /\ d3.list = d2.list /\ d3.configs = d2.configs
      /\ Listed(d3) = Listed(d2)
  BY <1>5, <1>6, ActiveSet
<1> HIDE DEF d3
<1>8. Sound(disk, expected, deleting', deleted, used) /\ Well(d1) /\ Sound(d1, expected, deleting', deleted, used)
  BY <1>2, <1>3, <1>4 DEF Sound, Well, Holds, Ghosts
<1>9. Well(d2) /\ Sound(d2, expected, deleting', deleted, used)
  BY <1>2, <1>3, <1>5 DEF Sound, Well, Holds, Ghosts
<1>10. Well(d3) /\ Sound(d3, expected, deleting', deleted, used)
  BY <1>5, <1>7, <1>9 DEF Sound, Well, Holds, Ghosts
<1>11. /\ w \in Seq(Disk) /\ Len(w) \in 1..3
       /\ w[Len(w)] = IF disk.active = id THEN d3 ELSE d2
       /\ \A i \in 1..Len(w) : w[i] \in {d1, d2, d3}
  <2> DEFINE head == IF disk.configs[id] # Absent THEN <<d1>> ELSE <<>>
             mid == head \o <<d2>>
  <2>1. /\ head \in Seq(Disk) /\ Len(head) \in 0..1
        /\ \A i \in 1..Len(head) : head[i] = d1
    BY <1>3
  <2>2. /\ mid \in Seq(Disk) /\ Len(mid) \in 1..2 /\ mid[Len(mid)] = d2
        /\ \A i \in 1..Len(mid) : mid[i] \in {d1, d2, d3}
    <3> HIDE DEF head
    <3>1. /\ mid \in Seq(Disk) /\ Len(mid) = Len(head) + 1 /\ mid[Len(head) + 1] = d2
          /\ \A i \in 1..Len(head) : mid[i] = head[i]
      BY <1>5, <2>1, Joined
    <3> HIDE DEF mid
    <3>2. \A i \in 1..Len(mid) : i \in 1..Len(head) \/ i = Len(head) + 1
      BY <2>1, <3>1
    <3> QED BY <2>1, <3>1, <3>2
  <2>3. CASE disk.active = id
    <3>1. w = mid \o <<d3>>
      BY <1>1, <2>3
    <3> HIDE DEF mid
    <3>2. /\ w \in Seq(Disk) /\ Len(w) = Len(mid) + 1 /\ w[Len(mid) + 1] = d3
          /\ \A i \in 1..Len(mid) : w[i] = mid[i]
      BY <1>7, <2>2, <3>1, Joined
    <3>3. \A i \in 1..Len(w) : i \in 1..Len(mid) \/ i = Len(mid) + 1
      BY <2>2, <3>2
    <3> QED BY <2>2, <2>3, <3>2, <3>3
  <2>4. CASE disk.active # id
    <3>1. w = mid \o <<>>
      BY <1>1, <2>4
    <3> HIDE DEF mid
    <3>2. w = mid
      BY <2>2, <3>1
    <3> QED BY <2>2, <2>4, <3>2
  <2> QED BY <2>3, <2>4
<1>12. w[Len(w)] = LET e == Retain(SetConfig(disk, id, Absent), id)
                   IN  IF disk.active = id THEN SetActive(e, Head(e.list)) ELSE e
  BY <1>11 DEF d1, d2, d3
<1>13. disk.list # <<>>
  BY <1>2, DiskParts
<1> QED BY <1>2, <1>3, <1>5, <1>7, <1>8, <1>9, <1>10, <1>11, <1>12, <1>13

-----------------------------------------------------------------------------
(* What a command is for *)

LEMMA CreateResult ==
    ASSUME NEW d, Well(d), NEW id \in Ids, id \notin Listed(d), NEW v \in Values,
           NEW kind \in {"first", "create"}, NEW e, e = Result(kind, d, id, v)
    PROVE  /\ e \in Disk /\ Listed(e) = Listed(d) \cup {id} /\ e.list # <<>> /\ e.active = id
           /\ e.configs[id] = v /\ \A p \in Ids \ {id} : e.configs[p] = d.configs[p]
<1> DEFINE d1 == SetConfig(d, id, v)
           d2 == Push(d1, id)
<1>1. e = SetActive(d2, id) /\ d \in Disk
  BY DEF Result, Well
<1>2. /\ d1 \in Disk /\ d1.list = d.list /\ Listed(d1) = Listed(d)
      /\ d1.configs[id] = v /\ \A p \in Ids \ {id} : d1.configs[p] = d.configs[p]
  BY <1>1, ConfigSet
<1> HIDE DEF d1
<1>3. Distinct(d1.list)
  BY <1>2 DEF Well
<1>4. /\ d2 \in Disk /\ d2.configs = d1.configs
      /\ Listed(d2) = Listed(d) \cup {id} /\ d2.list # <<>>
  BY <1>2, <1>3, ListPushed
<1> HIDE DEF d2
<1>5. /\ e \in Disk /\ e.list = d2.list /\ e.active = id /\ e.configs = d2.configs
      /\ Listed(e) = Listed(d2)
  BY <1>1, <1>4, ActiveSet
<1> QED BY <1>2, <1>4, <1>5

LEMMA SaveResult ==
    ASSUME NEW d, Well(d), NEW id \in Ids, NEW v \in Values,
           NEW kind \in {"save", "saveActive"}, NEW e, e = Result(kind, d, id, v)
    PROVE  /\ e \in Disk /\ e.list = d.list /\ e.active = d.active /\ Listed(e) = Listed(d)
           /\ e.configs[id] = v /\ \A p \in Ids \ {id} : e.configs[p] = d.configs[p]
<1>1. e = SetConfig(d, id, v) /\ d \in Disk
  BY DEF Result, Well
<1> QED BY <1>1, ConfigSet

LEMMA ActiveResult ==
    ASSUME NEW d, Well(d), NEW id \in Ids, NEW v,
           NEW kind \in {"select", "repair"}, NEW e, e = Result(kind, d, id, v)
    PROVE  /\ e \in Disk /\ e.list = d.list /\ e.active = id /\ e.configs = d.configs
           /\ Listed(e) = Listed(d)
<1>1. e = SetActive(d, id) /\ d \in Disk
  BY DEF Result, Well
<1> QED BY <1>1, ActiveSet

LEMMA DeleteResult ==
    ASSUME NEW d, Well(d), Len(d.list) > 1, NEW id \in Listed(d), NEW v,
           NEW e, e = Result("delete", d, id, v)
    PROVE  /\ e \in Disk /\ Listed(e) = Listed(d) \ {id} /\ e.list # <<>>
           /\ (d.active = id => e.active \in Listed(e)) /\ (d.active # id => e.active = d.active)
           /\ e.configs[id] = Absent /\ \A p \in Ids \ {id} : e.configs[p] = d.configs[p]
<1> DEFINE d1 == SetConfig(d, id, Absent)
           d2 == Retain(d1, id)
           d3 == SetActive(d2, Head(d2.list))
<1>1. e = (IF d.active = id THEN d3 ELSE d2) /\ d \in Disk /\ id \in Ids
  BY DiskParts DEF Result, Well
<1>2. /\ d1 \in Disk /\ d1.list = d.list /\ d1.active = d.active /\ Listed(d1) = Listed(d)
      /\ d1.configs[id] = Absent /\ \A p \in Ids \ {id} : d1.configs[p] = d.configs[p]
  BY <1>1, ConfigSet
<1> HIDE DEF d1
<1>3. Distinct(d1.list) /\ id \in Listed(d1) /\ Len(d1.list) > 1
  BY <1>2 DEF Well
<1>4. /\ d2 \in Disk /\ d2.active = d.active /\ d2.configs = d1.configs
      /\ Listed(d2) = Listed(d) \ {id} /\ d2.list # <<>> /\ Head(d2.list) \in Listed(d2)
  BY <1>2, <1>3, ListCut
<1> HIDE DEF d2
<1>5. Head(d2.list) \in Ids
  BY <1>4, DiskParts
<1>6. /\ d3 \in Disk /\ d3.list = d2.list /\ d3.configs = d2.configs
      /\ Listed(d3) = Listed(d2) /\ d3.active = Head(d2.list)
  BY <1>4, <1>5, ActiveSet
<1> HIDE DEF d3
<1> QED BY <1>1, <1>2, <1>4, <1>6

-----------------------------------------------------------------------------
(* The disks keep the promises. *)

LEMMA CommandParts ==
    ASSUME CommandTyped
    PROVE  /\ command.kind \in CommandKinds /\ command.id \in Ids \cup {Absent}
           /\ command.value \in Values /\ command.before \in Disk
BY DEF CommandTyped

LEMMA NoCommandTyped ==
    /\ NoCommand.kind = "none" /\ EmptyDisk \in Disk
    /\ NoCommand \in [kind : CommandKinds, id : Ids \cup {Absent}, value : Values, before : Disk]
<1>1. EmptyDisk \in Disk
  BY DEF EmptyDisk, Disk
<1> QED BY <1>1, LocalAssumption DEF NoCommand, CommandKinds

\* A step that starts no command and ends none.
LEMMA DisksQuiet ==
    ASSUME DiskInv, UNCHANGED <<disk, command, writes, used, ghosts>>
    PROVE  DiskInv'
BY DEF DiskInv, ghosts, Ghosts, CommandTyped, Holds, Sound, Free, Final

\* A list that is not empty stays so.
Lasting == disk.list # <<>> => \A i \in 1..Len(writes') : writes'[i].list # <<>>

LEMMA DisksRun ==
    ASSUME DiskInv, disk' = disk, Ghosts',
           NEW kind \in CommandKinds \ {"none"}, NEW id \in Ids, NEW v \in Values,
           NEW disks \in Seq(Disk), Len(disks) >= 1, Run(kind, id, v, disks),
           Sound(disk, expected', deleting', deleted', used'),
           \A i \in 1..Len(disks) :
              Well(disks[i]) /\ Sound(disks[i], expected', deleting', deleted', used'),
           disks[Len(disks)] = Result(kind, disk, id, v),
           disk.list # <<>> => \A i \in 1..Len(disks) : disks[i].list # <<>>,
           kind \in {"save", "saveActive", "delete", "repair"} => id \in Listed(disk),
           kind \in {"first", "create"} => id \notin Listed(disk),
           kind = "delete" => Len(disk.list) > 1 /\ id \in used'
    PROVE  /\ DiskInv' /\ ~Free' /\ Lasting
           /\ command' = [kind |-> kind, id |-> id, value |-> v, before |-> disk]
<1>1. /\ command' = [kind |-> kind, id |-> id, value |-> v, before |-> disk]
      /\ writes' = disks
  BY DEF Run
<1>2. /\ command'.kind = kind /\ command'.id = id /\ command'.value = v
      /\ command'.before = disk
  BY <1>1
<1>3. Well(disk) /\ disk \in Disk
  BY DEF DiskInv, Holds, Well
<1>4. CommandTyped'
  BY <1>1, <1>3 DEF CommandTyped
<1>5. writes' # <<>> /\ Final' = disks[Len(disks)]
  BY <1>1 DEF Final
<1>6. Holds(disk)' /\ \A i \in 1..Len(writes') : Holds(writes[i])'
  BY <1>1, <1>3 DEF Holds
<1>7. ~Free'
  BY <1>2 DEF Free
<1> QED BY <1>1, <1>2, <1>3, <1>4, <1>5, <1>6, <1>7 DEF DiskInv, Lasting

LEMMA CreateRuns ==
    ASSUME DiskInv, disk' = disk, NEW kind \in {"first", "create"}, NEW id \in Ids,
           NEW v \in Values, StartCreate(kind, id, v)
    PROVE  /\ DiskInv' /\ ~Free' /\ Lasting
           /\ command' = [kind |-> kind, id |-> id, value |-> v, before |-> disk]
<1>1. /\ id \in Ids \ used /\ Run(kind, id, v, Create(disk, id, v))
      /\ used' = used \cup {id} /\ expected' = [expected EXCEPT ![id] = {v}]
      /\ UNCHANGED <<deleting, deleted>>
  BY DEF StartCreate
<1>2. Holds(disk) /\ Ghosts
  BY DEF DiskInv
<1> DEFINE w == Create(disk, id, v)
<1> HIDE DEF w
<1>3. /\ Sound(disk, expected', deleting, deleted, used')
      /\ w \in Seq(Disk) /\ Len(w) = 3
      /\ \A i \in 1..3 : Well(w[i]) /\ Sound(w[i], expected', deleting, deleted, used')
      /\ disk.list # <<>> => \A i \in 1..3 : w[i].list # <<>>
      /\ w[3] = SetActive(Push(SetConfig(disk, id, v), id), id)
      /\ id \notin Listed(disk)
  BY <1>1, <1>2, CreateWrites DEF w
<1>4. w[3] = Result(kind, disk, id, v)
  BY <1>3 DEF Result
<1>5. Ghosts'
  BY <1>1, <1>2 DEF Ghosts
<1>6. Run(kind, id, v, w) /\ kind \in CommandKinds \ {"none"}
  BY <1>1 DEF w, CommandKinds
<1>7. /\ Sound(disk, expected', deleting', deleted', used') /\ Len(w) >= 1
      /\ \A i \in 1..Len(w) :
            Well(w[i]) /\ Sound(w[i], expected', deleting', deleted', used')
      /\ w[Len(w)] = Result(kind, disk, id, v)
      /\ disk.list # <<>> => \A i \in 1..Len(w) : w[i].list # <<>>
  BY <1>1, <1>3, <1>4
<1> QED BY <1>1, <1>3, <1>5, <1>6, <1>7, DisksRun

LEMMA SaveRuns ==
    ASSUME DiskInv, disk' = disk, NEW kind \in {"save", "saveActive"}, NEW id,
           NEW v \in Values, StartSave(kind, id, v)
    PROVE  /\ DiskInv' /\ ~Free' /\ Lasting
           /\ command' = [kind |-> kind, id |-> id, value |-> v, before |-> disk]
<1>1. /\ id \in Listed(disk) /\ Run(kind, id, v, Save(disk, id, v))
      /\ expected' = [expected EXCEPT ![id] = @ \cup {v}]
      /\ UNCHANGED <<used, deleting, deleted>>
  BY DEF StartSave, MaySave
<1>2. Holds(disk) /\ Ghosts
  BY DEF DiskInv
<1> DEFINE w == Save(disk, id, v)
<1> HIDE DEF w
<1>3. /\ Sound(disk, expected', deleting, deleted, used)
      /\ w \in Seq(Disk) /\ Len(w) = 2
      /\ \A i \in 1..2 : Well(w[i]) /\ Sound(w[i], expected', deleting, deleted, used)
      /\ disk.list # <<>> => \A i \in 1..2 : w[i].list # <<>>
      /\ w[2] = SetConfig(disk, id, v)
      /\ id \in Ids
  BY <1>1, <1>2, SaveWrites DEF w
<1>4. w[2] = Result(kind, disk, id, v)
  BY <1>3 DEF Result
<1>5. Ghosts'
  BY <1>1, <1>2, <1>3 DEF Ghosts
<1>6. Run(kind, id, v, w) /\ kind \in CommandKinds \ {"none"}
  BY <1>1 DEF w, CommandKinds
<1>7. /\ Sound(disk, expected', deleting', deleted', used') /\ Len(w) >= 1
      /\ \A i \in 1..Len(w) :
            Well(w[i]) /\ Sound(w[i], expected', deleting', deleted', used')
      /\ w[Len(w)] = Result(kind, disk, id, v)
      /\ disk.list # <<>> => \A i \in 1..Len(w) : w[i].list # <<>>
  BY <1>1, <1>3, <1>4
<1> QED BY <1>1, <1>3, <1>5, <1>6, <1>7, DisksRun

LEMMA ActiveRuns ==
    ASSUME DiskInv, UNCHANGED <<disk, used, ghosts>>, NEW kind \in {"select", "repair"},
           NEW id \in Ids, disk.list # <<>>, kind = "repair" => id \in Listed(disk),
           Run(kind, id, Sample, <<SetActive(disk, id)>>)
    PROVE  /\ DiskInv' /\ ~Free' /\ Lasting
           /\ command' = [kind |-> kind, id |-> id, value |-> Sample, before |-> disk]
<1>1. Holds(disk) /\ Ghosts
  BY DEF DiskInv
<1>2. UNCHANGED <<used, expected, deleting, deleted>>
  BY DEF ghosts
<1> DEFINE w == <<SetActive(disk, id)>>
<1> HIDE DEF w
<1>3. /\ w \in Seq(Disk) /\ Len(w) = 1
      /\ \A i \in 1..1 : Well(w[i]) /\ Sound(w[i], expected, deleting, deleted, used)
      /\ \A i \in 1..1 : w[i].list # <<>>
      /\ w[1] = SetActive(disk, id)
  BY <1>1, ActiveWrites DEF w
<1>4. w[1] = Result(kind, disk, id, Sample)
  BY <1>3 DEF Result
<1>5. Ghosts'
  BY <1>1, <1>2 DEF Ghosts
<1>6. Run(kind, id, Sample, w) /\ kind \in CommandKinds \ {"none"} /\ Sample \in Values
  BY LocalAssumption DEF w, CommandKinds
<1>7. Sound(disk, expected', deleting', deleted', used')
  BY <1>1, <1>2 DEF Holds
<1> QED BY <1>2, <1>3, <1>4, <1>5, <1>6, <1>7, DisksRun

LEMMA RenameRuns ==
    ASSUME DiskInv, UNCHANGED <<disk, used, ghosts>>, NEW id \in Ids,
           Run("rename", id, Sample, <<disk>>)
    PROVE  /\ DiskInv' /\ ~Free' /\ Lasting
           /\ command' = [kind |-> "rename", id |-> id, value |-> Sample, before |-> disk]
<1>1. /\ Well(disk) /\ Sound(disk, expected, deleting, deleted, used) /\ Ghosts
  BY DEF DiskInv, Holds
<1>2. UNCHANGED <<used, expected, deleting, deleted>>
  BY DEF ghosts
<1> DEFINE w == <<disk>>
<1>3. w \in Seq(Disk) /\ Len(w) = 1 /\ \A i \in 1..1 : w[i] = disk
  BY <1>1 DEF Well
<1>4. w[1] = Result("rename", disk, id, Sample)
  BY DEF Result
<1>5. Ghosts'
  BY <1>1, <1>2 DEF Ghosts
<1>6. Sample \in Values /\ "rename" \in CommandKinds \ {"none"}
  BY LocalAssumption DEF CommandKinds
<1>7. Run("rename", id, Sample, w)
  OBVIOUS
<1> HIDE DEF w
<1>8. /\ Sound(disk, expected', deleting', deleted', used') /\ Len(w) >= 1
      /\ \A i \in 1..Len(w) :
            Well(w[i]) /\ Sound(w[i], expected', deleting', deleted', used')
      /\ w[Len(w)] = Result("rename", disk, id, Sample)
      /\ disk.list # <<>> => \A i \in 1..Len(w) : w[i].list # <<>>
  BY <1>1, <1>2, <1>3, <1>4
<1> QED BY <1>3, <1>5, <1>6, <1>7, <1>8, DisksRun

LEMMA DeleteRuns ==
    ASSUME DiskInv, disk' = disk, NEW id, StartDelete(id)
    PROVE  /\ DiskInv' /\ ~Free' /\ Lasting
           /\ command' = [kind |-> "delete", id |-> id, value |-> Sample, before |-> disk]
<1>1. /\ id \in Listed(disk) /\ Len(disk.list) > 1
      /\ Run("delete", id, Sample, Delete(disk, id))
      /\ deleting' = deleting \cup {id} /\ UNCHANGED <<used, expected, deleted>>
  BY DEF StartDelete
<1>2. Holds(disk) /\ Ghosts
  BY DEF DiskInv
<1> DEFINE w == Delete(disk, id)
<1> HIDE DEF w
<1>3. /\ Sound(disk, expected, deleting', deleted, used)
      /\ w \in Seq(Disk) /\ Len(w) \in 1..3
      /\ \A i \in 1..Len(w) : Well(w[i]) /\ Sound(w[i], expected, deleting', deleted, used)
      /\ \A i \in 1..Len(w) : w[i].list # <<>>
      /\ w[Len(w)] = LET d2 == Retain(SetConfig(disk, id, Absent), id)
                     IN  IF disk.active = id THEN SetActive(d2, Head(d2.list)) ELSE d2
      /\ id \in Ids
  BY <1>1, <1>2, DeleteWrites DEF w
<1>4. w[Len(w)] = Result("delete", disk, id, Sample)
  BY <1>3 DEF Result
<1>5. Ghosts' /\ id \in used
  BY <1>1, <1>2, <1>3 DEF Ghosts, Holds, Sound
<1>6. Run("delete", id, Sample, w) /\ Sample \in Values /\ "delete" \in CommandKinds \ {"none"}
  BY <1>1, LocalAssumption DEF w, CommandKinds
<1>7. Len(w) >= 1
  <2>1. Len(w) \in 1..3
    BY <1>3
  <2> QED BY ONLY <2>1
<1> QED BY <1>1, <1>3, <1>4, <1>5, <1>6, <1>7, DisksRun

\* The command ends with an error, or the program does.
LEMMA DisksStop ==
    ASSUME DiskInv, command' = NoCommand, writes' = <<>>, UNCHANGED <<disk, used, ghosts>>
    PROVE  DiskInv' /\ Free'
<1>1. Free' /\ CommandTyped' /\ writes' \in Seq(Disk) /\ 1..Len(writes') = {}
  BY NoCommandTyped DEF Free, CommandTyped
<1>2. Ghosts' /\ Holds(disk)'
  BY DEF DiskInv, ghosts, Ghosts, Holds, Sound
<1> QED BY <1>1, <1>2 DEF DiskInv

LEMMA DisksWritten ==
    ASSUME DiskInv, WriteNext
    PROVE  DiskInv'
<1>1. /\ writes # <<>> /\ disk' = Head(writes) /\ writes' = Tail(writes)
      /\ UNCHANGED <<command, used, expected, deleting, deleted>> /\ writes \in Seq(Disk)
  BY DEF WriteNext, ghosts, DiskInv
<1>2. /\ Len(writes) \in Nat /\ Len(writes) >= 1 /\ Head(writes) = writes[1]
      /\ writes' \in Seq(Disk) /\ Len(writes') = Len(writes) - 1
      /\ \A i \in 1..Len(writes') : writes'[i] = writes[i + 1]
  BY <1>1
<1>3. \A i \in 1..Len(writes') : i + 1 \in 1..Len(writes)
  BY <1>2
<1>4. 1 \in 1..Len(writes)
  BY <1>2
<1>5. Holds(disk)' /\ \A i \in 1..Len(writes') : Holds(writes[i])'
  BY <1>1, <1>2, <1>3, <1>4 DEF DiskInv, Holds, Sound
<1>6. Final' = Final
  <2>1. CASE writes' = <<>>
    <3>1. Len(writes) = 1
      BY <1>2, <2>1
    <3> QED BY <1>1, <1>2, <2>1, <3>1 DEF Final
  <2>2. CASE writes' # <<>>
    <3>1. Len(writes') \in 1..Len(writes') /\ Len(writes') + 1 = Len(writes)
      BY <1>2, <2>2
    <3> QED BY <1>1, <1>2, <2>2, <3>1 DEF Final
  <2> QED BY <2>1, <2>2
<1>7. ~Free /\ ~Free'
  BY <1>1 DEF DiskInv, Free
<1> QED BY <1>1, <1>2, <1>5, <1>6, <1>7 DEF DiskInv, Ghosts, CommandTyped

LEMMA DisksAnswered ==
    ASSUME DiskInv, Answer
    PROVE  DiskInv' /\ Free' /\ disk = Result(command.kind, command.before, command.id, command.value)
<1> DEFINE id == command.id
<1>1. /\ ~Free /\ writes = <<>> /\ command' = NoCommand
      /\ UNCHANGED <<disk, writes, used>>
  BY DEF Answer
<1>2. /\ disk = Result(command.kind, command.before, id, command.value)
      /\ id \in Ids /\ Well(command.before) /\ Holds(disk) /\ Ghosts /\ CommandTyped
  BY <1>1 DEF DiskInv, Final
<1>3. Free' /\ CommandTyped' /\ writes' \in Seq(Disk) /\ 1..Len(writes') = {}
  BY <1>1, NoCommandTyped DEF Free, CommandTyped
<1>4. Ghosts' /\ Holds(disk)'
  <2>1. CASE command.kind \in {"save", "saveActive"}
    <3>1. /\ expected' = [expected EXCEPT ![id] = {command.value}]
          /\ deleting' = deleting \ {id} /\ deleted' = deleted
      BY <2>1 DEF Answer
    <3>2. command.value \in Values
      BY <1>2, CommandParts
    <3>3. disk.configs[id] = command.value
      BY <1>2, <2>1, <3>2, SaveResult
    <3>4. /\ expected' \in [Ids -> SUBSET Values] /\ expected'[id] = {command.value}
          /\ \A p \in Ids \ {id} : expected'[p] = expected[p]
      BY <1>2, <3>1, <3>2 DEF Ghosts
    <3>5. Ghosts'
      BY <1>1, <1>2, <3>1, <3>4 DEF Ghosts
    <3>6. \A p \in Listed(disk) \ deleting' : p \in Ids /\ disk.configs[p] \in expected'[p]
      BY <1>2, <3>1, <3>3, <3>4, DiskParts DEF Holds, Well, Sound
    <3> QED BY <1>1, <1>2, <3>1, <3>5, <3>6 DEF Holds, Sound
  <2>2. CASE command.kind = "delete"
    <3>1. deleting' = deleting \ {id} /\ deleted' = deleted \cup {id} /\ expected' = expected
      BY <2>2 DEF Answer
    <3>2. id \in used /\ id \in Listed(command.before) /\ Len(command.before.list) > 1
      BY <1>1, <2>2 DEF DiskInv
    <3>3. id \notin Listed(disk) /\ disk.configs[id] = Absent
      BY <1>2, <2>2, <3>2, DeleteResult
    <3>4. Ghosts'
      BY <1>1, <1>2, <3>1, <3>2 DEF Ghosts
    <3> QED BY <1>1, <1>2, <3>1, <3>3, <3>4 DEF Holds, Sound
  <2>3. CASE command.kind \notin {"save", "saveActive", "delete"}
    <3>1. UNCHANGED <<expected, deleting, deleted>>
      BY <2>3 DEF Answer
    <3> QED BY <1>1, <1>2, <3>1 DEF Ghosts, Holds, Sound
  <2> QED BY <2>1, <2>2, <2>3
<1> QED BY <1>1, <1>2, <1>3, <1>4 DEF DiskInv

-----------------------------------------------------------------------------
(* The page *)

LEMMA PageParts ==
    ASSUME NEW p \in Page
    PROVE  /\ p.at \in {"closed", "list", "relist", "init", "ready"} /\ p.booting \in BOOLEAN
           /\ p.profiles \in Seq(Ids) /\ p.active \in Ids \cup {Absent} /\ p.content \in Values
BY DEF Page

LEMMA PageSet ==
    ASSUME NEW p \in Page, NEW at \in {"closed", "list", "relist", "init", "ready"},
           NEW booting \in BOOLEAN, NEW profiles \in Seq(Ids), NEW act \in Ids \cup {Absent},
           NEW content \in Values, NEW q,
           q = [at |-> at, booting |-> booting, profiles |-> profiles, active |-> act,
                content |-> content]
    PROVE  /\ q \in Page /\ q.at = at /\ q.booting = booting /\ q.profiles = profiles
           /\ q.active = act /\ q.content = content
BY DEF Page

LEMMA ContentTyped ==
    ASSUME NEW d \in Disk, NEW id \in Ids \cup {Absent}
    PROVE  Content(d, id) \in Values
BY DiskParts, LocalAssumption DEF Content

LEMMA FreeKind ==
    ASSUME DiskInv
    PROVE  /\ Free <=> command.kind = "none"
           /\ Free => writes = <<>>
           /\ writes # <<>> => ~Free
BY DEF DiskInv, Free

LEMMA ShownListed ==
    ASSUME PageInv, NEW id \in Shown
    PROVE  id \in Ids /\ (page.profiles = disk.list => id \in Listed(disk))
<1>1. page.profiles \in Seq(Ids)
  BY PageParts DEF PageInv
<1>2. PICK i \in DOMAIN page.profiles : id = page.profiles[i]
  BY DEF Shown
<1>3. page.profiles[i] \in Ids
  BY <1>1, <1>2
<1> QED BY <1>2, <1>3 DEF Listed

\* A command other than the first creation starts; the page goes on waiting
\* where it is.
LEMMA StartedSafe ==
    ASSUME LocalInv, Free, DiskInv', ~Free', Lasting, disk' = disk, reliable' = reliable,
           page' \in Page, page'.at = page.at, page'.booting = page.booting,
           page'.profiles = page.profiles, page'.active = page.active,
           command'.before = disk, command'.kind # "first",
           page.at = CASE command'.kind \in {"first", "repair"} -> "list"
                       [] command'.kind = "saveActive"          -> "init"
                       [] OTHER                                 -> "ready",
           disk.list # <<>>,
           command'.kind = "select" => command'.id \in Shown
    PROVE  LocalInv'
<1>1. Seen = disk /\ Seen' = disk
  BY DEF Seen
<1>2. page.at \in {"list", "init", "ready"}
  OBVIOUS
<1>3. PageInv'
  BY <1>2 DEF LocalInv, PageInv, Opened, Lasting
<1>4. reliable = TRUE /\ command'.kind = "select" => command'.id \in Listed(disk)
  BY <1>1, ShownListed DEF LocalInv, ReliableInv
<1>5. ReliableInv'
  BY <1>1, <1>2, <1>4 DEF LocalInv, ReliableInv
<1> QED BY <1>3, <1>5 DEF LocalInv

LEMMA StartsSafe ==
    ASSUME LocalInv,
           \/ ListEmpty \/ RepairActive \/ SaveDefaults
           \/ \E v \in Values : Edit(v)
           \/ \E id \in Ids : \/ Remove(id) \/ Select(id) \/ Rename(id)
                              \/ \E v \in Values : NewProfile(id, v)
    PROVE  LocalInv'
<1> USE DEF LocalInv
<1>1. CASE ListEmpty
  <2>1. PICK id \in Ids : /\ id = Default \/ Default \in used
                          /\ StartCreate("first", id, Sample)
    BY <1>1 DEF ListEmpty
  <2>2. /\ page.at = "list" /\ disk.list = <<>> /\ Sample \in Values /\ Free
        /\ UNCHANGED <<reliable, disk, page>> /\ used' = used \cup {id}
    BY <1>1, <2>1, LocalAssumption DEF ListEmpty, StartCreate, Run
  <2>3. /\ DiskInv' /\ ~Free'
        /\ command' = [kind |-> "first", id |-> id, value |-> Sample, before |-> disk]
    BY <2>1, <2>2, CreateRuns
  <2>4. /\ command'.kind = "first" /\ command'.value = Sample /\ command'.before = disk
        /\ command'.id = id
    BY <2>3
  <2>5. page.booting => page.content = Sample
    <3>1. disk.active = Absent
      BY <2>2 DEF DiskInv, Holds, Well
    <3> QED BY <2>2, <3>1 DEF PageInv, Content
  <2>6. ~Opened
    BY <2>2 DEF PageInv
  <2>7. PageInv'
    BY <2>2, <2>3, <2>4, <2>5, <2>6 DEF PageInv, Opened
  <2>8. Seen = disk /\ Seen' = disk
    BY <2>2, <2>3, <2>4 DEF Seen
  <2>9. ReliableInv'
    BY <2>1, <2>2, <2>3, <2>4, <2>8 DEF ReliableInv
  <2> QED BY <2>3, <2>7, <2>9
<1>2. CASE RepairActive
  <2> DEFINE first == Head(disk.list)
  <2>1. /\ page.at = "list" /\ disk.list # <<>>
        /\ Run("repair", first, Sample, <<SetActive(disk, first)>>)
        /\ UNCHANGED <<reliable, disk, page, used, ghosts>> /\ Free
    BY <1>2 DEF RepairActive, Run
  <2>2. first \in Listed(disk) /\ first \in Ids
    <3>1. disk.list \in Seq(Ids) /\ DOMAIN disk.list = 1..Len(disk.list)
      BY DiskParts DEF DiskInv, Holds, Well
    <3>2. first = disk.list[1] /\ 1 \in 1..Len(disk.list) /\ first \in Ids
      BY <2>1, <3>1
    <3> QED BY <3>1, <3>2 DEF Listed
  <2> HIDE DEF first
  <2>3. /\ DiskInv' /\ ~Free' /\ Lasting
        /\ command' = [kind |-> "repair", id |-> first, value |-> Sample, before |-> disk]
    BY <2>1, <2>2, ActiveRuns
  <2>4. command'.kind = "repair" /\ command'.before = disk
    BY <2>3
  <2>5. page' \in Page
    BY <2>1 DEF PageInv
  <2> QED BY <2>1, <2>3, <2>4, <2>5, StartedSafe
<1>3. CASE SaveDefaults
  <2>1. /\ page.at = "init" /\ StartSave("saveActive", disk.active, page.content)
        /\ UNCHANGED <<reliable, disk, page>> /\ page \in Page /\ page.content \in Values
        /\ disk.list # <<>>
    BY <1>3, PageParts DEF SaveDefaults, PageInv, Opened
  <2>2. Free
    BY <2>1 DEF StartSave, Run
  <2>3. /\ DiskInv' /\ ~Free' /\ Lasting /\ command'.kind = "saveActive"
        /\ command'.before = disk
    BY <2>1, SaveRuns
  <2> QED BY <2>1, <2>2, <2>3, StartedSafe
<1>4. ASSUME Ready PROVE page.at = "ready" /\ Free /\ disk.list # <<>> /\ page \in Page
  BY <1>4 DEF Ready, PageInv, Opened
<1>5. ASSUME NEW v \in Values, Edit(v) PROVE LocalInv'
  <2>1. /\ Ready /\ StartSave("save", page.active, v) /\ page' = [page EXCEPT !.content = v]
        /\ UNCHANGED <<reliable, disk>>
    BY <1>5 DEF Edit
  <2>2. /\ DiskInv' /\ ~Free' /\ Lasting /\ command'.kind = "save" /\ command'.before = disk
    BY <2>1, SaveRuns
  <2>3. /\ page' \in Page /\ page'.at = page.at /\ page'.booting = page.booting
        /\ page'.profiles = page.profiles /\ page'.active = page.active
    BY <1>4, <2>1 DEF Page
  <2> QED BY <1>4, <2>1, <2>2, <2>3, StartedSafe
<1>6. ASSUME NEW id \in Ids, Remove(id) PROVE LocalInv'
  <2>1. /\ Ready /\ StartDelete(id) /\ UNCHANGED <<reliable, disk, page>>
    BY <1>6 DEF Remove
  <2>2. /\ DiskInv' /\ ~Free' /\ Lasting /\ command'.kind = "delete" /\ command'.before = disk
    BY <2>1, DeleteRuns
  <2> QED BY <1>4, <2>1, <2>2, StartedSafe
<1>7. ASSUME NEW id \in Ids, Select(id) PROVE LocalInv'
  <2>1. /\ Ready /\ id \in Shown /\ UNCHANGED <<reliable, disk, page, used, ghosts>>
        /\ Run("select", id, Sample, <<SetActive(disk, id)>>)
    BY <1>7 DEF Select
  <2>2. /\ DiskInv' /\ ~Free' /\ Lasting
        /\ command' = [kind |-> "select", id |-> id, value |-> Sample, before |-> disk]
    BY <1>4, <2>1, ActiveRuns
  <2>3. command'.kind = "select" /\ command'.before = disk /\ command'.id = id
    BY <2>2
  <2> QED BY <1>4, <2>1, <2>2, <2>3, StartedSafe
<1>8. ASSUME NEW id \in Ids, Rename(id) PROVE LocalInv'
  <2>1. /\ Ready /\ UNCHANGED <<reliable, disk, page, used, ghosts>>
        /\ Run("rename", id, Sample, <<disk>>)
    BY <1>8 DEF Rename
  <2>2. /\ DiskInv' /\ ~Free' /\ Lasting /\ command'.kind = "rename" /\ command'.before = disk
    BY <2>1, RenameRuns
  <2> QED BY <1>4, <2>1, <2>2, StartedSafe
<1>9. ASSUME NEW id \in Ids, NEW v \in Values, NewProfile(id, v) PROVE LocalInv'
  <2>1. /\ Ready /\ StartCreate("create", id, v) /\ UNCHANGED <<reliable, disk, page>>
    BY <1>9 DEF NewProfile
  <2>2. /\ DiskInv' /\ ~Free' /\ Lasting /\ command'.kind = "create" /\ command'.before = disk
    BY <2>1, CreateRuns
  <2> QED BY <1>4, <2>1, <2>2, StartedSafe
<1> QED BY <1>1, <1>2, <1>3, <1>5, <1>6, <1>7, <1>8, <1>9

\* Nothing runs before and after the step, and the disk stays as it is.
LEMMA RestSafe ==
    ASSUME LocalInv, Free, UNCHANGED <<reliable, disk, command, writes, used, ghosts>>,
           page' \in Page, Opened' => disk.list # <<>>,
           page'.at = "ready" => page'.booting = FALSE,
           page'.at = "list" => page'.content = Content(disk, disk.active),
           page'.at = "relist" => FALSE,
           reliable = TRUE =>
             /\ disk.list = <<>> => page'.at \in {"closed", "list"}
             /\ page'.at \in {"init", "ready"} =>
                  page'.profiles = disk.list /\ page'.active = disk.active
    PROVE  LocalInv'
<1>1. DiskInv' /\ Free' /\ writes' = <<>> /\ 1..Len(writes') = {}
  BY DisksQuiet, FreeKind DEF LocalInv, Free
<1>2. command'.kind = "none"
  BY <1>1 DEF Free
<1>3. PageInv'
  BY <1>1, <1>2 DEF PageInv
<1>4. Seen = disk /\ Seen' = disk
  BY <1>1 DEF Seen
<1>5. ReliableInv'
  BY <1>1, <1>2, <1>4 DEF LocalInv, ReliableInv
<1> QED BY <1>1, <1>3, <1>5 DEF LocalInv

LEMMA ClosedTyped ==
    /\ ClosedPage \in Page /\ ClosedPage.at = "closed" /\ ClosedPage.booting = TRUE
BY LocalAssumption DEF ClosedPage, Page

LEMMA RestsSafe ==
    ASSUME LocalInv, Boot \/ List \/ NoDefaults \/ \E v \in Values : EditRefused(v)
    PROVE  LocalInv'
<1> USE DEF LocalInv
<1>1. page \in Page /\ disk \in Disk /\ disk.active \in Ids \cup {Absent} /\ disk.list \in Seq(Ids)
  BY DiskParts DEF PageInv, DiskInv, Holds, Well
<1>2. CASE Boot
  <2>1. /\ page.at = "closed" /\ Free
        /\ page' = [page EXCEPT !.at = "list", !.content = Content(disk, disk.active)]
        /\ UNCHANGED <<reliable, disk, command, writes, used, ghosts>>
    BY <1>2 DEF Boot
  <2>2. Content(disk, disk.active) \in Values
    BY <1>1, ContentTyped
  <2>3. /\ page' \in Page /\ page'.at = "list" /\ page'.booting = page.booting
        /\ page'.content = Content(disk, disk.active)
    BY <1>1, <2>1, <2>2 DEF Page
  <2>4. Opened' => Opened
    BY <2>3 DEF Opened
  <2> QED BY <2>1, <2>3, <2>4, RestSafe DEF PageInv
<1>3. CASE List
  <2>1. /\ Free /\ disk.list # <<>> /\ page' = Refreshed
        /\ UNCHANGED <<reliable, disk, command, writes, used, ghosts>>
    BY <1>3 DEF List
  <2>2. /\ page' \in Page /\ page'.at \in {"init", "ready"} /\ page'.booting = page.booting
        /\ page'.profiles = disk.list /\ page'.active = disk.active
        /\ page'.at = "ready" => page.booting = FALSE
    BY <1>1, <2>1, PageParts DEF Refreshed, Page
  <2> QED BY <2>1, <2>2, RestSafe
<1>4. CASE NoDefaults
  <2>1. /\ page.at = "init" /\ Free
        /\ page' = [page EXCEPT !.at = "ready", !.booting = FALSE]
        /\ UNCHANGED <<reliable, disk, command, writes, used, ghosts>>
    BY <1>4 DEF NoDefaults
  <2>2. /\ page' \in Page /\ page'.at = "ready" /\ page'.booting = FALSE
        /\ page'.profiles = page.profiles /\ page'.active = page.active
    BY <1>1, <2>1 DEF Page
  <2>3. disk.list # <<>>
    BY <2>1 DEF PageInv, Opened
  <2>4. Seen = disk
    BY <2>1 DEF Seen
  <2> QED BY <2>1, <2>2, <2>3, <2>4, RestSafe DEF ReliableInv
<1>5. ASSUME NEW v \in Values, EditRefused(v) PROVE LocalInv'
  <2>1. /\ page.at = "ready" /\ Free /\ page' = [page EXCEPT !.content = v]
        /\ UNCHANGED <<reliable, disk, command, writes, used, ghosts>>
    BY <1>5 DEF EditRefused, Ready
  <2>2. /\ page' \in Page /\ page'.at = "ready" /\ page'.booting = page.booting
        /\ page'.profiles = page.profiles /\ page'.active = page.active
    BY <1>1, <2>1 DEF Page
  <2>3. page.booting = FALSE /\ disk.list # <<>>
    BY <2>1 DEF PageInv, Opened
  <2>4. Seen = disk
    BY <2>1 DEF Seen
  <2> QED BY <2>1, <2>2, <2>3, <2>4, RestSafe DEF ReliableInv
<1> QED BY <1>2, <1>3, <1>4, <1>5

LEMMA WritesSafe ==
    ASSUME LocalInv, WriteNext
    PROVE  LocalInv'
<1> USE DEF LocalInv
<1>1. /\ writes # <<>> /\ disk' = Head(writes) /\ writes' = Tail(writes)
      /\ UNCHANGED <<reliable, command, page, used>> /\ writes \in Seq(Disk)
  BY DEF WriteNext, DiskInv
<1>2. ~Free /\ ~Free' /\ DiskInv'
  BY <1>1, FreeKind, DisksWritten DEF Free
<1>3. /\ Head(writes) = writes[1] /\ 1 \in 1..Len(writes)
      /\ \A i \in 1..Len(writes') : writes'[i] = writes[i + 1] /\ i + 1 \in 1..Len(writes)
  BY <1>1
<1>4. page.at # "relist"
  BY <1>2 DEF PageInv
<1>5. PageInv'
  BY <1>1, <1>2, <1>3, <1>4 DEF PageInv, Opened
<1>6. Seen' = Seen
  BY <1>1, <1>2 DEF Seen
<1>7. ReliableInv'
  BY <1>1, <1>2, <1>6 DEF ReliableInv
<1> QED BY <1>2, <1>5, <1>7

LEMMA StopsSafe ==
    ASSUME LocalInv, WriteFails \/ ListFails \/ Killed
    PROVE  LocalInv'
<1> USE DEF LocalInv
<1>1. /\ DiskInv' /\ Free' /\ writes' = <<>> /\ command'.kind = "none"
      /\ UNCHANGED <<disk, reliable, used>>
  <2>1. CASE WriteFails \/ Killed
    BY <2>1, DisksStop, NoCommandTyped DEF WriteFails, Killed
  <2>2. CASE ListFails
    BY <2>2, DisksQuiet, FreeKind DEF ListFails, Free
  <2> QED BY <2>1, <2>2
<1>2. /\ page' \in {ClosedPage, [page EXCEPT !.at = "ready"]}
      /\ page' = ClosedPage \/ page.booting # TRUE
  BY DEF WriteFails, ListFails, Killed, Stopped
<1>3. page \in Page
  BY DEF PageInv
<1>4. PageInv'
  <2>1. 1..Len(writes') = {}
    BY <1>1
  <2>2. CASE page' = ClosedPage
    BY <1>1, <2>1, <2>2, ClosedTyped DEF PageInv, Opened
  <2>3. CASE page' = [page EXCEPT !.at = "ready"] /\ page.booting # TRUE
    <3>1. /\ page' \in Page /\ page'.at = "ready" /\ page'.booting = page.booting
          /\ page.booting = FALSE
      BY <1>3, <2>3, PageParts DEF Page
    <3>2. disk.list # <<>>
      BY <3>1 DEF PageInv, Opened
    <3> QED BY <1>1, <2>1, <3>1, <3>2 DEF PageInv
  <2> QED BY <1>2, <2>2, <2>3
<1>5. ReliableInv'
  <2> SUFFICES ASSUME reliable = TRUE PROVE ReliableInv'
    BY <1>1 DEF ReliableInv
  <2>1. Free /\ page'.at = "closed"
    BY ClosedTyped DEF WriteFails, ListFails, Killed
  <2>2. Seen = disk /\ Seen' = disk
    BY <1>1, <2>1 DEF Seen
  <2> QED BY <1>1, <2>1, <2>2 DEF ReliableInv
<1> QED BY <1>1, <1>4, <1>5

LEMMA AnswersSafe ==
    ASSUME LocalInv, Answer
    PROVE  LocalInv'
<1> USE DEF LocalInv
<1> DEFINE b == command.before
           id == command.id
<1>1. /\ ~Free /\ writes = <<>> /\ command' = NoCommand /\ page' = PageAfter
      /\ UNCHANGED <<reliable, disk, writes, used>>
  BY DEF Answer
<1>2. /\ DiskInv' /\ Free' /\ disk = Result(command.kind, b, id, command.value)
      /\ command'.kind = "none" /\ 1..Len(writes') = {}
  BY <1>1, DisksAnswered, NoCommandTyped
<1>3. /\ Well(b) /\ id \in Ids /\ command.value \in Values /\ disk \in Disk
      /\ command.kind \in CommandKinds \ {"none"} /\ page \in Page
      /\ disk.active \in Ids \cup {Absent}
  BY <1>1, CommandParts, DiskParts DEF DiskInv, Holds, Well, Free, PageInv
<1>4. Seen = b /\ Seen' = disk
  BY <1>1, <1>2 DEF Seen
<1>5. Content(disk, disk.active) \in Values /\ Content(disk, id) \in Values
  BY <1>3, ContentTyped
\* After a command the page may go on at the list with what is active now.
<1>6. ASSUME page' = [page EXCEPT !.at = "list", !.content = Content(disk, disk.active)],
             disk.list # <<>>, reliable = TRUE => InOrder(disk)
      PROVE  LocalInv'
  <2>1. /\ page' \in Page /\ page'.at = "list" /\ page'.content = Content(disk, disk.active)
    BY <1>3, <1>5, <1>6 DEF Page
  <2>2. PageInv'
    BY <1>1, <1>2, <1>6, <2>1 DEF PageInv
  <2>3. ReliableInv'
    BY <1>1, <1>2, <1>4, <1>6, <2>1 DEF ReliableInv
  <2> QED BY <1>2, <2>2, <2>3
<1>7. reliable = TRUE /\ command.kind # "first" => InOrder(b)
  BY <1>1, <1>4 DEF ReliableInv
<1>8. CASE command.kind = "first"
  <2>1. page' = page /\ page.at = "list" /\ (page.booting => page.content = Sample)
        /\ command.value = Sample /\ id \notin Listed(b)
    BY <1>1, <1>8 DEF PageAfter, PageInv, DiskInv
  <2>2. /\ Listed(disk) = Listed(b) \cup {id} /\ disk.list # <<>> /\ disk.active = id
        /\ disk.configs[id] = Sample
    BY <1>2, <1>3, <1>8, <2>1, CreateResult
  <2>3. Content(disk, disk.active) = Sample
    BY <2>2 DEF Content
  <2>4. PageInv'
    BY <1>1, <1>2, <2>1, <2>2, <2>3 DEF PageInv
  <2>5. reliable = TRUE => InOrder(disk)
    <3>1. reliable = TRUE => b.list = <<>>
      BY <1>4, <1>8 DEF ReliableInv
    <3>2. b.list = <<>> => Listed(b) = {}
      BY DEF Listed
    <3> QED BY <2>2, <3>1, <3>2, LocalAssumption DEF InOrder
  <2>6. ReliableInv'
    BY <1>1, <1>2, <1>4, <2>1, <2>2, <2>5 DEF ReliableInv
  <2> QED BY <1>2, <2>4, <2>6
<1>9. CASE command.kind = "repair"
  <2>1. /\ page.at = "list" /\ id \in Listed(b)
        /\ page' = [page EXCEPT !.at = "relist", !.content = Content(disk, id)]
    BY <1>1, <1>9 DEF PageAfter, PageInv, DiskInv
  <2>2. /\ disk.list = b.list /\ disk.active = id /\ disk.configs = b.configs
        /\ Listed(disk) = Listed(b)
    BY <1>2, <1>3, <1>9, ActiveResult
  <2>3. /\ page' \in Page /\ page'.at = "relist" /\ page'.content = Content(disk, id)
        /\ page'.booting = page.booting
    BY <1>3, <1>5, <2>1 DEF Page
  <2>4. disk.list # <<>>
    BY <2>1, <2>2 DEF Listed
  <2>5. PageInv'
    BY <1>1, <1>2, <2>1, <2>2, <2>3, <2>4 DEF PageInv
  <2>6. reliable = TRUE => InOrder(disk)
    BY <1>7, <1>9, <2>1, <2>2 DEF InOrder
  <2>7. ReliableInv'
    BY <1>1, <1>2, <1>4, <2>3, <2>4, <2>6 DEF ReliableInv
  <2> QED BY <1>2, <2>5, <2>7
<1>10. CASE command.kind \in {"save", "saveActive"}
  <2>1. /\ page.at \in {"init", "ready"}
        /\ page' = IF command.kind = "save" THEN page
                   ELSE [page EXCEPT !.at = "ready", !.booting = FALSE]
    BY <1>1, <1>10 DEF PageAfter, PageInv
  <2>2. /\ disk.list = b.list /\ disk.active = b.active /\ Listed(disk) = Listed(b)
        /\ disk.configs[id] = command.value
        /\ \A p \in Ids \ {id} : disk.configs[p] = b.configs[p]
    BY <1>2, <1>3, <1>10, SaveResult
  <2>3. /\ page' \in Page /\ page'.at = "ready" /\ page'.booting = FALSE
        /\ page'.profiles = page.profiles /\ page'.active = page.active
    <3>1. CASE command.kind = "save"
      BY <1>1, <1>3, <2>1, <3>1 DEF PageInv
    <3>2. CASE command.kind = "saveActive"
      BY <1>3, <2>1, <3>2 DEF Page
    <3> QED BY <1>10, <3>1, <3>2
  <2>4. disk.list # <<>>
    BY <2>1 DEF PageInv, Opened
  <2>5. PageInv'
    BY <1>1, <1>2, <2>3, <2>4 DEF PageInv
  <2>6. reliable = TRUE => InOrder(disk)
    <3>1. Listed(b) \subseteq Ids
      BY <1>3, DiskParts DEF Well
    <3> QED BY <1>3, <1>7, <1>10, <2>2, <3>1 DEF InOrder
  <2>7. reliable = TRUE => page.profiles = disk.list /\ page.active = disk.active
    BY <1>4, <2>1, <2>2 DEF ReliableInv
  <2>8. ReliableInv'
    BY <1>1, <1>2, <1>4, <2>3, <2>4, <2>6, <2>7 DEF ReliableInv
  <2> QED BY <1>2, <2>5, <2>8
<1>11. ASSUME command.kind \in {"select", "rename", "create", "delete"}
       PROVE  page.at = "ready" /\ disk.list # <<>>
  BY <1>1, <1>11 DEF PageInv, Opened
<1>12. CASE command.kind = "select"
  <2>1. page' = [page EXCEPT !.at = "list", !.content = Content(disk, disk.active)]
    BY <1>1, <1>12 DEF PageAfter
  <2>2. /\ disk.active = id /\ disk.configs = b.configs /\ Listed(disk) = Listed(b)
    BY <1>2, <1>3, <1>12, ActiveResult
  <2>3. reliable = TRUE => InOrder(disk)
    BY <1>4, <1>7, <1>12, <2>2 DEF InOrder, ReliableInv
  <2> QED BY <1>6, <1>11, <1>12, <2>1, <2>3
<1>13. CASE command.kind = "create"
  <2>1. /\ page' = [page EXCEPT !.at = "list", !.content = Content(disk, disk.active)]
        /\ id \notin Listed(b)
    BY <1>1, <1>13 DEF PageAfter, DiskInv
  <2>2. /\ Listed(disk) = Listed(b) \cup {id} /\ disk.active = id
        /\ disk.configs[id] = command.value
        /\ \A p \in Ids \ {id} : disk.configs[p] = b.configs[p]
    BY <1>2, <1>3, <1>13, <2>1, CreateResult
  <2>3. reliable = TRUE => InOrder(disk)
    <3>1. Listed(b) \subseteq Ids
      BY <1>3, DiskParts DEF Well
    <3> QED BY <1>3, <1>7, <1>13, <2>2, <3>1 DEF InOrder
  <2> QED BY <1>6, <1>11, <1>13, <2>1, <2>3
<1>14. CASE command.kind = "delete"
  <2>1. /\ page' = [page EXCEPT !.at = "list", !.content = Content(disk, disk.active)]
        /\ id \in Listed(b) /\ Len(b.list) > 1
    BY <1>1, <1>14 DEF PageAfter, DiskInv
  <2>2. /\ Listed(disk) = Listed(b) \ {id}
        /\ (b.active = id => disk.active \in Listed(disk))
        /\ (b.active # id => disk.active = b.active)
        /\ \A p \in Ids \ {id} : disk.configs[p] = b.configs[p]
    BY <1>2, <1>3, <1>14, <2>1, DeleteResult
  <2>3. reliable = TRUE => InOrder(disk)
    <3>1. Listed(b) \subseteq Ids
      BY <1>3, DiskParts DEF Well
    <3> QED BY <1>7, <1>14, <2>2, <3>1 DEF InOrder
  <2> QED BY <1>6, <1>11, <1>14, <2>1, <2>3
<1>15. CASE command.kind = "rename"
  <2>1. /\ page' = [page EXCEPT !.at = "list"] /\ disk = b
    BY <1>1, <1>2, <1>15 DEF PageAfter, Result
  <2>2. /\ page' \in Page /\ page'.at = "list" /\ page'.booting = FALSE
    BY <1>3, <1>11, <1>15, <2>1 DEF Page, PageInv
  <2>3. PageInv'
    BY <1>1, <1>2, <1>11, <1>15, <2>2 DEF PageInv
  <2>4. ReliableInv'
    BY <1>1, <1>2, <1>4, <1>7, <1>11, <1>15, <2>1, <2>2 DEF ReliableInv
  <2> QED BY <1>2, <2>3, <2>4
<1> QED BY <1>3, <1>8, <1>9, <1>10, <1>12, <1>13, <1>14, <1>15 DEF CommandKinds


-----------------------------------------------------------------------------
(* Every state keeps the promises *)

LEMMA LocalStart ==
    LocalInit => LocalInv
<1> SUFFICES ASSUME LocalInit PROVE LocalInv
  OBVIOUS
<1>1. /\ disk = EmptyDisk /\ command = NoCommand /\ writes = <<>> /\ page = ClosedPage
      /\ used = {} /\ expected = [id \in Ids |-> {}] /\ deleting = {} /\ deleted = {}
  BY DEF LocalInit
<1>2. /\ Free /\ EmptyDisk \in Disk /\ CommandTyped /\ Seen = disk /\ 1..Len(writes) = {}
      /\ command.kind = "none"
  BY <1>1, NoCommandTyped DEF Free, CommandTyped, Seen
<1>3. /\ EmptyDisk.list = <<>> /\ EmptyDisk.active = Absent /\ Listed(EmptyDisk) = {}
      /\ Distinct(EmptyDisk.list)
  BY DEF EmptyDisk, Listed, Distinct
<1>4. Holds(disk) /\ Ghosts /\ writes \in Seq(Disk)
  BY <1>1, <1>2, <1>3 DEF Holds, Well, Sound, Ghosts
<1>5. DiskInv
  BY <1>1, <1>2, <1>4 DEF DiskInv
<1>6. page \in Page /\ page.at = "closed" /\ page.booting = TRUE
  BY <1>1, ClosedTyped
<1>7. PageInv
  BY <1>2, <1>6 DEF PageInv, Opened
<1>8. ReliableInv
  BY <1>1, <1>2, <1>3, <1>6 DEF ReliableInv
<1> QED BY <1>5, <1>7, <1>8 DEF LocalInv

LEMMA LocalStep ==
    LocalInv /\ [LocalNext]_localVars => LocalInv'
<1> SUFFICES ASSUME LocalInv, [LocalNext]_localVars PROVE LocalInv'
  OBVIOUS
<1>1. CASE UNCHANGED localVars
  <2>1. UNCHANGED <<disk, command, writes, used, ghosts>> /\ UNCHANGED <<page, reliable>>
    BY <1>1 DEF localVars, ghosts
  <2>2. DiskInv'
    BY <2>1, DisksQuiet DEF LocalInv
  <2>3. PageInv'
    BY <2>1 DEF LocalInv, PageInv, Opened, Free
  <2>4. ReliableInv'
    BY <2>1 DEF LocalInv, ReliableInv, Seen, Free
  <2> QED BY <2>2, <2>3, <2>4 DEF LocalInv
<1>2. CASE LocalNext
  <2>1. \/ ListEmpty \/ RepairActive \/ SaveDefaults
        \/ \E v \in Values : Edit(v)
        \/ \E id \in Ids : \/ Remove(id) \/ Select(id) \/ Rename(id)
                           \/ \E v \in Values : NewProfile(id, v)
        \/ Boot \/ List \/ NoDefaults \/ \E v \in Values : EditRefused(v)
        \/ WriteNext \/ Answer \/ WriteFails \/ ListFails \/ Killed
    BY <1>2 DEF LocalNext
  <2> QED BY <2>1, StartsSafe, RestsSafe, WritesSafe, AnswersSafe, StopsSafe
<1> QED BY <1>1, <1>2

\* LocalInv holds in every state of the desktop store.
THEOREM StoreInvariant == LocalSpec => []LocalInv
BY LocalStart, LocalStep, PTL DEF LocalSpec

\* No profile is lost or comes back, wherever the program is killed or a write
\* fails: each has the content of its last confirmed save or of an unconfirmed
\* one after it (save_user_config_value, delete_user_config).
THEOREM ProfilesDurable == LocalSpec => []Durable
<1>1. LocalInv => Durable
  BY DEF LocalInv, DiskInv, Holds, Sound, Durable
<1> QED BY <1>1, StoreInvariant, PTL

\* A refresh that succeeds shows the active profile of the list, and opening
\* the page its content (refreshPlayerProfiles, bootstrap), whatever was
\* interrupted before.
THEOREM RefreshShowsActive == LocalSpec => RefreshRepairs
<1>1. ASSUME LocalInv, [LocalNext]_localVars
      PROVE  [List => /\ page'.active \in Listed(disk)
                      /\ page.booting => page'.content = Content(disk, page'.active)]_localVars
  <2> SUFFICES ASSUME List
               PROVE  /\ page'.active \in Listed(disk)
                      /\ page.booting => page'.content = Content(disk, page'.active)
    OBVIOUS
  <2>1. /\ page.at \in {"list", "relist"} /\ Free /\ page' = Refreshed
        /\ page.at = "list" => ~NeedsRepair(disk)
    BY DEF List
  <2>2. page \in Page
    BY <1>1 DEF LocalInv, PageInv
  <2>3. page'.active = disk.active /\ page'.content = page.content
    BY <2>1, <2>2 DEF Refreshed, Page
  <2>4. CASE page.at = "list"
    <3>1. page.booting => page.content = Content(disk, disk.active)
      BY <1>1, <2>1, <2>4 DEF LocalInv, PageInv
    <3> QED BY <2>1, <2>3, <2>4, <3>1 DEF NeedsRepair
  <2>5. CASE page.at = "relist"
    <3>1. disk.active \in Listed(disk) /\ page.content = Content(disk, disk.active)
      BY <1>1, <2>5 DEF LocalInv, PageInv
    <3> QED BY <2>3, <3>1
  <2> QED BY <2>1, <2>4, <2>5
<1> QED BY <1>1, StoreInvariant, PTL DEF LocalSpec, RefreshRepairs

-----------------------------------------------------------------------------
(* The promise of the store *)

\* The profiles as the user sees them on a disk.
Profiles(d) == [id \in Listed(d) |-> d.configs[id]]
FreshProfiles == [id \in {Default} |-> Sample]
SeenProfiles == IF Fresh THEN FreshProfiles ELSE Profiles(Seen)
Without(f, id) == [p \in DOMAIN f \ {id} |-> f[p]]
With(f, id, v) == [p \in DOMAIN f \cup {id} |-> IF p = id THEN v ELSE f[p]]
SeenActive == IF Fresh THEN Default ELSE Seen.active

LEMMA Steady ==
    ASSUME [LocalNext]_localVars
    PROVE  reliable' = reliable
BY DEF LocalNext, localVars, Boot, ListEmpty, List, RepairActive, SaveDefaults, NoDefaults,
       Edit, EditRefused, Remove, Select, Rename, NewProfile, WriteNext, Answer, WriteFails,
       ListFails, Killed

\* Only the answer of a command shows.
LEMMA OnlyAnswersShow ==
    ASSUME LocalInv, [LocalNext]_localVars, reliable = TRUE, ~Answer
    PROVE  Seen' = Seen
<1>1. ASSUME NEW kind \in CommandKinds \ {"none"}, NEW id, NEW v, NEW disks,
             Run(kind, id, v, disks), disk' = disk
      PROVE  Seen' = Seen
  <2>1. Free /\ command'.kind = kind /\ command'.before = disk
    BY <1>1 DEF Run
  <2>2. ~Free'
    BY <2>1 DEF Free
  <2> QED BY <2>1, <2>2 DEF Seen
<1>2. CASE UNCHANGED localVars \/ Boot \/ List \/ NoDefaults \/ \E v \in Values : EditRefused(v)
  <2>1. disk' = disk /\ command' = command
    BY <1>2 DEF localVars, Boot, List, NoDefaults, EditRefused
  <2> QED BY <2>1 DEF Seen, Free
<1>3. CASE WriteNext
  <2>1. ~Free /\ command' = command
    BY <1>3, FreeKind DEF LocalInv, WriteNext
  <2> QED BY <2>1 DEF Seen, Free
<1>4. CASE WriteFails \/ ListFails \/ Killed
  <2>1. Free /\ command' = NoCommand /\ disk' = disk
    BY <1>4 DEF WriteFails, ListFails, Killed
  <2> QED BY <2>1, NoCommandTyped DEF Seen, Free
<1>5. CASE \/ ListEmpty \/ RepairActive \/ SaveDefaults
           \/ \E v \in Values : Edit(v)
           \/ \E id \in Ids : \/ Remove(id) \/ Select(id) \/ Rename(id)
                              \/ \E v \in Values : NewProfile(id, v)
  <2>1. \E kind \in CommandKinds \ {"none"} : \E id, v, disks :
           Run(kind, id, v, disks) /\ disk' = disk
    BY <1>5 DEF ListEmpty, RepairActive, SaveDefaults, Edit, Remove, Select, Rename, NewProfile,
                StartCreate, StartSave, StartDelete, ghosts, CommandKinds
  <2> QED BY <1>1, <2>1
<1> QED BY <1>2, <1>3, <1>4, <1>5 DEF LocalNext

LEMMA FirstShows ==
    ASSUME NEW d, d.list = <<>>, NEW e, Listed(e) = Listed(d) \cup {Default},
           e.configs[Default] = Sample
    PROVE  Profiles(e) = FreshProfiles
<1>1. Listed(e) = {Default}
  BY DEF Listed
<1> QED BY <1>1 DEF Profiles, FreshProfiles

LEMMA SaveShows ==
    ASSUME NEW d \in Disk, NEW e \in Disk, Listed(e) = Listed(d), e.active = d.active,
           NEW id \in Listed(d), NEW v, e.configs[id] = v,
           \A p \in Ids \ {id} : e.configs[p] = d.configs[p]
    PROVE  Profiles(e) = [Profiles(d) EXCEPT ![id] = v]
<1>1. Listed(d) \subseteq Ids
  BY DiskParts
<1> QED BY <1>1 DEF Profiles

LEMMA CreateShows ==
    ASSUME NEW d \in Disk, NEW e \in Disk, NEW id \in Ids, Listed(e) = Listed(d) \cup {id},
           id \notin Listed(d), NEW v, e.configs[id] = v,
           \A p \in Ids \ {id} : e.configs[p] = d.configs[p]
    PROVE  /\ Profiles(e) = With(Profiles(d), id, v)
           /\ id \notin DOMAIN Profiles(d)
<1>1. Listed(d) \subseteq Ids
  BY DiskParts
<1> QED BY <1>1 DEF Profiles, With

LEMMA DeleteShows ==
    ASSUME NEW d \in Disk, NEW e \in Disk, NEW id \in Listed(d), Listed(e) = Listed(d) \ {id},
           e.list # <<>>, \A p \in Ids \ {id} : e.configs[p] = d.configs[p]
    PROVE  /\ Profiles(e) = Without(Profiles(d), id)
           /\ DOMAIN Profiles(d) \ {id} # {}
<1>1. Listed(d) \subseteq Ids
  BY DiskParts
<1>2. Listed(e) # {}
  <2>1. e.list \in Seq(Ids)
    BY DiskParts
  <2>2. e.list[1] \in Listed(e)
    <3>1. 1 \in DOMAIN e.list
      BY <2>1
    <3> QED BY <3>1 DEF Listed
  <2> QED BY <2>2
<1> QED BY <1>1, <1>2 DEF Profiles, Without

\* An answer shows one operation of the promised store.
LEMMA AnswersShow ==
    ASSUME LocalInv, Answer, reliable = TRUE
    PROVE  \/ SeenProfiles' = SeenProfiles /\ SeenActive' = SeenActive
           \/ \E id \in Ids :
                /\ id \in DOMAIN SeenProfiles
                /\ SeenActive' = id /\ SeenProfiles' = SeenProfiles
           \/ \E id \in Ids :
                /\ id \in DOMAIN SeenProfiles /\ DOMAIN SeenProfiles \ {id} # {}
                /\ SeenProfiles' = Without(SeenProfiles, id)
                /\ IF SeenActive = id THEN SeenActive' \in DOMAIN SeenProfiles \ {id}
                                      ELSE SeenActive' = SeenActive
           \/ \E id \in Ids : \E v \in Values :
                /\ id \in DOMAIN SeenProfiles
                /\ SeenProfiles' = [SeenProfiles EXCEPT ![id] = v]
                /\ SeenActive' = SeenActive
           \/ \E id \in Ids : \E v \in Values :
                /\ id \in Ids \ DOMAIN SeenProfiles
                /\ SeenProfiles' = With(SeenProfiles, id, v)
                /\ SeenActive' = id
<1> DEFINE b == command.before
           id == command.id
           v == command.value
<1>1. /\ ~Free /\ writes = <<>> /\ UNCHANGED <<reliable, disk>>
  BY DEF Answer
<1>2. /\ Free' /\ disk = Result(command.kind, b, id, v)
      /\ Well(b) /\ id \in Ids /\ v \in Values /\ disk \in Disk /\ b \in Disk
      /\ command.kind \in CommandKinds \ {"none"}
  BY <1>1, DisksAnswered, CommandParts DEF LocalInv, DiskInv, Holds, Well, Free
<1>3. Seen = b /\ Seen' = disk
  BY <1>1, <1>2 DEF Seen
<1>4. CASE command.kind = "first"
  <2>1. b.list = <<>> /\ id = Default /\ v = Sample /\ id \notin Listed(b)
    BY <1>1, <1>3, <1>4 DEF LocalInv, ReliableInv, PageInv, DiskInv
  <2>2. /\ Listed(disk) = Listed(b) \cup {id} /\ disk.list # <<>> /\ disk.active = id
        /\ disk.configs[id] = v
    BY <1>2, <1>4, <2>1, CreateResult
  <2>3. Profiles(disk) = FreshProfiles
    BY <2>1, <2>2, FirstShows
  <2>4. Fresh /\ ~Fresh'
    BY <1>1, <1>3, <2>1, <2>2 DEF Fresh
  <2>5. /\ SeenProfiles = FreshProfiles /\ SeenActive = Default
        /\ SeenProfiles' = Profiles(disk) /\ SeenActive' = disk.active
    BY <1>1, <1>3, <2>4 DEF SeenProfiles, SeenActive, Profiles, FreshProfiles, Listed
  <2> QED BY <2>1, <2>2, <2>3, <2>5
<1>5. CASE command.kind # "first"
  <2>1. /\ b.list # <<>> /\ InOrder(b)
    BY <1>1, <1>3, <1>5 DEF LocalInv, ReliableInv
  <2>2. ~Fresh /\ SeenProfiles = Profiles(b) /\ SeenActive = b.active
    BY <1>3, <2>1 DEF Fresh, SeenProfiles, SeenActive
  <2>3. ASSUME disk.list # <<>>
        PROVE  SeenProfiles' = Profiles(disk) /\ SeenActive' = disk.active
    <3>1. ~Fresh'
      BY <1>1, <1>3, <2>3 DEF Fresh
    <3> QED BY <1>1, <1>3, <3>1 DEF SeenProfiles, SeenActive, Profiles, Listed
  <2>4. DOMAIN Profiles(b) = Listed(b)
    BY DEF Profiles
  <2>5. CASE command.kind \in {"save", "saveActive"}
    <3>1. id \in Listed(b)
      BY <1>1, <2>5 DEF LocalInv, DiskInv
    <3>2. /\ disk.list = b.list /\ disk.active = b.active /\ Listed(disk) = Listed(b)
          /\ disk.configs[id] = v /\ \A p \in Ids \ {id} : disk.configs[p] = b.configs[p]
      BY <1>2, <2>5, SaveResult
    <3>3. Profiles(disk) = [Profiles(b) EXCEPT ![id] = v]
      BY <1>2, <3>1, <3>2, SaveShows
    <3> QED BY <1>2, <2>1, <2>2, <2>3, <2>4, <3>1, <3>2, <3>3
  <2>6. CASE command.kind \in {"select", "repair"}
    <3>1. id \in Listed(b)
      BY <1>1, <1>3, <2>6 DEF LocalInv, DiskInv, ReliableInv
    <3>2. /\ disk.list = b.list /\ disk.active = id /\ disk.configs = b.configs
          /\ Listed(disk) = Listed(b)
      BY <1>2, <2>6, ActiveResult
    <3>3. Profiles(disk) = Profiles(b)
      BY <3>2 DEF Profiles
    <3> QED BY <1>2, <2>1, <2>2, <2>3, <2>4, <3>1, <3>2, <3>3
  <2>7. CASE command.kind = "create"
    <3>1. id \notin Listed(b)
      BY <1>1, <2>7 DEF LocalInv, DiskInv
    <3>2. /\ Listed(disk) = Listed(b) \cup {id} /\ disk.list # <<>> /\ disk.active = id
          /\ disk.configs[id] = v /\ \A p \in Ids \ {id} : disk.configs[p] = b.configs[p]
      BY <1>2, <2>7, <3>1, CreateResult
    <3>3. /\ Profiles(disk) = With(Profiles(b), id, v)
          /\ id \notin DOMAIN Profiles(b)
      BY <1>2, <3>1, <3>2, CreateShows
    <3> QED BY <1>2, <2>2, <2>3, <3>2, <3>3
  <2>8. CASE command.kind = "delete"
    <3>1. id \in Listed(b) /\ Len(b.list) > 1
      BY <1>1, <2>8 DEF LocalInv, DiskInv
    <3>2. /\ Listed(disk) = Listed(b) \ {id} /\ disk.list # <<>>
          /\ (b.active = id => disk.active \in Listed(disk))
          /\ (b.active # id => disk.active = b.active)
          /\ \A p \in Ids \ {id} : disk.configs[p] = b.configs[p]
      BY <1>2, <2>8, <3>1, DeleteResult
    <3>3. /\ Profiles(disk) = Without(Profiles(b), id)
          /\ DOMAIN Profiles(b) \ {id} # {}
      BY <1>2, <3>1, <3>2, DeleteShows
    <3>4. IF b.active = id THEN disk.active \in DOMAIN Profiles(b) \ {id}
                           ELSE disk.active = b.active
      BY <2>4, <3>2
    <3> QED BY <1>2, <2>2, <2>3, <2>4, <3>1, <3>2, <3>3, <3>4
  <2>9. CASE command.kind = "rename"
    <3>1. disk = b
      BY <1>2, <2>9 DEF Result
    <3> QED BY <2>1, <2>2, <2>3, <3>1
  <2> QED BY <1>2, <1>5, <2>5, <2>6, <2>7, <2>8, <2>9 DEF CommandKinds
<1> QED BY <1>4, <1>5

\* On a reliable disk, which a kill between two commands leaves reliable, the
\* commands of the desktop client (create, save, select and delete_user_config)
\* implement the store of profiles: each takes effect at once when it answers,
\* and the first list and the repair of the active profile do not show.
THEOREM CommandsAreStore == LocalSpec => KeepsPromise
<1>1. LocalInit => Promise!StoreInit
  <2> SUFFICES ASSUME LocalInit PROVE Promise!StoreInit
    OBVIOUS
  <2>1. Seen.list = <<>>
    <3>1. disk = EmptyDisk /\ command = NoCommand
      BY DEF LocalInit
    <3> QED BY <3>1, NoCommandTyped DEF Seen, Free, EmptyDisk
  <2>2. Fresh
    BY <2>1 DEF Fresh
  <2> QED BY <2>2, LocalAssumption DEF Promise!StoreInit
<1>2. LocalInv /\ reliable \in BOOLEAN /\ [LocalNext]_localVars
        => [Promise!StoreNext]_(Promise!storeVars)
  <2> SUFFICES ASSUME LocalInv, reliable \in BOOLEAN, [LocalNext]_localVars
               PROVE  Promise!StoreNext \/ (SeenProfiles' = SeenProfiles /\ SeenActive' = SeenActive)
    BY DEF Promise!storeVars, SeenProfiles, SeenActive, Profiles, FreshProfiles
  <2>1. reliable' = reliable
    BY Steady
  <2>2. CASE reliable = FALSE
    <3>1. Fresh /\ Fresh'
      BY <2>1, <2>2 DEF Fresh
    <3> QED BY <3>1 DEF SeenProfiles, SeenActive, FreshProfiles
  <2>3. CASE reliable = TRUE /\ ~Answer
    <3>1. Seen' = Seen
      BY <2>3, OnlyAnswersShow
    <3> QED BY <2>1, <3>1 DEF SeenProfiles, SeenActive, FreshProfiles, Profiles, Fresh, Listed
  <2>4. CASE reliable = TRUE /\ Answer
    <3> USE DEF Promise!StoreNext
    <3> QED BY <2>4, AnswersShow
          DEF Promise!StoreSave, Promise!StoreSelect, Promise!StoreCreate,
              Promise!StoreDelete, With, Without, SeenProfiles, SeenActive, Profiles, FreshProfiles
  <2> QED BY <2>2, <2>3, <2>4
<1>3. LocalInit => reliable \in BOOLEAN
  BY DEF LocalInit
<1>4. reliable \in BOOLEAN /\ [LocalNext]_localVars => (reliable \in BOOLEAN)'
  BY Steady
<1> QED BY <1>1, <1>2, <1>3, <1>4, StoreInvariant, PTL DEF LocalSpec, KeepsPromise, Promise!StoreSpec

-----------------------------------------------------------------------------
(* The game-data cache *)

LEMMA FileTypes ==
    /\ Core \in Seq(Files) /\ Required \in Seq(Files) /\ Details \in Seq(Files)
    /\ CoreFiles \subseteq Files /\ Elements(Details) \subseteq Files
    /\ Elements(Repair) \subseteq CoreFiles /\ Elements(Required) \subseteq CoreFiles
  <1>1. CoreFiles \subseteq Files /\ Elements(Details) \subseteq Files
    BY DEF Files
  <1>2. /\ Elements(Repair) \subseteq CoreFiles /\ Elements(Required) \subseteq CoreFiles
        /\ Elements(Repair) \subseteq Files /\ Elements(Required) \subseteq Files
    BY DEF CoreFiles, Files
  <1>3. Required \in Seq(Files) /\ Repair \in Seq(Files) /\ Details \in Seq(Files)
    BY <1>1, <1>2, SeqMonotonic, CacheAssumption
  <1>4. Core \in Seq(Files)
    BY <1>3, ConcatProperties DEF Core
  <1> QED  BY <1>1, <1>2, <1>3, <1>4

LEMMA UnlistedType == Unlisted \in [Files -> Versions]
  BY CacheAssumption DEF Unlisted, Versions

LEMMA IdleType == Idle \in Command /\ ~Idle.changed /\ Idle.at = "idle"
  <1>1. 0 \in Versions
    BY CacheAssumption DEF Versions
  <1>2. << >> \in Seq(Files)
    BY EmptySeq
  <1> QED
    BY <1>1, <1>2, UnlistedType DEF Idle, Command, Kinds, Dirs

-----------------------------------------------------------------------------
(* What the steps of a command keep *)

\* A command that waits with a file to write has one, and one that is idle,
\* before its fix files or before its calculation has changed nothing since
\* it last dropped the calculator.
Settled(o) ==
    /\ o.at = "write" => o.todo # << >>
    /\ o.at \in {"idle", "fix", "compute"} => ~o.changed

LEMMA EnterCoreType ==
    ASSUME NEW o \in Command
    PROVE  /\ EnterCore(o) \in Command /\ Settled(EnterCore(o))
           /\ EnterCore(o).changed = o.changed
  BY FileTypes DEF EnterCore, Command, Settled, Dirs

LEMMA EnterDetailType ==
    ASSUME NEW o \in Command, o.extra # << >>
    PROVE  /\ EnterDetail(o) \in Command /\ Settled(EnterDetail(o))
           /\ EnterDetail(o).changed = o.changed
  <1>1. Head(o.extra) \in Files /\ Tail(o.extra) \in Seq(Files)
    BY HeadTailProperties DEF Command
  <1>2. << Head(o.extra) >> \in Seq(Files)
    BY <1>1
  <1> QED
    BY <1>1, <1>2 DEF EnterDetail, Command, Settled, Dirs

LEMMA EnterType ==
    ASSUME NEW o \in Command, ~o.changed, o.kind = "detail" => o.extra # << >>
    PROVE  Enter(o) \in Command /\ Settled(Enter(o)) /\ ~Enter(o).changed
  <1>1. CASE o.kind = "calculate"
    BY <1>1 DEF Enter, Command, Settled
  <1>2. CASE o.kind = "clear"
    BY <1>2 DEF Enter, Command, Settled
  <1>3. CASE o.kind = "detail"
    BY <1>3, EnterDetailType DEF Enter
  <1>4. CASE o.kind \notin {"calculate", "clear", "detail"}
    BY <1>4, EnterCoreType DEF Enter
  <1> QED
    BY <1>1, <1>2, <1>3, <1>4

LEMMA AfterClearType ==
    ASSUME NEW o \in Command
    PROVE  /\ AfterClear(o) \in Command /\ Settled(AfterClear(o))
           /\ ~AfterClear(o).changed
  <1> DEFINE q == [o EXCEPT !.changed = FALSE]
  <1>1. q \in Command /\ ~q.changed
    BY DEF Command
  <1>2. CASE o.kind = "calculate" /\ o.dir = "none"
    BY <1>1, <1>2, EnterCoreType DEF AfterClear
  <1>3. CASE o.kind = "calculate" /\ o.dir # "none"
    BY <1>3 DEF AfterClear, Command, Settled
  <1>4. CASE o.kind \in {"sync", "refresh", "all"} /\ ~o.fixed
    BY <1>4 DEF AfterClear, Command, Settled
  <1>5. CASE o.kind # "calculate" /\ ~(o.kind \in {"sync", "refresh", "all"} /\ ~o.fixed)
    BY <1>5, IdleType DEF AfterClear, Settled
  <1> QED
    BY <1>2, <1>3, <1>4, <1>5

-----------------------------------------------------------------------------
(* The inductive invariant *)

AllSettled == \A t \in Threads : Settled(op[t])

IInv == TypeOK /\ AllSettled /\ LoadedMatchesDisk

LEMMA InitIInv == Init => IInv
  <1> SUFFICES ASSUME Init PROVE IInv
    OBVIOUS
  <1>1. mirror \in [Files -> Versions] /\ listed \in [Files -> Versions]
    BY UnlistedType, CacheAssumption DEF Init, Versions
  <1>2. TypeOK
    BY <1>1, UnlistedType, IdleType DEF Init, TypeOK
  <1>3. AllSettled
    BY IdleType DEF Init, AllSettled, Settled
  <1>4. LoadedMatchesDisk
    BY DEF Init, LoadedMatchesDisk
  <1> QED  BY <1>2, <1>3, <1>4 DEF IInv

\* A step that replaces the command of one thread, by one of the same shape.
LEMMA OneThread ==
    ASSUME IInv, NEW t \in Threads, NEW o \in Command, Settled(o),
           op' = [op EXCEPT ![t] = o]
    PROVE  /\ op' \in [Threads -> Command] /\ AllSettled'
           /\ op'[t] = o
           /\ \A u \in Threads \ {t} : op'[u] = op[u]
  <1>1. op' \in [Threads -> Command] /\ op'[t] = o
        /\ \A u \in Threads \ {t} : op'[u] = op[u]
    BY DEF IInv, TypeOK
  <1>2. AllSettled'
    BY <1>1 DEF IInv, AllSettled
  <1> QED  BY <1>1, <1>2

\* A step that leaves the files and the calculator alone, and that leaves a
\* command that has changed files so, or else remembers it.
LEMMA MatchKept ==
    ASSUME IInv, NEW t \in Threads, NEW o \in Command, Settled(o),
           op' = [op EXCEPT ![t] = o],
           loaded' = loaded, files' = files,
           lost => lost', op[t].changed => o.changed \/ lost'
    PROVE  op' \in [Threads -> Command] /\ AllSettled' /\ LoadedMatchesDisk'
  <1>1. op' \in [Threads -> Command] /\ AllSettled' /\ op'[t] = o
        /\ \A u \in Threads \ {t} : op'[u] = op[u]
    BY OneThread
  <1>2. (~lost' /\ \A u \in Threads : ~op'[u].changed)
          => ~lost /\ \A u \in Threads : ~op[u].changed
    BY <1>1
  <1>3. LoadedMatchesDisk'
    BY <1>2 DEF IInv, LoadedMatchesDisk
  <1> QED  BY <1>1, <1>3

LEMMA BeginKeeps ==
    ASSUME IInv, NEW t \in Threads, NEW kind \in Kinds, NEW extra \in Seq(Files),
           kind = "detail" => extra # << >>, Begin(t, kind, extra)
    PROVE  IInv'
  <1> DEFINE i == [Idle EXCEPT !.kind = kind, !.extra = extra]
  <1>1. i \in Command /\ ~i.changed /\ i.kind = kind /\ i.extra = extra
    BY IdleType DEF Command
  <1> HIDE DEF i
  <1>2. Enter(i) \in Command /\ Settled(Enter(i)) /\ ~Enter(i).changed
    BY <1>1, EnterType
  <1>3. op' = [op EXCEPT ![t] = Enter(i)] /\ ~op[t].changed
    BY DEF Begin, i, IInv, AllSettled, Settled
  <1>4. op' \in [Threads -> Command] /\ AllSettled' /\ LoadedMatchesDisk'
    BY <1>2, <1>3, MatchKept DEF Begin
  <1> QED
    BY <1>4 DEF IInv, TypeOK, Begin

LEMMA GetManifestKeeps == ASSUME IInv, NEW t \in Threads, GetManifest(t) PROVE IInv'
  <1> DEFINE r == [f \in Files |-> IF f \in FilesOf(op[t].dir)
                                     THEN listed[f] ELSE op[t].remote[f]]
             o == [op[t] EXCEPT !.remote = r, !.at = "local"]
  <1>1. r \in [Files -> Versions] /\ op[t] \in Command
    BY DEF IInv, TypeOK, Command
  <1>2. o \in Command /\ Settled(o) /\ o.changed = op[t].changed
    BY <1>1 DEF Command, Settled
  <1>3. op' = [op EXCEPT ![t] = o]
    BY DEF GetManifest
  <1>4. op' \in [Threads -> Command] /\ AllSettled' /\ LoadedMatchesDisk'
    BY <1>2, <1>3, MatchKept DEF GetManifest
  <1> QED
    BY <1>4 DEF IInv, TypeOK, GetManifest

LEMMA ReadManifestKeeps == ASSUME IInv, NEW t \in Threads, ReadManifest(t) PROVE IInv'
  <1> DEFINE r == [f \in Files |-> IF f \in FilesOf(op[t].dir) THEN manifest[f] ELSE 0]
             o == [op[t] EXCEPT !.local = r, !.at = "files"]
  <1>1. r \in [Files -> Versions] /\ op[t] \in Command
    BY CacheAssumption DEF IInv, TypeOK, Command, Versions
  <1>2. o \in Command /\ Settled(o) /\ o.changed = op[t].changed
    BY <1>1 DEF Command, Settled
  <1>3. op' = [op EXCEPT ![t] = o]
    BY DEF ReadManifest
  <1>4. op' \in [Threads -> Command] /\ AllSettled' /\ LoadedMatchesDisk'
    BY <1>2, <1>3, MatchKept DEF ReadManifest
  <1> QED
    BY <1>4 DEF IInv, TypeOK, ReadManifest

LEMMA SkipFileKeeps == ASSUME IInv, NEW t \in Threads, SkipFile(t) PROVE IInv'
  <1> DEFINE o == [op[t] EXCEPT !.todo = Tail(@)]
  <1>1. Tail(op[t].todo) \in Seq(Files) /\ op[t] \in Command
    BY HeadTailProperties DEF IInv, TypeOK, Command, SkipFile
  <1>2. o \in Command /\ Settled(o) /\ o.changed = op[t].changed
    BY <1>1 DEF Command, Settled, SkipFile
  <1>3. op' = [op EXCEPT ![t] = o]
    BY DEF SkipFile
  <1>4. op' \in [Threads -> Command] /\ AllSettled' /\ LoadedMatchesDisk'
    BY <1>2, <1>3, MatchKept DEF SkipFile
  <1> QED
    BY <1>4 DEF IInv, TypeOK, SkipFile

LEMMA GetFileKeeps == ASSUME IInv, NEW t \in Threads, GetFile(t) PROVE IInv'
  <1> DEFINE o == [op[t] EXCEPT !.data = mirror[Head(op[t].todo)], !.at = "write"]
  <1>1. Head(op[t].todo) \in Files /\ op[t] \in Command
    BY HeadTailProperties DEF IInv, TypeOK, Command, GetFile
  <1>2. o \in Command /\ Settled(o) /\ o.changed = op[t].changed
    BY <1>1 DEF Command, Settled, GetFile, IInv, TypeOK
  <1>3. op' = [op EXCEPT ![t] = o]
    BY DEF GetFile
  <1>4. op' \in [Threads -> Command] /\ AllSettled' /\ LoadedMatchesDisk'
    BY <1>2, <1>3, MatchKept DEF GetFile
  <1> QED
    BY <1>4 DEF IInv, TypeOK, GetFile

LEMMA WriteFileKeeps == ASSUME IInv, NEW t \in Threads, WriteFile(t) PROVE IInv'
  <1> DEFINE o == [op[t] EXCEPT !.at = "files", !.changed = TRUE,
                                !.todo = Tail(@), !.data = 0]
  <1>1. op[t] \in Command /\ op[t].todo # << >> /\ op[t].data \in Versions
    BY DEF IInv, TypeOK, AllSettled, Settled, Command, WriteFile
  <1>2. Tail(op[t].todo) \in Seq(Files) /\ Head(op[t].todo) \in Files /\ 0 \in Versions
    BY <1>1, HeadTailProperties, CacheAssumption DEF Command, Versions
  <1>3. o \in Command /\ Settled(o) /\ o.changed
    BY <1>1, <1>2 DEF Command, Settled
  <1>4. op' = [op EXCEPT ![t] = o]
    BY DEF WriteFile
  <1>5. op' \in [Threads -> Command] /\ AllSettled' /\ op'[t].changed
    BY <1>3, <1>4, OneThread
  <1>6. LoadedMatchesDisk'
    BY <1>5 DEF LoadedMatchesDisk
  <1>7. files' \in [Files -> Versions]
    BY <1>1, <1>2 DEF WriteFile, IInv, TypeOK
  <1> QED
    BY <1>5, <1>6, <1>7 DEF IInv, TypeOK, WriteFile

LEMMA DirectoryDoneKeeps == ASSUME IInv, NEW t \in Threads, DirectoryDone(t) PROVE IInv'
  <1> DEFINE q == [op[t] EXCEPT !.local = Unlisted]
             o == IF q.extra # << >> THEN EnterDetail(q) ELSE [q EXCEPT !.at = "clear"]
  <1>1. op[t] \in Command
    BY DEF IInv, TypeOK
  <1>2. q \in Command /\ q.changed = op[t].changed
    BY <1>1, UnlistedType DEF Command
  <1>3. o \in Command /\ Settled(o) /\ o.changed = op[t].changed
    <2> HIDE DEF q
    <2>1. CASE q.extra # << >>
      BY <2>1, <1>2, EnterDetailType
    <2>2. CASE q.extra = << >>
      BY <2>2, <1>2 DEF Command, Settled
    <2> QED  BY <2>1, <2>2
  <1>4. op' = [op EXCEPT ![t] = o]
    BY DEF DirectoryDone
  <1>5. op' \in [Threads -> Command] /\ AllSettled' /\ LoadedMatchesDisk'
    <2> HIDE DEF o
    <2> QED  BY <1>3, <1>4, MatchKept DEF DirectoryDone
  <1>6. RecordedManifest(op[t]) \in [Files -> Versions]
    BY <1>1 DEF RecordedManifest, IInv, TypeOK, Command
  <1> QED
    BY <1>5, <1>6 DEF IInv, TypeOK, DirectoryDone

LEMMA EnsureFixFilesKeeps == ASSUME IInv, NEW t \in Threads, EnsureFixFiles(t) PROVE IInv'
  <1> DEFINE missing == {f \in Elements(Repair) : files[f] = 0}
             o == [op[t] EXCEPT !.at = "clear", !.fixed = TRUE,
                                !.changed = (missing # {})]
  <1>1. op[t] \in Command /\ ~op[t].changed
    BY DEF IInv, TypeOK, AllSettled, Settled, EnsureFixFiles
  <1>2. o \in Command /\ Settled(o) /\ o.changed = (missing # {})
    BY <1>1 DEF Command, Settled
  <1>3. /\ op' = [op EXCEPT ![t] = o]
        /\ files' = [f \in Files |-> IF f \in missing THEN Bundled ELSE files[f]]
        /\ loaded' = loaded /\ lost' = lost
    BY DEF EnsureFixFiles
  <1> HIDE DEF o, missing
  <1>4. op' \in [Threads -> Command] /\ AllSettled' /\ op'[t] = o
    BY <1>2, <1>3, OneThread
  <1>5. LoadedMatchesDisk'
    <2>1. CASE missing # {}
      BY <2>1, <1>2, <1>4 DEF LoadedMatchesDisk
    <2>2. CASE missing = {}
      <3>1. files' = files
        BY <2>2, <1>3 DEF IInv, TypeOK
      <3> QED  BY <3>1, <1>1, <1>2, <1>3, MatchKept
    <2> QED  BY <2>1, <2>2
  <1>6. files' \in [Files -> Versions]
    BY <1>3, CacheAssumption DEF IInv, TypeOK, Bundled, Versions
  <1> QED
    BY <1>4, <1>5, <1>6 DEF IInv, TypeOK, EnsureFixFiles

LEMMA ClearLoadedKeeps == ASSUME IInv, NEW t \in Threads, ClearLoaded(t) PROVE IInv'
  <1> DEFINE o == AfterClear(op[t])
  <1>1. op[t] \in Command
    BY DEF IInv, TypeOK
  <1>2. o \in Command /\ Settled(o) /\ ~o.changed
    BY <1>1, AfterClearType
  <1>3. op' = [op EXCEPT ![t] = o]
    BY DEF ClearLoaded
  <1> HIDE DEF o
  <1>4. op' \in [Threads -> Command] /\ AllSettled'
    BY <1>2, <1>3, OneThread
  <1>5. LoadedMatchesDisk'
    <2>1. CASE op[t].changed
      BY <2>1 DEF ClearLoaded, LoadedMatchesDisk
    <2>2. CASE ~op[t].changed
      <3>1. loaded' = loaded /\ files' = files /\ (lost => lost')
        BY <2>2 DEF ClearLoaded
      <3> QED  BY <3>1, <2>2, <1>2, <1>3, MatchKept
    <2> QED  BY <2>1, <2>2
  <1>6. lost' \in BOOLEAN /\ loaded' \in [CoreFiles -> Versions] \cup {None}
    BY DEF ClearLoaded, IInv, TypeOK
  <1> QED
    BY <1>4, <1>5, <1>6 DEF IInv, TypeOK, ClearLoaded

LEMMA ComputeKeeps == ASSUME IInv, NEW t \in Threads, Compute(t) PROVE IInv'
  <1>1. /\ op' = [op EXCEPT ![t] = Idle] /\ ~op[t].changed
        /\ loaded' = Loaded /\ files' = files /\ lost' = lost
    BY DEF IInv, TypeOK, AllSettled, Settled, Compute
  <1>2. op' \in [Threads -> Command] /\ AllSettled'
        /\ \A u \in Threads \ {t} : op'[u] = op[u]
    BY <1>1, OneThread, IdleType DEF Settled
  <1>3. (\A u \in Threads : ~op'[u].changed) => \A u \in Threads : ~op[u].changed
    BY <1>1, <1>2
  <1>4. LoadedMatchesDisk'
    BY <1>1, <1>3 DEF Loaded, LoadedMatchesDisk, IInv
  <1>5. loaded' \in [CoreFiles -> Versions] \cup {None}
    BY <1>1, FileTypes DEF Loaded, IInv, TypeOK
  <1> QED
    BY <1>2, <1>4, <1>5 DEF IInv, TypeOK, Compute

LEMMA RemoveAllKeeps == ASSUME IInv, NEW t \in Threads, RemoveAll(t) PROVE IInv'
  <1> DEFINE o == [op[t] EXCEPT !.at = "clear", !.changed = TRUE]
  <1>1. o \in Command /\ Settled(o) /\ o.changed
    BY DEF IInv, TypeOK, Command, Settled
  <1>2. op' = [op EXCEPT ![t] = o]
    BY DEF RemoveAll
  <1>3. op' \in [Threads -> Command] /\ AllSettled' /\ op'[t].changed
    BY <1>1, <1>2, OneThread
  <1>4. LoadedMatchesDisk'
    BY <1>3 DEF LoadedMatchesDisk
  <1> QED
    BY <1>3, <1>4, UnlistedType DEF IInv, TypeOK, RemoveAll

LEMMA FailsKeeps == ASSUME IInv, NEW t \in Threads, Fails(t) PROVE IInv'
  <1>1. /\ op' = [op EXCEPT ![t] = Idle] /\ loaded' = loaded /\ files' = files
        /\ (lost => lost') /\ (op[t].changed => lost')
    BY DEF Fails
  <1>2. op' \in [Threads -> Command] /\ AllSettled' /\ LoadedMatchesDisk'
    BY <1>1, MatchKept, IdleType DEF Settled
  <1>3. lost' \in BOOLEAN
    BY DEF Fails, IInv, TypeOK
  <1> QED
    BY <1>2, <1>3 DEF IInv, TypeOK, Fails

LEMMA LoadFailsKeeps == ASSUME IInv, NEW t \in Threads, LoadFails(t) PROVE IInv'
  <1>1. /\ op' = [op EXCEPT ![t] = Idle] /\ loaded' = loaded /\ files' = files
        /\ lost' = lost /\ ~op[t].changed
    BY DEF LoadFails, IInv, AllSettled, Settled
  <1>2. op' \in [Threads -> Command] /\ AllSettled' /\ LoadedMatchesDisk'
    BY <1>1, MatchKept, IdleType DEF Settled
  <1> QED
    BY <1>2 DEF IInv, TypeOK, LoadFails

LEMMA RemoveFailsKeeps == ASSUME IInv, NEW t \in Threads, RemoveFails(t) PROVE IInv'
  <1>1. op' = [op EXCEPT ![t] = Idle] /\ lost'
    BY DEF RemoveFails
  <1>2. op' \in [Threads -> Command] /\ AllSettled'
    BY <1>1, OneThread, IdleType DEF Settled
  <1>3. files' \in [Files -> Versions] /\ manifest' \in [Files -> Versions]
    BY CacheAssumption DEF RemoveFails, IInv, TypeOK, Versions
  <1> QED
    BY <1>1, <1>2, <1>3 DEF IInv, TypeOK, RemoveFails, LoadedMatchesDisk

LEMMA RestartKeeps == IInv /\ Restart => IInv'
  BY IdleType DEF IInv, TypeOK, AllSettled, Settled, Restart, LoadedMatchesDisk

LEMMA PublishKeeps == ASSUME IInv, NEW f \in Files, Publish(f) PROVE IInv'
  <1>1. mirror' \in [Files -> Versions]
    BY CacheAssumption DEF Publish, IInv, TypeOK, Versions
  <1> QED
    BY <1>1 DEF Publish, IInv, TypeOK, AllSettled, Settled, LoadedMatchesDisk

LEMMA PublishManifestKeeps ==
    ASSUME IInv, NEW dir, NEW asked, PublishManifest(dir, asked)
    PROVE  IInv'
  <1>1. listed' \in [Files -> Versions]
    BY CacheAssumption, FileTypes DEF PublishManifest, IInv, TypeOK, Versions
  <1> QED
    BY <1>1 DEF PublishManifest, IInv, TypeOK, AllSettled, Settled, LoadedMatchesDisk

LEMMA StartKeeps == ASSUME IInv, NEW t \in Threads, Start(t) PROVE IInv'
  <1>1. << >> \in Seq(Files) /\ \A f \in Files : << f >> \in Seq(Files) /\ << f >> # << >>
    BY EmptySeq
  <1>2. CASE \E kind \in {"sync", "refresh", "clear"} : Begin(t, kind, << >>)
    BY <1>1, <1>2, BeginKeeps DEF Kinds
  <1>3. CASE Begin(t, "all", Details)
    BY <1>3, FileTypes, BeginKeeps DEF Kinds
  <1>4. CASE \E f \in Elements(Details) :
               Begin(t, "detail", << f >>) \/ Begin(t, "calculate", << f >>)
    BY <1>1, <1>4, FileTypes, BeginKeeps DEF Kinds
  <1> QED  BY <1>2, <1>3, <1>4 DEF Start

LEMMA NextKeeps == IInv /\ [Next]_vars => IInv'
  <1> SUFFICES ASSUME IInv, [Next]_vars PROVE IInv'
    OBVIOUS
  <1>1. ASSUME NEW t \in Threads, Step(t) PROVE IInv'
    BY <1>1, GetManifestKeeps, ReadManifestKeeps, SkipFileKeeps, GetFileKeeps,
       WriteFileKeeps, DirectoryDoneKeeps, EnsureFixFilesKeeps, ClearLoadedKeeps,
       ComputeKeeps, RemoveAllKeeps DEF Step
  <1>2. CASE \E t \in Threads : Start(t) \/ Step(t) \/ Fails(t) \/ LoadFails(t) \/ RemoveFails(t)
    BY <1>1, <1>2, StartKeeps, FailsKeeps, LoadFailsKeeps, RemoveFailsKeeps
  <1>3. CASE Restart
    BY <1>3, RestartKeeps
  <1>4. CASE \E f \in Files : Publish(f)
    BY <1>4, PublishKeeps
  <1>5. CASE \E dir \in Dirs, asked \in SUBSET Elements(Details) : PublishManifest(dir, asked)
    BY <1>5, PublishManifestKeeps
  <1>6. CASE UNCHANGED vars
    BY <1>6 DEF vars, IInv, TypeOK, AllSettled, Settled, LoadedMatchesDisk
  <1> QED  BY <1>2, <1>3, <1>4, <1>5, <1>6 DEF Next

\* Every state of the cache has the types its variables are declared with,
\* whatever the numbers of files, threads and versions are.
THEOREM TypeCorrect == Spec => []TypeOK
  <1>1. IInv => TypeOK
    BY DEF IInv
  <1> QED  BY InitIInv, NextKeeps, <1>1, PTL DEF Spec

\* clear_loaded_calculator is reached after every change of a core file that
\* no error follows: the calculator in memory is never older than the files.
THEOREM LoadedCurrent == Spec => []LoadedMatchesDisk
  <1>1. IInv => LoadedMatchesDisk
    BY DEF IInv
  <1> QED  BY InitIInv, NextKeeps, <1>1, PTL DEF Spec

-----------------------------------------------------------------------------
(* One command after another *)

Must == Elements(Required)

AtLeast(fs, f, version) == fs[f] # 0 => fs[f] >= version

\* The core files a command still has to look at.
Owed(o) == IF o.dir = "root" /\ o.at \in {"manifest", "local", "files", "write"}
             THEN Elements(o.todo) ELSE {}

\* What a command that nothing disturbs knows: no required file it is done
\* with is older than the manifest it fetched, and what it is about to write is
\* no older than either manifest says.
Undisturbed(o, fs, ms, mi) ==
    /\ o.at \in {"manifest", "local"}
         => source = "mirror" /\ (o.dir = "root" => Must \subseteq Elements(o.todo))
    /\ \A f \in Must : o.remote[f] <= mi[f] /\ (source = "api" => o.remote[f] = 0)
    /\ o.at \in {"files", "write"} /\ o.dir = "root" /\ source = "mirror"
         => \A f \in Must : o.local[f] = ms[f]
    /\ o.at = "write" /\ Head(o.todo) \in Must
         => o.data >= o.remote[Head(o.todo)] /\ o.data >= ms[Head(o.todo)]
    /\ \A f \in Must \ Owed(o) : AtLeast(fs, f, o.remote[f])

\* The mirror only gets newer, so neither its manifests nor the stored ones are
\* ahead of it, and no file on disk is behind the stored one.
Honest == \A f \in Must : /\ listed[f] <= mirror[f] /\ manifest[f] <= mirror[f]
                          /\ AtLeast(files, f, manifest[f])

Alone == \A t, u \in Threads : op[t].at # "idle" /\ op[u].at # "idle" => t = u

AllUndisturbed ==
    \A t \in Threads : op[t].at # "idle" => Undisturbed(op[t], files, manifest, mirror)

PatientInv == patient => Honest /\ Alone /\ AllUndisturbed

LEMMA MustFacts ==
    /\ Must \subseteq Files /\ Must \cap Elements(Repair) = {}
    /\ Must \subseteq CoreFiles /\ Must \cap Elements(Details) = {}
  BY CacheAssumption, FileTypes DEF Must

LEMMA Numbers ==
    ASSUME TypeOK, NEW f \in Must
    PROVE  mirror[f] \in Nat /\ listed[f] \in Nat /\ files[f] \in Nat /\ manifest[f] \in Nat
  <1>1. f \in Files /\ Versions \subseteq Nat
    BY MustFacts, CacheAssumption DEF Versions
  <1>2. mirror[f] \in Versions /\ listed[f] \in Versions /\ files[f] \in Versions
        /\ manifest[f] \in Versions
    BY <1>1 DEF TypeOK
  <1> QED  BY <1>1, <1>2

LEMMA CommandNumbers ==
    ASSUME NEW o \in Command, NEW f \in Must
    PROVE  o.remote[f] \in Nat /\ o.local[f] \in Nat /\ o.data \in Nat
  <1>1. f \in Files /\ Versions \subseteq Nat
    BY MustFacts, CacheAssumption DEF Versions
  <1>2. o.remote[f] \in Versions /\ o.local[f] \in Versions /\ o.data \in Versions
    BY <1>1 DEF Command
  <1> QED  BY <1>1, <1>2

LEMMA RequiredFirst == Must \subseteq Elements(Core)
  <1> SUFFICES ASSUME NEW n \in DOMAIN Required PROVE Required[n] \in Elements(Core)
    BY DEF Must, Elements
  <1>1. Required \in Seq(Files) /\ Repair \in Seq(Files)
    BY FileTypes, CacheAssumption, SeqMonotonic DEF Files, CoreFiles
  <1>2. n \in 1 .. Len(Required) /\ Len(Required) \in Nat /\ Len(Repair) \in Nat
    BY <1>1
  <1>3. Core[n] = Required[n] /\ n \in DOMAIN Core
    BY <1>1, <1>2, ConcatProperties DEF Core
  <1> QED  BY <1>3 DEF Elements

\* A step of the only command that runs.
LEMMA AloneStep ==
    ASSUME IInv, PatientInv, patient, NEW t \in Threads, op[t].at # "idle" \/ Quiet,
           NEW o \in Command, op' = [op EXCEPT ![t] = o],
           o.at # "idle" => Undisturbed(o, files', manifest', mirror'),
           Honest', UNCHANGED <<source, patient>>
    PROVE  PatientInv'
  <1>1. \A u \in Threads : op'[u] = IF u = t THEN o ELSE op[u]
    BY DEF IInv, TypeOK
  <1>2. \A u \in Threads \ {t} : op[u].at = "idle"
    BY DEF PatientInv, Alone, Quiet
  <1>3. \A u \in Threads : op'[u].at # "idle" => u = t
    BY <1>1, <1>2
  <1>4. Alone'
    BY <1>3 DEF Alone
  <1>5. AllUndisturbed'
    BY <1>1, <1>3 DEF AllUndisturbed, Undisturbed
  <1> QED  BY <1>4, <1>5 DEF PatientInv

LEMMA BeginPatient ==
    ASSUME IInv, PatientInv, NEW t \in Threads, NEW kind \in Kinds, NEW extra \in Seq(Files),
           kind = "detail" => extra # << >>, Begin(t, kind, extra)
    PROVE  PatientInv'
  <1> SUFFICES ASSUME patient PROVE PatientInv'
    BY DEF PatientInv, Begin
  <1> DEFINE i == [Idle EXCEPT !.kind = kind, !.extra = extra]
  <1>1. /\ i \in Command /\ ~i.changed /\ i.kind = kind /\ i.extra = extra
        /\ i.dir = "none" /\ i.remote = Unlisted /\ i.local = Unlisted /\ i.at = "idle"
    BY IdleType DEF Command, Idle
  <1> HIDE DEF i
  <1>2. Enter(i) \in Command
    BY <1>1, EnterType
  <1>3. /\ op' = [op EXCEPT ![t] = Enter(i)] /\ Quiet
        /\ UNCHANGED <<source, patient, mirror, listed, files, manifest>>
    BY DEF Begin, i, Quiet
  <1>4. Enter(i).remote = Unlisted /\ Enter(i).at # "write"
    BY <1>1 DEF Enter, EnterCore, EnterDetail, Command
  <1>5. Enter(i).at \in {"manifest", "local"}
          => source = "mirror" /\ (Enter(i).dir = "root" => Must \subseteq Elements(Enter(i).todo))
    BY <1>1, RequiredFirst DEF Enter, EnterCore, EnterDetail, Command
  <1>6. ~(Enter(i).at \in {"files", "write"} /\ Enter(i).dir = "root" /\ source = "mirror")
    BY <1>1 DEF Enter, EnterCore, EnterDetail, Command
  <1>7. \A f \in Must : /\ Enter(i).remote[f] = 0 /\ 0 <= mirror[f]
                        /\ AtLeast(files, f, Enter(i).remote[f])
    BY <1>4, MustFacts, Numbers DEF Unlisted, AtLeast, IInv
  <1>8. Undisturbed(Enter(i), files', manifest', mirror')
    BY <1>3, <1>4, <1>5, <1>6, <1>7 DEF Undisturbed
  <1>9. Honest'
    BY <1>3 DEF PatientInv, Honest
  <1> QED  BY <1>2, <1>3, <1>8, <1>9, AloneStep

\* What is known before a step of a command.
LEMMA Running ==
    ASSUME IInv, PatientInv, patient, NEW t \in Threads, op[t].at # "idle"
    PROVE  Honest /\ op[t] \in Command /\ Undisturbed(op[t], files, manifest, mirror)
  BY DEF PatientInv, AllUndisturbed, IInv, TypeOK

LEMMA GetManifestPatient ==
    ASSUME IInv, PatientInv, NEW t \in Threads, GetManifest(t) PROVE PatientInv'
  <1> SUFFICES ASSUME patient PROVE PatientInv'
    BY DEF PatientInv, GetManifest
  <1> DEFINE r == [f \in Files |-> IF f \in FilesOf(op[t].dir)
                                     THEN listed[f] ELSE op[t].remote[f]]
             o == [op[t] EXCEPT !.remote = r, !.at = "local"]
  <1>1. /\ op[t].at = "manifest" /\ op' = [op EXCEPT ![t] = o]
        /\ UNCHANGED <<source, patient, mirror, listed, files, manifest>>
    BY DEF GetManifest
  <1>2. Honest /\ op[t] \in Command /\ Undisturbed(op[t], files, manifest, mirror)
    BY <1>1, Running
  <1>3. r \in [Files -> Versions]
    BY <1>2 DEF IInv, TypeOK, Command
  <1>4. /\ o \in Command /\ o.at = "local" /\ o.dir = op[t].dir /\ o.todo = op[t].todo
        /\ o.remote = r
    BY <1>2, <1>3 DEF Command
  <1>5. source = "mirror" /\ (o.dir = "root" => Must \subseteq Elements(o.todo))
    BY <1>1, <1>2, <1>4 DEF Undisturbed
  <1>6. \A f \in Must : r[f] <= mirror[f]
    BY <1>2, MustFacts DEF Honest, Undisturbed
  <1>7. ASSUME NEW f \in Must \ Owed(o) PROVE AtLeast(files, f, r[f])
    <2>1. f \in Must \ Owed(op[t])
      BY <1>1, <1>4 DEF Owed
    <2>2. AtLeast(files, f, op[t].remote[f])
      BY <1>2, <2>1 DEF Undisturbed
    <2>3. CASE op[t].dir = "root"
      <3>1. Must \subseteq Owed(o)
        BY <1>1, <1>2, <1>4, <2>3 DEF Undisturbed, Owed
      <3> QED  BY <3>1
    <2>4. CASE op[t].dir # "root"
      <3>1. f \notin FilesOf(op[t].dir) /\ f \in Files
        BY <2>4, MustFacts DEF FilesOf
      <3> QED  BY <2>2, <3>1
    <2> QED  BY <2>3, <2>4
  <1> HIDE DEF o, r
  <1>8. Undisturbed(o, files', manifest', mirror')
    BY <1>1, <1>4, <1>5, <1>6, <1>7 DEF Undisturbed
  <1>9. Honest'
    BY <1>1, <1>2 DEF Honest
  <1> QED  BY <1>1, <1>4, <1>8, <1>9, AloneStep

LEMMA ReadManifestPatient ==
    ASSUME IInv, PatientInv, NEW t \in Threads, ReadManifest(t) PROVE PatientInv'
  <1> SUFFICES ASSUME patient PROVE PatientInv'
    BY DEF PatientInv, ReadManifest
  <1> DEFINE r == [f \in Files |-> IF f \in FilesOf(op[t].dir) THEN manifest[f] ELSE 0]
             o == [op[t] EXCEPT !.local = r, !.at = "files"]
  <1>1. /\ op[t].at = "local" /\ op' = [op EXCEPT ![t] = o]
        /\ UNCHANGED <<source, patient, mirror, listed, files, manifest>>
    BY DEF ReadManifest
  <1>2. Honest /\ op[t] \in Command /\ Undisturbed(op[t], files, manifest, mirror)
    BY <1>1, Running
  <1>3. r \in [Files -> Versions]
    BY CacheAssumption DEF IInv, TypeOK, Versions
  <1>4. /\ o \in Command /\ o.at = "files" /\ o.dir = op[t].dir /\ o.todo = op[t].todo
        /\ o.remote = op[t].remote /\ o.local = r
    BY <1>2, <1>3 DEF Command
  <1>5. o.dir = "root" => \A f \in Must : r[f] = manifest[f]
    BY <1>4, MustFacts DEF FilesOf
  <1>6. Owed(o) = Owed(op[t])
    BY <1>1, <1>4 DEF Owed
  <1> HIDE DEF o, r
  <1>7. Undisturbed(o, files', manifest', mirror')
    BY <1>1, <1>2, <1>4, <1>5, <1>6 DEF Undisturbed
  <1>8. Honest'
    BY <1>1, <1>2 DEF Honest
  <1> QED  BY <1>1, <1>4, <1>7, <1>8, AloneStep

\* The files left after the first one was dealt with.
LEMMA LeftOver ==
    ASSUME NEW s \in Seq(Files), s # << >>
    PROVE  /\ Head(s) \in Files /\ Tail(s) \in Seq(Files)
           /\ Elements(s) \subseteq {Head(s)} \cup Elements(Tail(s))
  <1>1. Head(s) = s[1] /\ Tail(s) \in Seq(Files) /\ Len(s) \in Nat /\ Len(s) > 0
        /\ Len(Tail(s)) = Len(s) - 1 /\ Head(s) \in Files
        /\ \A k \in 1 .. Len(Tail(s)) : Tail(s)[k] = s[k + 1]
    BY HeadTailProperties
  <1>2. ASSUME NEW k \in DOMAIN s, k # 1 PROVE s[k] \in Elements(Tail(s))
    <2>1. k \in 1 .. Len(s)
      OBVIOUS
    <2>2. k - 1 \in 1 .. Len(Tail(s))
      BY <1>1, <1>2, <2>1
    <2>3. Tail(s)[k - 1] = s[k] /\ k - 1 \in DOMAIN Tail(s)
      BY <1>1, <2>1, <2>2
    <2> QED  BY <2>3 DEF Elements
  <1> QED  BY <1>1, <1>2 DEF Elements

LEMMA SkipFilePatient ==
    ASSUME IInv, PatientInv, NEW t \in Threads, SkipFile(t) PROVE PatientInv'
  <1> SUFFICES ASSUME patient PROVE PatientInv'
    BY DEF PatientInv, SkipFile
  <1> DEFINE f0 == Head(op[t].todo)
             o == [op[t] EXCEPT !.todo = Tail(@)]
  <1>1. /\ op[t].at = "files" /\ op[t].todo # << >> /\ op' = [op EXCEPT ![t] = o]
        /\ ~Wanted(op[t], f0)
        /\ UNCHANGED <<source, patient, mirror, listed, files, manifest>>
    BY DEF SkipFile
  <1>2. Honest /\ op[t] \in Command /\ Undisturbed(op[t], files, manifest, mirror)
    BY <1>1, Running
  <1>3. op[t].todo \in Seq(Files)
    BY <1>2 DEF Command
  <1>4. /\ o \in Command /\ o.at = "files" /\ o.dir = op[t].dir /\ o.todo = Tail(op[t].todo)
        /\ o.remote = op[t].remote /\ o.local = op[t].local
    BY <1>1, <1>2, <1>3, LeftOver DEF Command
  <1>5. op[t].dir = "root" /\ f0 \in Must => AtLeast(files, f0, op[t].remote[f0])
    <2> SUFFICES ASSUME op[t].dir = "root", f0 \in Must
                 PROVE  AtLeast(files, f0, op[t].remote[f0])
      OBVIOUS
    <2>1. CASE source = "api"
      <3>1. op[t].remote[f0] = 0
        BY <1>2, <2>1 DEF Undisturbed
      <3> QED  BY <3>1, Numbers DEF AtLeast, IInv
    <2>2. CASE source = "mirror"
      <3>1. ~NeedsUpdate(op[t], f0)
        BY <1>1, <2>2, MustFacts DEF Wanted, WithManifest
      <3>2. op[t].local[f0] = manifest[f0]
        BY <1>1, <1>2, <2>2 DEF Undisturbed
      <3>3. op[t].remote[f0] = 0 \/ op[t].remote[f0] = manifest[f0]
        BY <3>1, <3>2 DEF NeedsUpdate
      <3> QED  BY <1>2, <3>3, Numbers DEF AtLeast, Honest, IInv
    <2> QED  BY <2>1, <2>2 DEF IInv, TypeOK
  <1>6. ASSUME NEW f \in Must \ Owed(o) PROVE AtLeast(files, f, o.remote[f])
    <2>1. f \in Must \ Owed(op[t]) \/ (f = f0 /\ op[t].dir = "root")
      BY <1>1, <1>3, <1>4, LeftOver DEF Owed
    <2> QED  BY <1>2, <1>4, <1>5, <2>1 DEF Undisturbed
  <1> HIDE DEF o
  <1>7. Undisturbed(o, files', manifest', mirror')
    BY <1>1, <1>2, <1>4, <1>6 DEF Undisturbed
  <1>8. Honest'
    BY <1>1, <1>2 DEF Honest
  <1> QED  BY <1>1, <1>4, <1>7, <1>8, AloneStep

LEMMA GetFilePatient ==
    ASSUME IInv, PatientInv, NEW t \in Threads, GetFile(t) PROVE PatientInv'
  <1> SUFFICES ASSUME patient PROVE PatientInv'
    BY DEF PatientInv, GetFile
  <1> DEFINE f0 == Head(op[t].todo)
             o == [op[t] EXCEPT !.data = mirror[f0], !.at = "write"]
  <1>1. /\ op[t].at = "files" /\ op[t].todo # << >> /\ op' = [op EXCEPT ![t] = o]
        /\ UNCHANGED <<source, patient, mirror, listed, files, manifest>>
    BY DEF GetFile
  <1>2. Honest /\ op[t] \in Command /\ Undisturbed(op[t], files, manifest, mirror)
    BY <1>1, Running
  <1>3. f0 \in Files /\ mirror[f0] \in Versions
    BY <1>1, <1>2, LeftOver DEF Command, IInv, TypeOK
  <1>4. /\ o \in Command /\ o.at = "write" /\ o.dir = op[t].dir /\ o.todo = op[t].todo
        /\ o.remote = op[t].remote /\ o.local = op[t].local /\ o.data = mirror[f0]
    BY <1>2, <1>3 DEF Command
  <1>5. f0 \in Must => mirror[f0] >= op[t].remote[f0] /\ mirror[f0] >= manifest[f0]
    BY <1>2, Numbers, CommandNumbers DEF Undisturbed, Honest, IInv
  <1>6. Owed(o) = Owed(op[t])
    BY <1>1, <1>4 DEF Owed
  <1> HIDE DEF o
  <1>7. Undisturbed(o, files', manifest', mirror')
    BY <1>1, <1>2, <1>4, <1>5, <1>6 DEF Undisturbed
  <1>8. Honest'
    BY <1>1, <1>2 DEF Honest
  <1> QED  BY <1>1, <1>4, <1>7, <1>8, AloneStep

LEMMA WriteFilePatient ==
    ASSUME IInv, PatientInv, NEW t \in Threads, WriteFile(t) PROVE PatientInv'
  <1> SUFFICES ASSUME patient PROVE PatientInv'
    BY DEF PatientInv, WriteFile
  <1> DEFINE f0 == Head(op[t].todo)
             o == [op[t] EXCEPT !.at = "files", !.changed = TRUE,
                                !.todo = Tail(@), !.data = 0]
  <1>1. /\ op[t].at = "write" /\ op' = [op EXCEPT ![t] = o]
        /\ files' = [files EXCEPT ![f0] = op[t].data]
        /\ UNCHANGED <<source, patient, mirror, listed, manifest>>
    BY DEF WriteFile
  <1>2. Honest /\ op[t] \in Command /\ Undisturbed(op[t], files, manifest, mirror)
    BY <1>1, Running
  <1>3. op[t].todo \in Seq(Files) /\ op[t].todo # << >> /\ 0 \in Versions
    BY <1>1, <1>2, CacheAssumption DEF Command, IInv, AllSettled, Settled, Versions
  <1>4. /\ o \in Command /\ o.at = "files" /\ o.dir = op[t].dir /\ o.todo = Tail(op[t].todo)
        /\ o.remote = op[t].remote /\ o.local = op[t].local
    BY <1>2, <1>3, LeftOver DEF Command
  <1>5. \A f \in Files : files'[f] = IF f = f0 THEN op[t].data ELSE files[f]
    BY <1>1 DEF IInv, TypeOK
  <1>6. f0 \in Must => op[t].data >= op[t].remote[f0] /\ op[t].data >= manifest[f0]
    BY <1>1, <1>2 DEF Undisturbed
  <1>7. ASSUME NEW f \in Must \ Owed(o) PROVE AtLeast(files', f, o.remote[f])
    <2>1. f \in Must \ Owed(op[t]) \/ f = f0
      BY <1>1, <1>3, <1>4, LeftOver DEF Owed
    <2>2. f \in Files
      BY MustFacts
    <2> QED  BY <1>2, <1>4, <1>5, <1>6, <2>1, <2>2 DEF Undisturbed, AtLeast
  <1> HIDE DEF o
  <1>8. Undisturbed(o, files', manifest', mirror')
    BY <1>1, <1>2, <1>4, <1>7 DEF Undisturbed
  <1>9. Honest'
    BY <1>1, <1>2, <1>5, <1>6, MustFacts DEF Honest, AtLeast
  <1> QED  BY <1>1, <1>4, <1>8, <1>9, AloneStep

\* What EnterCore and EnterDetail leave of a command without files to write.
LEMMA EnterUndisturbed ==
    ASSUME TypeOK, NEW o \in Command,
           \A f \in Must : o.remote[f] <= mirror[f] /\ (source = "api" => o.remote[f] = 0),
           NEW fs, \A f \in Must : AtLeast(fs, f, o.remote[f]), NEW ms
    PROVE  /\ Undisturbed(EnterCore(o), fs, ms, mirror)
           /\ o.extra # << >> => Undisturbed(EnterDetail(o), fs, ms, mirror)
  <1>1. /\ EnterCore(o).remote = o.remote /\ EnterDetail(o).remote = o.remote
        /\ EnterCore(o).at # "write" /\ EnterDetail(o).at # "write"
        /\ EnterCore(o).dir = "root" /\ EnterDetail(o).dir = "details"
        /\ EnterCore(o).at = "manifest" => source = "mirror" /\ EnterCore(o).todo = Core
        /\ EnterCore(o).at \in {"manifest", "files"} /\ EnterDetail(o).at \in {"manifest", "files"}
        /\ EnterCore(o).at = "files" => source # "mirror"
        /\ EnterDetail(o).at = "manifest" => source = "mirror"
    BY DEF EnterCore, EnterDetail, Command
  <1>2. Undisturbed(EnterCore(o), fs, ms, mirror)
    BY <1>1, RequiredFirst DEF Undisturbed
  <1>3. Undisturbed(EnterDetail(o), fs, ms, mirror)
    BY <1>1 DEF Undisturbed
  <1> QED  BY <1>2, <1>3

LEMMA DirectoryDonePatient ==
    ASSUME IInv, PatientInv, NEW t \in Threads, DirectoryDone(t) PROVE PatientInv'
  <1> SUFFICES ASSUME patient PROVE PatientInv'
    BY DEF PatientInv, DirectoryDone
  <1> DEFINE q == [op[t] EXCEPT !.local = Unlisted]
             o == IF q.extra # << >> THEN EnterDetail(q) ELSE [q EXCEPT !.at = "clear"]
  <1>1. /\ op[t].at = "files" /\ op[t].todo = << >> /\ op' = [op EXCEPT ![t] = o]
        /\ manifest' = RecordedManifest(op[t])
        /\ UNCHANGED <<source, patient, mirror, listed, files>>
    BY DEF DirectoryDone
  <1>2. Honest /\ op[t] \in Command /\ Undisturbed(op[t], files, manifest, mirror)
    BY <1>1, Running
  <1>3. q \in Command /\ q.remote = op[t].remote
    BY <1>2, UnlistedType DEF Command
  <1>4. Owed(op[t]) = {}
    BY <1>1 DEF Owed, Elements
  <1>5. \A f \in Must : AtLeast(files, f, op[t].remote[f])
    BY <1>2, <1>4 DEF Undisturbed
  <1>6. \A f \in Must : op[t].remote[f] <= mirror[f] /\ (source = "api" => op[t].remote[f] = 0)
    BY <1>2 DEF Undisturbed
  <1>7. o \in Command /\ Undisturbed(o, files', manifest', mirror')
    <2> HIDE DEF q
    <2>1. CASE q.extra # << >>
      <3>1. Undisturbed(EnterDetail(q), files, manifest', mirror)
        BY <1>3, <1>5, <1>6, <2>1, EnterUndisturbed DEF IInv
      <3> QED  BY <1>1, <1>3, <2>1, <3>1, EnterDetailType
    <2>2. CASE q.extra = << >>
      <3>1. /\ [q EXCEPT !.at = "clear"] \in Command /\ [q EXCEPT !.at = "clear"].at = "clear"
            /\ [q EXCEPT !.at = "clear"].remote = op[t].remote
        BY <1>3 DEF Command
      <3> QED  BY <1>1, <1>5, <1>6, <2>2, <3>1 DEF Undisturbed
    <2> QED  BY <2>1, <2>2
  <1>8. \A f \in Must : manifest'[f] \in {op[t].remote[f], manifest[f]}
    BY <1>1, MustFacts DEF RecordedManifest
  <1>9. Honest'
    BY <1>1, <1>2, <1>5, <1>6, <1>8 DEF Honest, AtLeast
  <1> HIDE DEF o
  <1> QED  BY <1>1, <1>7, <1>9, AloneStep

LEMMA EnsureFixFilesPatient ==
    ASSUME IInv, PatientInv, NEW t \in Threads, EnsureFixFiles(t) PROVE PatientInv'
  <1> SUFFICES ASSUME patient PROVE PatientInv'
    BY DEF PatientInv, EnsureFixFiles
  <1> DEFINE missing == {f \in Elements(Repair) : files[f] = 0}
             o == [op[t] EXCEPT !.at = "clear", !.fixed = TRUE,
                                !.changed = (missing # {})]
  <1>1. /\ op[t].at = "fix" /\ op' = [op EXCEPT ![t] = o]
        /\ files' = [f \in Files |-> IF f \in missing THEN Bundled ELSE files[f]]
        /\ UNCHANGED <<source, patient, mirror, listed, manifest>>
    BY DEF EnsureFixFiles
  <1>2. Honest /\ op[t] \in Command /\ Undisturbed(op[t], files, manifest, mirror)
    BY <1>1, Running
  <1>3. o \in Command /\ o.at = "clear" /\ o.remote = op[t].remote
    BY <1>2 DEF Command
  <1>4. \A f \in Must : files'[f] = files[f]
    BY <1>1, MustFacts
  <1>5. Owed(o) = {} /\ Owed(op[t]) = {}
    BY <1>1, <1>3 DEF Owed
  <1> HIDE DEF o
  <1>6. Undisturbed(o, files', manifest', mirror')
    BY <1>1, <1>2, <1>3, <1>4, <1>5 DEF Undisturbed, AtLeast
  <1>7. Honest'
    BY <1>1, <1>2, <1>4 DEF Honest, AtLeast
  <1> QED  BY <1>1, <1>3, <1>6, <1>7, AloneStep

LEMMA ClearLoadedPatient ==
    ASSUME IInv, PatientInv, NEW t \in Threads, ClearLoaded(t) PROVE PatientInv'
  <1> SUFFICES ASSUME patient PROVE PatientInv'
    BY DEF PatientInv, ClearLoaded
  <1> DEFINE o == AfterClear(op[t])
             q == [op[t] EXCEPT !.changed = FALSE]
  <1>1. /\ op[t].at = "clear" /\ op' = [op EXCEPT ![t] = o]
        /\ UNCHANGED <<source, patient, mirror, listed, files, manifest>>
    BY DEF ClearLoaded
  <1>2. Honest /\ op[t] \in Command /\ Undisturbed(op[t], files, manifest, mirror)
    BY <1>1, Running
  <1>3. q \in Command /\ q.remote = op[t].remote
    BY <1>2 DEF Command
  <1>4. \A f \in Must : AtLeast(files, f, op[t].remote[f])
    BY <1>1, <1>2 DEF Undisturbed, Owed
  <1>5. \A f \in Must : op[t].remote[f] <= mirror[f] /\ (source = "api" => op[t].remote[f] = 0)
    BY <1>2 DEF Undisturbed
  <1>6. o \in Command
    BY <1>2, AfterClearType
  <1>7. Undisturbed(EnterCore(q), files, manifest, mirror)
    <2> HIDE DEF q
    <2> QED  BY <1>3, <1>4, <1>5, EnterUndisturbed DEF IInv, TypeOK
  <1>8. ASSUME NEW at \in {"compute", "fix"}
        PROVE  Undisturbed([q EXCEPT !.at = at], files, manifest, mirror)
    <2>1. [q EXCEPT !.at = at].at = at /\ [q EXCEPT !.at = at].remote = op[t].remote
      BY <1>3 DEF Command
    <2> QED  BY <1>4, <1>5, <1>8, <2>1 DEF Undisturbed
  <1>9. o.at # "idle" => Undisturbed(o, files, manifest, mirror)
    <2>1. /\ [op[t] EXCEPT !.at = "compute", !.changed = FALSE] = [q EXCEPT !.at = "compute"]
          /\ [op[t] EXCEPT !.at = "fix", !.changed = FALSE] = [q EXCEPT !.at = "fix"]
      BY <1>2 DEF Command
    <2>2. \/ o = EnterCore(q) \/ o = Idle
          \/ o = [q EXCEPT !.at = "compute"] \/ o = [q EXCEPT !.at = "fix"]
      BY <2>1 DEF AfterClear
    <2>3. Idle.at = "idle"
      BY DEF Idle
    <2> HIDE DEF o, q
    <2> QED  BY <1>7, <1>8, <2>2, <2>3
  <1> HIDE DEF o
  <1>10. Honest'
    BY <1>1, <1>2 DEF Honest
  <1> QED  BY <1>1, <1>6, <1>9, <1>10, AloneStep

\* A step that ends the command and makes no file older.
LEMMA EndPatient ==
    ASSUME IInv, PatientInv, NEW t \in Threads, op[t].at # "idle",
           op' = [op EXCEPT ![t] = Idle], UNCHANGED <<source, patient, mirror, listed>>,
           \A f \in Must : files'[f] \in {0, files[f]} /\ manifest'[f] \in {0, manifest[f]}
    PROVE  PatientInv'
  <1> SUFFICES ASSUME patient PROVE PatientInv'
    BY DEF PatientInv
  <1>1. Honest
    BY DEF PatientInv
  <1>2. Honest'
    BY <1>1, Numbers DEF Honest, AtLeast, IInv
  <1> QED  BY <1>2, IdleType, AloneStep

LEMMA ComputePatient ==
    ASSUME IInv, PatientInv, NEW t \in Threads, Compute(t) PROVE PatientInv'
  <1>1. op[t].at # "idle" /\ op' = [op EXCEPT ![t] = Idle]
        /\ UNCHANGED <<source, patient, mirror, listed, files, manifest>>
    BY DEF Compute
  <1> QED  BY <1>1, EndPatient

LEMMA RemoveAllPatient ==
    ASSUME IInv, PatientInv, NEW t \in Threads, RemoveAll(t) PROVE PatientInv'
  <1> SUFFICES ASSUME patient PROVE PatientInv'
    BY DEF PatientInv, RemoveAll
  <1> DEFINE o == [op[t] EXCEPT !.at = "clear", !.changed = TRUE]
  <1>1. /\ op[t].at = "remove" /\ op' = [op EXCEPT ![t] = o]
        /\ files' = Unlisted /\ manifest' = Unlisted
        /\ UNCHANGED <<source, patient, mirror, listed>>
    BY DEF RemoveAll
  <1>2. Honest /\ op[t] \in Command /\ Undisturbed(op[t], files, manifest, mirror)
    BY <1>1, Running
  <1>3. o \in Command /\ o.at = "clear" /\ o.remote = op[t].remote
    BY <1>2 DEF Command
  <1>4. \A f \in Must : files'[f] = 0 /\ manifest'[f] = 0
    BY <1>1, MustFacts DEF Unlisted
  <1> HIDE DEF o
  <1>5. Undisturbed(o, files', manifest', mirror')
    BY <1>1, <1>2, <1>3, <1>4 DEF Undisturbed, AtLeast
  <1>6. Honest'
    BY <1>1, <1>2, <1>4, Numbers DEF Honest, AtLeast, IInv
  <1> QED  BY <1>1, <1>3, <1>5, <1>6, AloneStep

LEMMA FailuresPatient ==
    ASSUME IInv, PatientInv, NEW t \in Threads, Fails(t) \/ LoadFails(t) \/ RemoveFails(t)
    PROVE  PatientInv'
  <1>1. /\ op[t].at # "idle" /\ op' = [op EXCEPT ![t] = Idle]
        /\ UNCHANGED <<source, patient, mirror, listed>>
    BY DEF Fails, LoadFails, RemoveFails
  <1>2. CASE Fails(t) \/ LoadFails(t)
    BY <1>1, <1>2, EndPatient DEF Fails, LoadFails
  <1>3. CASE RemoveFails(t)
    <2>1. \A f \in Must : files'[f] \in {0, files[f]} /\ manifest'[f] \in {0, manifest[f]}
      BY <1>3, MustFacts DEF RemoveFails
    <2> QED  BY <1>1, <2>1, EndPatient
  <1> QED  BY <1>2, <1>3

LEMMA RestartPatient == IInv /\ PatientInv /\ Restart => PatientInv'
  BY IdleType DEF PatientInv, Restart, Honest, Alone, AllUndisturbed

LEMMA PublishPatient ==
    ASSUME IInv, PatientInv, NEW f \in Files, Publish(f) PROVE PatientInv'
  <1> SUFFICES ASSUME patient PROVE PatientInv'
    BY DEF PatientInv, Publish
  <1>1. UNCHANGED <<source, patient, listed, files, manifest, op>>
    BY DEF Publish
  <1>2. \A g \in Must : mirror[g] <= mirror'[g] /\ mirror'[g] \in Nat
    <2> TAKE g \in Must
    <2>1. mirror[g] \in Nat /\ g \in Files
      BY Numbers, MustFacts DEF IInv
    <2>2. mirror'[g] = IF g = f THEN mirror[g] + 1 ELSE mirror[g]
      BY <2>1 DEF Publish, IInv, TypeOK
    <2> QED  BY <2>1, <2>2
  <1>3. Honest'
    BY <1>1, <1>2, Numbers DEF PatientInv, Honest, IInv
  <1>4. ASSUME NEW t \in Threads, op[t].at # "idle"
        PROVE  Undisturbed(op[t], files, manifest, mirror')
    <2>1. op[t] \in Command /\ Undisturbed(op[t], files, manifest, mirror)
      BY <1>4, Running
    <2>2. \A g \in Must : op[t].remote[g] <= mirror'[g]
      BY <1>2, <2>1, Numbers, CommandNumbers DEF Undisturbed, IInv
    <2> QED  BY <2>1, <2>2 DEF Undisturbed
  <1>5. AllUndisturbed'
    BY <1>1, <1>4 DEF AllUndisturbed, Undisturbed
  <1> QED  BY <1>1, <1>3, <1>5 DEF PatientInv, Alone

LEMMA PublishManifestPatient ==
    ASSUME IInv, PatientInv, NEW dir, NEW asked, PublishManifest(dir, asked)
    PROVE  PatientInv'
  <1>1. \A f \in Must : listed'[f] \in {0, listed[f], mirror[f]}
    BY MustFacts DEF PublishManifest
  <1>2. UNCHANGED <<source, patient, mirror, files, manifest, op>>
    BY DEF PublishManifest
  <1> QED
    BY <1>1, <1>2, Numbers DEF PatientInv, Honest, Alone, AllUndisturbed, Undisturbed, IInv

LEMMA StartPatient ==
    ASSUME IInv, PatientInv, NEW t \in Threads, Start(t) PROVE PatientInv'
  <1>1. << >> \in Seq(Files) /\ \A f \in Files : << f >> \in Seq(Files) /\ << f >> # << >>
    BY EmptySeq
  <1>2. CASE \E kind \in {"sync", "refresh", "clear"} : Begin(t, kind, << >>)
    BY <1>1, <1>2, BeginPatient DEF Kinds
  <1>3. CASE Begin(t, "all", Details)
    BY <1>3, FileTypes, BeginPatient DEF Kinds
  <1>4. CASE \E f \in Elements(Details) :
               Begin(t, "detail", << f >>) \/ Begin(t, "calculate", << f >>)
    BY <1>1, <1>4, FileTypes, BeginPatient DEF Kinds
  <1> QED  BY <1>2, <1>3, <1>4 DEF Start

LEMMA NextPatient == IInv /\ PatientInv /\ [Next]_vars => PatientInv'
  <1> SUFFICES ASSUME IInv, PatientInv, [Next]_vars PROVE PatientInv'
    OBVIOUS
  <1>1. ASSUME NEW t \in Threads, Step(t) PROVE PatientInv'
    BY <1>1, GetManifestPatient, ReadManifestPatient, SkipFilePatient, GetFilePatient,
       WriteFilePatient, DirectoryDonePatient, EnsureFixFilesPatient, ClearLoadedPatient,
       ComputePatient, RemoveAllPatient DEF Step
  <1>2. CASE \E t \in Threads : Start(t) \/ Step(t) \/ Fails(t) \/ LoadFails(t) \/ RemoveFails(t)
    BY <1>1, <1>2, StartPatient, FailuresPatient
  <1>3. CASE Restart
    BY <1>3, RestartPatient
  <1>4. CASE \E f \in Files : Publish(f)
    BY <1>4, PublishPatient
  <1>5. CASE \E dir \in Dirs, asked \in SUBSET Elements(Details) : PublishManifest(dir, asked)
    BY <1>5, PublishManifestPatient
  <1>6. CASE UNCHANGED vars
    BY <1>6 DEF vars, PatientInv, Honest, Alone, AllUndisturbed, Undisturbed
  <1> QED  BY <1>2, <1>3, <1>4, <1>5, <1>6 DEF Next

LEMMA InitPatient == Init => PatientInv
  <1> SUFFICES ASSUME Init PROVE PatientInv
    OBVIOUS
  <1>1. \A f \in Must : /\ mirror[f] = 1 /\ listed[f] \in {0, 1}
                        /\ files[f] = 0 /\ manifest[f] = 0
    BY MustFacts DEF Init, Unlisted
  <1>2. Honest
    BY <1>1 DEF Honest, AtLeast
  <1>3. \A t \in Threads : op[t].at = "idle"
    BY IdleType DEF Init
  <1> QED  BY <1>2, <1>3 DEF PatientInv, Alone, AllUndisturbed

LEMMA PatientAlways == Spec => [](IInv /\ PatientInv)
  <1>1. Init => IInv /\ PatientInv
    BY InitIInv, InitPatient
  <1>2. (IInv /\ PatientInv) /\ [Next]_vars => (IInv /\ PatientInv)'
    BY NextKeeps, NextPatient
  <1> QED  BY <1>1, <1>2, PTL DEF Spec

\* needs_update compares the stored manifest with the fetched one, not with the
\* file: for a user who waits for each command, whatever fails in between and
\* whenever the mirror is updated, the stored manifest is never ahead of a
\* required file, so that an old file is fetched again.
THEOREM ManifestNeverAhead == Spec => []ManifestHonest
  <1>1. IInv /\ PatientInv => ManifestHonest
    <2> SUFFICES ASSUME IInv, PatientInv, patient, NEW f \in Must, files[f] # 0
                 PROVE  files[f] >= manifest[f]
      BY DEF ManifestHonest, Must
    <2> QED  BY DEF PatientInv, Honest, AtLeast
  <1> QED  BY <1>1, PatientAlways, PTL

\* calculate_from_cache: the calculation of a user who waits for each command
\* uses required files at least as new as the manifest it fetched.
THEOREM CalculationCurrent == Spec => CalculatesWithListed
  <1>1. ASSUME IInv, PatientInv, NEW t \in Threads, Compute(t), patient, ~lost,
               NEW f \in Must
        PROVE  loaded'[f] >= op[t].remote[f]
    <2>1. op[t].at = "compute" /\ loaded' = Loaded /\ Loaded[f] # 0
      BY <1>1 DEF Compute, Must
    <2>2. Undisturbed(op[t], files, manifest, mirror) /\ Alone
      BY <1>1, <2>1, Running DEF PatientInv
    <2>3. AtLeast(files, f, op[t].remote[f])
      BY <2>1, <2>2 DEF Undisturbed, Owed
    <2>4. \A u \in Threads : ~op[u].changed
      BY <1>1, <2>1, <2>2 DEF Alone, IInv, AllSettled, Settled
    <2>5. Loaded[f] = files[f]
      BY <1>1, <2>4, MustFacts DEF IInv, LoadedMatchesDisk, Loaded
    <2> QED  BY <2>1, <2>3, <2>5 DEF AtLeast
  <1>2. (IInv /\ PatientInv) /\ [Next]_vars =>
          [\A t \in Threads : Compute(t) /\ patient /\ ~lost
             => \A f \in Elements(Required) : loaded'[f] >= op[t].remote[f]]_vars
    BY <1>1 DEF Must
  <1> QED  BY <1>2, PatientAlways, PTL DEF Spec, CalculatesWithListed

\* clear_loaded_calculator and the order of files and manifests together: what
\* is in memory, on disk and listed agrees, whichever command was cut off.
THEOREM CacheIsHonest == Spec => []CacheHonest
  <1>1. LoadedMatchesDisk /\ ManifestHonest => CacheHonest
    BY DEF CacheHonest
  <1> QED  BY <1>1, LoadedCurrent, ManifestNeverAhead, PTL

-----------------------------------------------------------------------------
(* The HTTP server: types *)

Rounds == [stage : Programs \cup {"none", "running"}, found : Nat, ran : SUBSET Programs]
RequestStages == {"none", "received", "admit", "send", "work", "answered"}
RequestCodes == {0, 200, 400, 404, 429, 502, 503}
RequestTyped == [route : Routes \cup {"none"}, client : Clients \cup {NotSet},
                 stage : RequestStages, time : Nat, code : RequestCodes]

\* The types that concern the synchronisation, and those that concern requests.
SyncTyped ==
    /\ start \in Starts /\ phase \in Phases /\ round \in Rounds
    /\ rounds \in Nat /\ released \in Nat /\ onDisk \in Nat /\ promised \in Nat
    /\ filesRead \in [Calculators -> Seq(Nat)]

RequestsTyped ==
    /\ tick \in Nat /\ requests \in [Workers -> RequestTyped]
    /\ attempts \in [Clients -> Seq(Nat)]
    /\ admitted \in [Clients -> Seq([time : Nat, recorded : Nat])]

LEMMA ServerTypes == ServerTypeOK <=> SyncTyped /\ RequestsTyped
  BY DEF ServerTypeOK, SyncTyped, RequestsTyped, Rounds, RequestTyped, RequestStages, RequestCodes

\* What a step of the requests leaves alone, and of the synchronisation.
SyncSide == <<start, phase, roundVars, released, filesRead>>
RequestSide == <<tick, requests, mailVars>>

SyncStep ==
    \/ Configure \/ RoundStep \/ PeriodicRound \/ NewData
    \/ (\E c \in Calculators : LoadFile(c)) \/ Serve \/ StartFails \/ Interrupt \/ Drained
RequestStep ==
    \/ (\E w \in Workers, route \in Routes, client \in Clients : Accept(w, route, client))
    \/ (\E w \in Workers : HandlerStep(w)) \/ Tick

LEMMA ServerSteps ==
    ASSUME [ServerNext]_serverVars
    PROVE  \/ SyncStep /\ UNCHANGED RequestSide
           \/ RequestStep /\ UNCHANGED SyncSide
           \/ UNCHANGED <<SyncSide, RequestSide>>
  <1>1. CASE UNCHANGED serverVars
    BY <1>1 DEF serverVars, SyncSide, RequestSide, roundVars, mailVars
  <1>2. CASE SyncStep
    <2>1. UNCHANGED RequestSide
      BY <1>2 DEF SyncStep, Configure, RoundStep, TryProgram, ProgramEnds, PeriodicRound, NewData,
                  LoadFile, Serve, StartFails, Interrupt, Drained, RequestSide, mailVars
    <2> QED  BY <1>2, <2>1
  <1>3. CASE RequestStep
    <2>1. UNCHANGED SyncSide
      BY <1>3 DEF RequestStep, Accept, HandlerStep, Dispatch, WorkEnds, CheckFeedback,
                  AdmitFeedback, SendFeedback, Respond, Tick, SyncSide, roundVars, mailVars
    <2> QED  BY <1>3, <2>1
  <1> QED  BY <1>1, <1>2, <1>3 DEF ServerNext, SyncStep, RequestStep

LEMMA SyncTypes == SyncTyped /\ SyncStep => SyncTyped'
  <1> SUFFICES ASSUME SyncTyped, SyncStep PROVE SyncTyped'
    OBVIOUS
  <1> USE DEF SyncTyped, Phases, Rounds, Programs, EnterPhase
  <1>1. CASE Configure
    BY <1>1 DEF Configure, BeginRound, NoRound, roundVars
  <1>2. CASE TryProgram
    <2>1. released \in Nat /\ round.ran \in SUBSET Programs /\ round.found \in Nat
          /\ round.stage \in Programs
      BY <1>2 DEF TryProgram
    <2>2. phase' \in Phases /\ promised' \in Nat
      BY <1>2, <2>1 DEF TryProgram, RoundOver
    <2>3. round' \in Rounds
      BY <1>2, <2>1 DEF TryProgram, RoundOver, NoRound
    <2> QED  BY <1>2, <2>2, <2>3 DEF TryProgram
  <1>3. CASE ProgramEnds
    <2>1. phase' \in Phases /\ promised' \in Nat /\ round' \in Rounds
      BY <1>3 DEF ProgramEnds, RoundOver, NoRound
    <2>2. onDisk' \in Nat
      BY <1>3 DEF ProgramEnds
    <2> QED  BY <1>3, <2>1, <2>2 DEF ProgramEnds
  <1>4. CASE PeriodicRound
    BY <1>4 DEF PeriodicRound, BeginRound, NoRound
  <1>5. CASE NewData
    BY <1>5 DEF NewData, roundVars
  <1>6. ASSUME NEW c \in Calculators, LoadFile(c) PROVE SyncTyped'
    <2>1. Append(filesRead[c], onDisk) \in Seq(Nat)
      BY AppendProperties
    <2> QED  BY <1>6, <2>1 DEF LoadFile, roundVars
  <1>7. CASE Serve \/ StartFails \/ Interrupt \/ Drained
    BY <1>7 DEF Serve, StartFails, Interrupt, Drained, roundVars
  <1> QED  BY <1>1, <1>2, <1>3, <1>4, <1>5, <1>6, <1>7 DEF SyncStep, RoundStep

-----------------------------------------------------------------------------
(* What the calculators read                                               *)

NothingRead == \A c \in Calculators : filesRead[c] = <<>>

\* The data on disk only moves on, a round that runs ends at what it found or
\* leaves what there was, and while the first one runs nothing is read.
LoadInv ==
    /\ onDisk <= released /\ promised <= onDisk
    /\ round.stage = "running" => round.found <= released /\ onDisk <= round.found
    /\ phase = "start" => rounds = 0 /\ round.stage = "none"
    /\ phase = "sync" \/ (phase \in {"load", "serving", "draining"} /\ SyncEnabled(start))
         => rounds >= 1
    /\ rounds = 1 /\ round.stage # "none" => phase \in {"sync", "stopped"}
    /\ phase \in {"start", "sync"} => NothingRead
    /\ LoadsSynchronised

LEMMA RoundEnds ==
    ASSUME SyncTyped, LoadInv, Living, NEW well \in BOOLEAN, RoundOver(well), round.stage # "none",
           well => round.stage = "running" /\ onDisk' = round.found,
           onDisk' = onDisk \/ (round.stage = "running" /\ onDisk' = round.found),
           UNCHANGED <<start, rounds, released, filesRead>>
    PROVE  LoadInv'
  <1> USE DEF LoadInv, RoundOver, SyncTyped, Rounds, NoRound, Living, Phases
  <1>1. onDisk' <= released' /\ onDisk <= onDisk' /\ promised' <= onDisk'
    OBVIOUS
  <1>2. round'.stage = "none"
    OBVIOUS
  <1>3. phase # "start" /\ phase' # "start" /\ phase' # "sync"
    OBVIOUS
  <1>4. LoadsSynchronised'
    <2>1. CASE rounds = 1 /\ well
      <3>1. NothingRead
        BY <2>1
      <3>2. \A c \in Calculators : Len(filesRead'[c]) = 0
        BY <3>1 DEF NothingRead
      <3> QED  BY <3>2 DEF LoadsSynchronised
    <2>2. CASE ~(rounds = 1 /\ well)
      <3>1. promised' = promised
        BY <2>2
      <3> QED  BY <3>1 DEF LoadsSynchronised
    <2> QED  BY <2>1, <2>2
  <1>5. phase' \in {"load", "serving", "draining"} /\ SyncEnabled(start') => rounds' >= 1
    <2>1. SyncEnabled(start') <=> SyncEnabled(start)
      BY DEF SyncEnabled
    <2> QED  BY <2>1
  <1> QED  BY <1>1, <1>2, <1>3, <1>4, <1>5

LEMMA LoadsHold ==
    ASSUME SyncTyped, LoadInv, Living, SyncStep
    PROVE  LoadInv'
  <1> USE DEF LoadInv, SyncTyped, Rounds, Phases, EnterPhase
  <1>1. SyncEnabled(start') <=> SyncEnabled(start)
    BY DEF SyncStep, Configure, RoundStep, TryProgram, ProgramEnds, PeriodicRound, NewData,
           LoadFile, Serve, StartFails, Interrupt, Drained
  <1>2. ASSUME UNCHANGED <<filesRead, promised>> PROVE LoadsSynchronised'
    BY <1>2 DEF LoadsSynchronised
  <1>3. ASSUME UNCHANGED filesRead, NothingRead PROVE NothingRead'
    BY <1>3 DEF NothingRead
  <1>4. CASE Configure
    <2>1. UNCHANGED <<filesRead, promised, onDisk, released>>
      BY <1>4 DEF Configure, BeginRound, roundVars
    <2>2. CASE UNCHANGED roundVars /\ ~SyncEnabled(start) /\ phase' = "load"
      BY <1>1, <1>2, <1>3, <2>1, <2>2, <1>4 DEF Configure, roundVars
    <2>3. CASE UNCHANGED roundVars /\ phase' = "failed"
      BY <1>1, <1>2, <1>3, <2>1, <2>3, <1>4 DEF Configure, roundVars
    <2>4. CASE BeginRound /\ phase' = "sync"
      <3>1. round'.stage \in {"explicit", "local"} /\ rounds' = 1
        BY <2>4, <1>4 DEF BeginRound, NoRound, Configure
      <3> QED  BY <1>1, <1>2, <1>3, <2>1, <2>4, <3>1, <1>4 DEF Configure
    <2> QED  BY <1>4, <2>2, <2>3, <2>4 DEF Configure
  <1>5. CASE TryProgram
    <2>1. CASE RoundOver(FALSE)
      BY <1>5, <2>1, RoundEnds DEF TryProgram, Programs
    <2>2. CASE UNCHANGED <<phase, promised>>
                 /\ round' = [stage |-> "running", found |-> released,
                              ran |-> round.ran \cup {round.stage}]
      <3>1. UNCHANGED <<filesRead, promised, onDisk, released, rounds, phase>>
            /\ round'.stage = "running" /\ round'.found = released /\ round.stage # "none"
        BY <1>5, <2>2 DEF TryProgram, Programs
      <3> QED  BY <3>1, <1>1, <1>2, <1>3
    <2>3. CASE UNCHANGED <<phase, promised>>
                 /\ round' = [round EXCEPT !.stage = IF @ = "local" THEN "path" ELSE "cargo"]
      <3>1. UNCHANGED <<filesRead, promised, onDisk, released, rounds, phase>>
            /\ round'.stage \in {"path", "cargo"} /\ round.stage # "none"
        BY <1>5, <2>3 DEF TryProgram, Programs
      <3> QED  BY <3>1, <1>1, <1>2, <1>3
    <2> QED  BY <1>5, <2>1, <2>2, <2>3 DEF TryProgram
  <1>6. CASE ProgramEnds
    BY <1>6, RoundEnds DEF ProgramEnds
  <1>7. CASE PeriodicRound
    <2>1. rounds >= 1 /\ rounds' = rounds + 1 /\ rounds \in Nat
      BY <1>7 DEF PeriodicRound, Periodic, BeginRound
    <2>2. round'.stage \in {"explicit", "local"}
          /\ UNCHANGED <<filesRead, promised, onDisk, released, phase>>
      BY <1>7 DEF PeriodicRound, BeginRound, NoRound
    <2> QED  BY <2>1, <2>2, <1>1, <1>2, <1>3, <1>7 DEF PeriodicRound
  <1>8. CASE NewData
    <2>1. UNCHANGED <<filesRead, promised, onDisk, round, rounds, phase>>
          /\ released' = released + 1
      BY <1>8 DEF NewData, roundVars
    <2> QED  BY <2>1, <1>1, <1>2, <1>3
  <1>9. ASSUME NEW c \in Calculators, LoadFile(c) PROVE LoadInv'
    <2>1. phase = "load" /\ UNCHANGED <<promised, onDisk, released, round, rounds, phase>>
          /\ filesRead' = [filesRead EXCEPT ![c] = Append(@, onDisk)]
      BY <1>9 DEF LoadFile, roundVars
    <2>2. ASSUME NEW d \in Calculators, NEW i \in 1..Len(filesRead'[d])
          PROVE  filesRead'[d][i] >= promised
      <3>1. CASE d # c
        <4>1. filesRead'[d] = filesRead[d]
          BY <2>1, <3>1
        <4> QED  BY <4>1, <2>2 DEF LoadsSynchronised
      <3>2. CASE d = c
        <4>1. filesRead'[d] = Append(filesRead[d], onDisk) /\ filesRead[d] \in Seq(Nat)
          BY <2>1, <3>2
        <4>2. CASE i = Len(filesRead[d]) + 1
          <5>1. filesRead'[d][i] = onDisk
            BY <4>1, <4>2
          <5> QED  BY <5>1
        <4>3. CASE i \in 1..Len(filesRead[d])
          <5>1. filesRead'[d][i] = filesRead[d][i]
            BY <4>1, <4>3
          <5> QED  BY <5>1, <4>3 DEF LoadsSynchronised
        <4> QED  BY <4>1, <4>2, <4>3, <2>2
      <3> QED  BY <3>1, <3>2
    <2>3. LoadsSynchronised'
      BY <2>1, <2>2 DEF LoadsSynchronised
    <2> QED  BY <2>1, <2>3, <1>1
  <1>10. CASE Serve \/ StartFails \/ Interrupt \/ Drained
    <2>1. UNCHANGED <<filesRead, promised, onDisk, released, round, rounds>>
      BY <1>10 DEF Serve, StartFails, Interrupt, Drained, roundVars
    <2>2. \/ phase = "load" /\ phase' \in {"serving", "failed"}
          \/ phase = "serving" /\ phase' = "draining"
          \/ phase' = "stopped"
      BY <1>10 DEF Serve, StartFails, Interrupt, Drained
    <2> QED  BY <2>1, <2>2, <1>1, <1>2
  <1> QED  BY <1>4, <1>5, <1>6, <1>7, <1>8, <1>9, <1>10 DEF SyncStep, RoundStep

LEMMA LoadsStart == ServerInit => SyncTyped /\ LoadInv
  <1> SUFFICES ASSUME ServerInit PROVE SyncTyped /\ LoadInv
    OBVIOUS
  <1>1. NothingRead /\ phase = "start" /\ rounds = 0 /\ round = NoRound /\ promised = 0
        /\ released = 1 /\ onDisk \in 0..1
    BY DEF ServerInit, NothingRead
  <1>2. LoadsSynchronised
    <2>1. \A c \in Calculators : Len(filesRead[c]) = 0
      BY <1>1 DEF NothingRead
    <2> QED  BY <2>1 DEF LoadsSynchronised
  <1> QED
    BY <1>1, <1>2 DEF LoadInv, NoRound, ServerInit, SyncTyped, Rounds, Phases, Calculators

LEMMA LoadsStutter == SyncTyped /\ LoadInv /\ UNCHANGED SyncSide => SyncTyped' /\ LoadInv'
  BY DEF SyncTyped, LoadInv, SyncSide, roundVars, NothingRead, LoadsSynchronised, SyncEnabled,
         Interval, OfFile

LEMMA SyncInvariant == ServerSpec => [](SyncTyped /\ LoadInv)
  <1>1. SyncTyped /\ LoadInv /\ [ServerNext]_serverVars => SyncTyped' /\ LoadInv'
    <2> SUFFICES ASSUME SyncTyped, LoadInv, [ServerNext]_serverVars PROVE SyncTyped' /\ LoadInv'
      OBVIOUS
    <2>1. CASE UNCHANGED SyncSide
      BY <2>1, LoadsStutter
    <2>2. CASE SyncStep /\ Living
      BY <2>2, SyncTypes, LoadsHold
    <2>3. CASE UNCHANGED serverVars
      BY <2>3, <2>1 DEF serverVars, SyncSide, roundVars
    <2> QED  BY <2>1, <2>2, <2>3, ServerSteps DEF ServerNext
  <1> QED  BY <1>1, LoadsStart, PTL DEF ServerSpec

\* start_game_data_sync_task returns before the calculators are built: whatever
\* program runs and however many rounds follow, no calculator reads a file older
\* than what the first synchronisation found.
THEOREM CalculatorsSynchronised == ServerSpec => []LoadsSynchronised
  <1>1. LoadInv => LoadsSynchronised
    BY DEF LoadInv
  <1> QED  BY <1>1, SyncInvariant, PTL

-----------------------------------------------------------------------------
(* The limit on feedback                                                   *)

\* A handler that comes to the lock holds a time that has been, of a client
\* that is known.
TimesPast ==
    \A w \in Workers :
        /\ requests[w].time <= tick
        /\ requests[w].stage \in {"received", "admit"} => requests[w].client \in Clients

Dropped(c) == Len(admitted[c]) - Len(attempts[c])

\* What the limiter keeps of a client: the times of its last attempts, no more
\* than are allowed, and of the others each is a window old.
RecordOf(c) ==
    /\ Len(attempts[c]) <= Attempts /\ Len(attempts[c]) <= Len(admitted[c])
    /\ \A i \in 1..Len(attempts[c]) : attempts[c][i] = admitted[c][Dropped(c) + i].time
    /\ \A i \in 1..Dropped(c) : admitted[c][i].time + Window <= tick

Limited(c) ==
    \A i \in 1..Len(admitted[c]) :
        i + Attempts <= Len(admitted[c]) =>
            admitted[c][i].time + Window <= admitted[c][i + Attempts].recorded

RateInv == TimesPast /\ \A c \in Clients : RecordOf(c) /\ Limited(c)

LEMMA RequestTypes == RequestsTyped /\ RequestStep => RequestsTyped'
  <1> SUFFICES ASSUME RequestsTyped, RequestStep PROVE RequestsTyped'
    OBVIOUS
  <1> USE DEF RequestsTyped
  <1>0. NoRequest \in RequestTyped
    BY DEF NoRequest, RequestTyped, RequestStages, RequestCodes
  <1>a. ASSUME NEW w \in Workers, NEW r \in RequestTyped, requests' = [requests EXCEPT ![w] = r]
        PROVE  requests' \in [Workers -> RequestTyped]
    BY <1>a
  <1>b. ASSUME NEW w \in Workers PROVE requests[w] \in RequestTyped
    BY <1>b
  <1>1. ASSUME NEW w \in Workers, NEW code \in RequestCodes, Reply(w, code)
        PROVE  requests' \in [Workers -> RequestTyped]
    <2>1. [NoRequest EXCEPT !.stage = "answered", !.code = code] \in RequestTyped
      BY <1>0 DEF RequestTyped, RequestStages
    <2> QED  BY <1>1, <1>a, <2>1 DEF Reply
  <1>2. ASSUME NEW w \in Workers, NEW stage \in RequestStages, Continue(w, stage)
        PROVE  requests' \in [Workers -> RequestTyped]
    <2>1. [requests[w] EXCEPT !.stage = stage] \in RequestTyped
      BY <1>b DEF RequestTyped
    <2>2. requests' = [requests EXCEPT ![w] = [requests[w] EXCEPT !.stage = stage]]
      BY <1>2 DEF Continue
    <2> QED  BY <1>a, <2>1, <2>2
  <1>3. CASE Tick
    BY <1>3 DEF Tick, mailVars
  <1>4. ASSUME NEW w \in Workers, NEW route \in Routes, NEW client \in Clients,
               Accept(w, route, client)
        PROVE  RequestsTyped'
    <2>1. [NoRequest EXCEPT !.route = route, !.client = client, !.stage = "received"]
            \in RequestTyped
      BY <1>0 DEF RequestTyped, RequestStages
    <2>2. requests' \in [Workers -> RequestTyped]
      BY <1>4, <1>a, <2>1 DEF Accept
    <2> QED  BY <1>4, <2>2 DEF Accept, mailVars
  <1>5. ASSUME NEW w \in Workers, Dispatch(w) PROVE RequestsTyped'
    <2>1. \/ \E code \in RequestCodes : Reply(w, code)
          \/ Continue(w, "work")
      BY <1>5 DEF Dispatch, RequestCodes
    <2>2. requests' \in [Workers -> RequestTyped]
      BY <2>1, <1>1, <1>2 DEF RequestStages
    <2> QED  BY <1>5, <2>2 DEF Dispatch, mailVars
  <1>6. ASSUME NEW w \in Workers, WorkEnds(w) \/ SendFeedback(w) PROVE RequestsTyped'
    <2>1. \E code \in RequestCodes : Reply(w, code)
      BY <1>6 DEF WorkEnds, SendFeedback, Codes, RequestCodes
    <2>2. requests' \in [Workers -> RequestTyped]
      BY <2>1, <1>1
    <2> QED  BY <1>6, <2>2 DEF WorkEnds, SendFeedback, mailVars
  <1>7. ASSUME NEW w \in Workers, CheckFeedback(w) PROVE RequestsTyped'
    <2>1. \/ \E code \in RequestCodes : Reply(w, code)
          \/ requests' = [requests EXCEPT ![w].stage = "admit", ![w].time = tick]
      <3>1. \/ TurnAway(w) \/ Reply(w, 503)
            \/ requests' = [requests EXCEPT ![w].stage = "admit", ![w].time = tick]
        BY <1>7 DEF CheckFeedback
      <3>2. 200 \in RequestCodes /\ 400 \in RequestCodes /\ 503 \in RequestCodes
        BY DEF RequestCodes
      <3>3. TurnAway(w) => \E code \in RequestCodes : Reply(w, code)
        BY <3>2 DEF TurnAway
      <3> QED  BY <3>1, <3>2, <3>3
    <2>2. ASSUME requests' = [requests EXCEPT ![w].stage = "admit", ![w].time = tick]
          PROVE  requests' \in [Workers -> RequestTyped]
      <3>1. [requests[w] EXCEPT !.stage = "admit", !.time = tick] \in RequestTyped
        BY <1>b DEF RequestTyped, RequestStages
      <3>2. requests' = [requests EXCEPT ![w] = [requests[w] EXCEPT !.stage = "admit", !.time = tick]]
        BY <2>2
      <3> QED  BY <1>a, <3>1, <3>2
    <2>3. requests' \in [Workers -> RequestTyped]
      BY <2>1, <2>2, <1>1
    <2> QED  BY <1>7, <2>3 DEF CheckFeedback, mailVars
  <1>8. ASSUME NEW w \in Workers, AdmitFeedback(w) PROVE RequestsTyped'
    <2> DEFINE c == requests[w].client
               time == requests[w].time
    <2>1. PICK n \in 0..Len(attempts[c]) :
             LET kept == SubSeq(attempts[c], n + 1, Len(attempts[c]))
             IN  IF Len(kept) >= Attempts
                 THEN /\ attempts' = [attempts EXCEPT ![c] = kept]
                      /\ Reply(w, 429) /\ UNCHANGED admitted
                 ELSE /\ attempts' = [attempts EXCEPT ![c] = Append(kept, time)]
                      /\ admitted' = [admitted EXCEPT ![c] =
                             Append(@, [time |-> time, recorded |-> tick])]
                      /\ Continue(w, "send")
      BY <1>8 DEF AdmitFeedback
    <2>2. requests' \in [Workers -> RequestTyped]
      BY <2>1, <1>1, <1>2 DEF RequestStages, RequestCodes
    <2>3. ASSUME c \in Clients
          PROVE  attempts' \in [Clients -> Seq(Nat)]
                 /\ admitted' \in [Clients -> Seq([time : Nat, recorded : Nat])]
      <3> DEFINE kept == SubSeq(attempts[c], n + 1, Len(attempts[c]))
      <3>1. kept \in Seq(Nat) /\ time \in Nat
        <4>1. attempts[c] \in Seq(Nat) /\ Len(attempts[c]) \in Nat /\ n \in Nat
          BY <2>3
        <4>2. kept \in Seq(Nat)
          BY <4>1, SubSeqProperties
        <4> QED  BY <4>2, <1>b DEF RequestTyped
      <3>2. Append(kept, time) \in Seq(Nat)
        BY <3>1, AppendProperties
      <3>3. Append(admitted[c], [time |-> time, recorded |-> tick])
              \in Seq([time : Nat, recorded : Nat])
        BY <2>3, <3>1, AppendProperties
      <3>4. \/ /\ attempts' = [attempts EXCEPT ![c] = kept]
               /\ admitted' = admitted
            \/ /\ attempts' = [attempts EXCEPT ![c] = Append(kept, time)]
               /\ admitted' = [admitted EXCEPT ![c] =
                      Append(@, [time |-> time, recorded |-> tick])]
        BY <2>1
      <3> HIDE DEF kept, time
      <3> QED  BY <3>1, <3>2, <3>3, <3>4
    <2>4. CASE c \in Clients
      BY <2>2, <2>3, <2>4, <1>8 DEF AdmitFeedback
    <2>5. CASE c \notin Clients
      <3>1. attempts' = attempts /\ admitted' = admitted
        BY <2>1, <2>5
      <3> QED  BY <2>2, <3>1, <1>8 DEF AdmitFeedback
    <2> QED  BY <2>4, <2>5
  <1>9. ASSUME NEW w \in Workers, Respond(w) PROVE RequestsTyped'
    BY <1>9, <1>0, <1>a DEF Respond, mailVars
  <1> QED  BY <1>3, <1>4, <1>5, <1>6, <1>7, <1>8, <1>9 DEF RequestStep, HandlerStep

\* A step that leaves the records alone keeps what they say, as time only moves on.
LEMMA RecordsKept ==
    ASSUME RequestsTyped, UNCHANGED mailVars, tick' \in Nat, tick' >= tick,
           NEW c \in Clients, RecordOf(c), Limited(c)
    PROVE  RecordOf(c)' /\ Limited(c)'
  <1>1. UNCHANGED <<attempts, admitted>>
    BY DEF mailVars
  <1>2. Dropped(c)' = Dropped(c)
    BY <1>1 DEF Dropped
  <1>3. Limited(c)'
    BY <1>1 DEF Limited
  <1>4. ASSUME NEW i \in 1..Dropped(c) PROVE admitted[c][i].time + Window <= tick'
    <2>1. admitted[c][i].time + Window <= tick
      BY DEF RecordOf
    <2>2. admitted[c] \in Seq([time : Nat, recorded : Nat]) /\ attempts[c] \in Seq(Nat)
      BY DEF RequestsTyped
    <2>3. i \in 1..Len(admitted[c])
      BY <2>2 DEF Dropped, RecordOf
    <2>4. admitted[c][i] \in [time : Nat, recorded : Nat]
      BY <2>2, <2>3, ElementOfSeq
    <2> QED  BY <2>1, <2>4, ServerAssumption DEF RequestsTyped
  <1>5. RecordOf(c)'
    BY <1>1, <1>2, <1>4 DEF RecordOf
  <1> QED  BY <1>3, <1>5

\* a holds the times of the last of h; the first m of h are a window old; the first
\* n of a are to be dropped.
Matching(h, a) == \A i \in 1..Len(a) : a[i] = h[Len(h) - Len(a) + i].time
WindowOld(h, m, now) == \A i \in 1..m : h[i].time + Window <= now
ToDrop(a, n, cutoff) == \A i \in 1..n : a[i] <= cutoff

\* The records of one client when an attempt comes to the lock: h are all its
\* attempts, a those the limiter keeps, of which n are dropped.
LEMMA AttemptCounted ==
    ASSUME NEW h \in Seq([time : Nat, recorded : Nat]), NEW a \in Seq(Nat),
           NEW now \in Nat, NEW time \in Nat, time <= now, NEW n \in 0..Len(a),
           Len(a) <= Len(h), Matching(h, a), WindowOld(h, Len(h) - Len(a), now),
           ToDrop(a, n, time - Window), NEW kept, kept = SubSeq(a, n + 1, Len(a))
    PROVE  /\ kept \in Seq(Nat) /\ Len(kept) = Len(a) - n
           /\ Matching(h, kept) /\ WindowOld(h, Len(h) - Len(kept), now)
  <1>0. Window \in Nat /\ Attempts \in Nat
    BY ServerAssumption
  <1>a. PICK la \in Nat, lh \in Nat : la = Len(a) /\ lh = Len(h)
    OBVIOUS
  <1>1. n \in Nat /\ n <= la /\ la <= lh
    BY <1>a
  <1>b. /\ \A i \in 1..la : a[i] = h[lh - la + i].time
        /\ \A i \in 1..(lh - la) : h[i].time + Window <= now
        /\ \A i \in 1..n : a[i] <= time - Window
    BY <1>a DEF Matching, WindowOld, ToDrop
  <1>2. kept \in Seq(Nat) /\ Len(kept) = la - n
        /\ \A i \in 1..(la - n) : kept[i] = a[n + i]
    <2>1. n + 1 \in 1..(la + 1) /\ la \in n..la
      BY <1>1
    <2>2. kept = SubSeq(a, n + 1, la)
      BY <1>a
    <2>3. PICK m \in Int, k \in Int : m = n + 1 /\ k = la
      BY <1>1
    <2>4. kept \in Seq(Nat) /\ Len(kept) = la - n
          /\ \A i \in 1..(k - m + 1) : kept[i] = a[m + i - 1]
      <3>1. \A i \in m..k : a[i] \in Nat
        <4>1. ASSUME NEW i \in m..k PROVE i \in 1..Len(a)
          BY <2>3, <1>a, <1>1
        <4> QED  BY <4>1, ElementOfSeq
      <3>2. SubSeq(a, m, k) \in Seq(Nat)
            /\ Len(SubSeq(a, m, k)) = (IF m <= k THEN k - m + 1 ELSE 0)
            /\ \A i \in 1..(k - m + 1) : SubSeq(a, m, k)[i] = a[m + i - 1]
        BY ONLY <3>1, SubSeqProperties, m \in Int, k \in Int
      <3>3. kept = SubSeq(a, m, k)
        BY <2>2, <2>3
      <3> QED  BY <2>3, <3>2, <3>3, <1>1
    <2>5. ASSUME NEW i \in 1..(la - n) PROVE kept[i] = a[n + i]
      <3>1. n \in Nat
        BY <1>1
      <3>2. i \in 1..(k - m + 1) /\ m + i - 1 = n + i
        BY ONLY <2>3, <3>1, la \in Nat, m \in Int, k \in Int, i \in 1..(la - n)
      <3> QED  BY <3>2, <2>4
    <2> QED  BY <2>4, <2>5
  <1>c. PICK lk \in Nat : lk = Len(kept) /\ lk = la - n
    <2>1. la - n \in Nat
      BY ONLY <1>1, la \in Nat
    <2> QED  BY <1>2, <2>1
  <1>3. ASSUME NEW i \in 1..lk PROVE kept[i] = h[lh - lk + i].time
    <2>1. i \in 1..(la - n) /\ n + i \in 1..la
      BY <1>1, <1>c
    <2>2. lh - lk + i = lh - la + (n + i)
      <3>1. lk = la - n
        BY <1>c
      <3>2. n \in Nat
        BY <1>1
      <3> QED  BY ONLY <3>1, <3>2, lh \in Nat, lk \in Nat, la \in Nat, i \in 1..lk
    <2>3. kept[i] = a[n + i] /\ a[n + i] = h[lh - la + (n + i)].time
      BY <1>2, <1>b, <2>1
    <2> QED  BY <2>2, <2>3
  <1>4. ASSUME NEW i \in 1..(lh - lk) PROVE h[i].time + Window <= now
    <2>1. CASE i <= lh - la
      BY <2>1, <1>1, <1>b
    <2>2. CASE i > lh - la
      <3>1. i - (lh - la) \in 1..n /\ i - (lh - la) \in 1..la
        BY <2>2, <1>1, <1>c
      <3>2. PICK j \in 1..n : j = i - (lh - la)
        BY <3>1
      <3>3. j \in 1..la /\ lh - la + j = i
        BY <3>1, <3>2, <1>1
      <3>4. a[j] <= time - Window /\ a[j] = h[i].time
        BY <3>2, <3>3, <1>b
      <3>5. a[j] \in Nat
        BY <3>3, <1>a, ElementOfSeq
      <3>6. PICK v \in Nat : v = a[j]
        BY <3>5
      <3>7. v <= time - Window /\ h[i].time = v
        BY <3>4, <3>6
      <3>8. v + Window <= now
        BY <3>7, <1>0
      <3> QED  BY <3>7, <3>8
    <2> QED  BY <2>1, <2>2, <1>1, <1>c
  <1> QED  BY <1>2, <1>3, <1>4, <1>a, <1>c DEF Matching, WindowOld
LEMMA ClientLimited ==
    ASSUME RequestsTyped, NEW w \in Workers, AdmitFeedback(w), TimesPast,
           NEW c \in Clients, RecordOf(c), Limited(c)
    PROVE  RecordOf(c)' /\ Limited(c)'
  <1>d. PICK d, time, h, a :
           d = requests[w].client /\ time = requests[w].time /\ h = admitted[c] /\ a = attempts[c]
    OBVIOUS
  <1>0. Window \in Nat /\ Attempts \in Nat /\ tick \in Nat /\ tick' = tick
    BY ServerAssumption DEF RequestsTyped, AdmitFeedback
  <1>1. d \in Clients /\ time \in Nat /\ time <= tick
    BY <1>d DEF RequestsTyped, RequestTyped, TimesPast, AdmitFeedback, Handled
  <1>2. h \in Seq([time : Nat, recorded : Nat]) /\ a \in Seq(Nat)
    BY <1>d DEF RequestsTyped
  <1>3. PICK n \in 0..Len(attempts[d]) :
           LET kept == SubSeq(attempts[d], n + 1, Len(attempts[d]))
           IN  /\ Outdated(attempts[d], n, time - Window)
               /\ IF Len(kept) >= Attempts
                  THEN /\ attempts' = [attempts EXCEPT ![d] = kept]
                       /\ UNCHANGED admitted
                  ELSE /\ attempts' = [attempts EXCEPT ![d] = Append(kept, time)]
                       /\ admitted' = [admitted EXCEPT ![d] =
                              Append(@, [time |-> time, recorded |-> tick])]
    BY <1>d DEF AdmitFeedback
  <1>4. attempts \in [Clients -> Seq(Nat)]
        /\ admitted \in [Clients -> Seq([time : Nat, recorded : Nat])]
    BY DEF RequestsTyped
  <1>5. CASE c # d
    <2>1. attempts'[c] = attempts[c] /\ admitted'[c] = admitted[c]
      BY <1>3, <1>4, <1>5
    <2>2. Dropped(c)' = Dropped(c)
      BY <2>1 DEF Dropped
    <2> QED  BY <2>1, <2>2, <1>0 DEF RecordOf, Limited
  <1>6. CASE c = d
    <2>1. PICK kept : kept = SubSeq(a, n + 1, Len(a))
      OBVIOUS
    <2>2. /\ kept \in Seq(Nat) /\ Len(kept) = Len(a) - n
          /\ Matching(h, kept) /\ WindowOld(h, Len(h) - Len(kept), tick)
      <3>1. Len(a) <= Len(h) /\ Matching(h, a) /\ WindowOld(h, Len(h) - Len(a), tick)
        BY <1>d DEF RecordOf, Dropped, Matching, WindowOld
      <3>2. ToDrop(a, n, time - Window)
        BY <1>3, <1>6, <1>d DEF Outdated, ToDrop
      <3>3. n \in 0..Len(a)
        BY <1>6, <1>d
      <3>4. tick \in Nat /\ time \in Nat /\ time <= tick
        BY <1>0, <1>1
      <3>5. h \in Seq([time : Nat, recorded : Nat]) /\ a \in Seq(Nat)
        BY <1>2
      <3>6. kept \in Seq(Nat)
        BY ONLY <2>1, <3>1, <3>2, <3>3, <3>4, <3>5, AttemptCounted
      <3>7. Len(kept) = Len(a) - n
        BY ONLY <2>1, <3>1, <3>2, <3>3, <3>4, <3>5, AttemptCounted
      <3>8. Matching(h, kept)
        BY ONLY <2>1, <3>1, <3>2, <3>3, <3>4, <3>5, AttemptCounted
      <3>9. WindowOld(h, Len(h) - Len(kept), tick)
        BY ONLY <2>1, <3>1, <3>2, <3>3, <3>4, <3>5, AttemptCounted
      <3> QED  BY <3>6, <3>7, <3>8, <3>9
    <2>a. /\ \A i \in 1..Len(kept) : kept[i] = h[Len(h) - Len(kept) + i].time
          /\ \A i \in 1..(Len(h) - Len(kept)) : h[i].time + Window <= tick
      BY <2>2 DEF Matching, WindowOld
    <2>3. Len(kept) <= Attempts /\ Len(kept) <= Len(h)
      <3>1. Len(a) <= Attempts /\ Len(a) <= Len(h)
        BY <1>d DEF RecordOf
      <3> QED  BY <3>1, <2>2, <1>2, <1>0, <1>6, <1>d
    <2>4. CASE Len(kept) >= Attempts
      <3>1. attempts'[c] = kept /\ admitted'[c] = h
        BY <1>3, <1>4, <1>6, <1>d, <2>1, <2>4
      <3>2. Dropped(c)' = Len(h) - Len(kept)
        BY <3>1 DEF Dropped
      <3> QED  BY <3>1, <3>2, <2>2, <2>a, <2>3, <1>0, <1>d DEF RecordOf, Limited
    <2>5. CASE ~(Len(kept) >= Attempts)
      <3>1. attempts'[c] = Append(kept, time)
            /\ admitted'[c] = Append(h, [time |-> time, recorded |-> tick])
        BY <1>3, <1>4, <1>6, <1>d, <2>1, <2>5
      <3>2. PICK new \in [time : Nat, recorded : Nat] :
               new = [time |-> time, recorded |-> tick]
        BY <1>0, <1>1
      <3>3. new.time = time /\ new.recorded = tick
        BY <3>2
      <3>4. PICK lk \in Nat, lh \in Nat : lk = Len(kept) /\ lh = Len(h)
        <4>1. Len(kept) \in Nat /\ Len(h) \in Nat
          BY <1>2, <2>2, LenProperties
        <4> QED  BY <4>1
      <3>5. lk < Attempts /\ lk <= lh
        BY <2>3, <2>5, <3>4, <1>0
      <3>6. /\ Len(Append(kept, time)) = lk + 1 /\ Append(kept, time)[lk + 1] = time
            /\ \A i \in 1..lk : Append(kept, time)[i] = kept[i]
        BY <2>2, <3>4, <1>1
      <3>7. /\ Len(Append(h, new)) = lh + 1 /\ Append(h, new)[lh + 1] = new
            /\ \A i \in 1..lh : Append(h, new)[i] = h[i]
        BY <1>2, <3>4, <3>2
      <3>8. PICK a2, h2 : a2 = Append(kept, time) /\ h2 = Append(h, new)
        OBVIOUS
      <3>9. /\ attempts'[c] = a2 /\ admitted'[c] = h2
            /\ Len(a2) = lk + 1 /\ Len(h2) = lh + 1 /\ Dropped(c)' = lh - lk
        BY <3>1, <3>2, <3>6, <3>7, <3>8 DEF Dropped
      <3>10. ASSUME NEW i \in 1..(lk + 1) PROVE a2[i] = h2[(lh - lk) + i].time
        <4>1. CASE i = lk + 1
          <5>1. (lh - lk) + i = lh + 1
            BY <4>1
          <5> QED  BY <5>1, <4>1, <3>3, <3>6, <3>7, <3>8
        <4>2. CASE i \in 1..lk
          <5>1. (lh - lk) + i \in 1..lh
            BY <4>2, <3>5
          <5>2. kept[i] = h[(lh - lk) + i].time
            BY <4>2, <2>a, <3>4
          <5> QED  BY <5>1, <5>2, <4>2, <3>6, <3>7, <3>8
        <4> QED  BY <4>1, <4>2
      <3>11. ASSUME NEW i \in 1..(lh - lk) PROVE h2[i] = h[i] /\ h2[i].time + Window <= tick
        <4>1. i \in 1..lh
          BY <3>5
        <4>2. h2[i] = h[i]
          BY <4>1, <3>7, <3>8
        <4> QED  BY <4>2, <2>a, <3>4
      <3>12. RecordOf(c)'
        <4>1. lk + 1 <= Attempts /\ lk + 1 <= lh + 1
          BY <3>5, <1>0
        <4> QED  BY <4>1, <3>9, <3>10, <3>11, <1>0 DEF RecordOf
      <3>13. ASSUME NEW i \in 1..(lh + 1), i + Attempts <= lh + 1
             PROVE  h2[i].time + Window <= h2[i + Attempts].recorded
        <4>1. CASE i + Attempts = lh + 1
          <5>1. i \in 1..(lh - lk)
            BY <4>1, <3>5, <1>0
          <5>2. h2[i + Attempts].recorded = tick
            BY <4>1, <3>3, <3>7, <3>8
          <5> QED  BY <5>1, <5>2, <3>11
        <4>2. CASE i + Attempts <= lh
          <5>1. i \in 1..lh /\ i + Attempts \in 1..lh
            BY <4>2, <1>0
          <5>2. h[i].time + Window <= h[i + Attempts].recorded
            BY <4>2, <5>1, <3>4, <1>d DEF Limited
          <5> QED  BY <5>1, <5>2, <3>7, <3>8
        <4> QED  BY <4>1, <4>2, <3>13, <1>0
      <3>14. Limited(c)'
        BY <3>9, <3>13 DEF Limited
      <3> QED  BY <3>12, <3>14
    <2> QED  BY <2>4, <2>5
  <1> QED  BY <1>5, <1>6

LEMMA TimesStayPast ==
    RequestsTyped /\ TimesPast /\ RequestStep => TimesPast'
  <1> SUFFICES ASSUME RequestsTyped, TimesPast, RequestStep PROVE TimesPast'
    OBVIOUS
  <1> DEFINE Good(r) == r.time <= tick /\ (r.stage \in {"received", "admit"} => r.client \in Clients)
  <1>0. tick \in Nat /\ NotSet \notin Int /\ \A w \in Workers : requests[w] \in RequestTyped
    BY ServerAssumption DEF RequestsTyped
  <1>a. \A w \in Workers : Good(requests[w])
    BY DEF TimesPast
  <1>b. ASSUME NEW w \in Workers, NEW r, Good(r), tick' = tick,
               requests' = [requests EXCEPT ![w] = r]
        PROVE  TimesPast'
    <2>1. \A v \in Workers : Good(requests'[v])
      <3>1. \A v \in Workers : requests'[v] = IF v = w THEN r ELSE requests[v]
        BY <1>b DEF RequestsTyped
      <3> HIDE DEF Good
      <3> QED  BY <3>1, <1>a, <1>b
    <2> QED  BY <2>1, <1>b DEF TimesPast
  <1>1. ASSUME NEW w \in Workers, NEW code, Reply(w, code), tick' = tick PROVE TimesPast'
    <2>1. Good([NoRequest EXCEPT !.stage = "answered", !.code = code])
      BY <1>0 DEF NoRequest
    <2> HIDE DEF Good
    <2> QED  BY <2>1, <1>1, <1>b DEF Reply
  <1>2. ASSUME NEW w \in Workers, NEW stage \in {"send", "work"}, Continue(w, stage), tick' = tick
        PROVE  TimesPast'
    <2>1. Good([requests[w] EXCEPT !.stage = stage])
      BY <1>0, <1>a DEF RequestTyped
    <2>2. requests' = [requests EXCEPT ![w] = [requests[w] EXCEPT !.stage = stage]]
      BY <1>2 DEF Continue
    <2> HIDE DEF Good
    <2> QED  BY <2>1, <2>2, <1>2, <1>b
  <1>3. CASE Tick
    <2>1. \A w \in Workers : requests[w].time \in Nat
      BY <1>0 DEF RequestTyped
    <2> QED  BY <1>3, <1>0, <2>1 DEF Tick, TimesPast
  <1>4. ASSUME NEW w \in Workers, NEW route \in Routes, NEW client \in Clients,
               Accept(w, route, client)
        PROVE  TimesPast'
    <2>1. Good([NoRequest EXCEPT !.route = route, !.client = client, !.stage = "received"])
      BY <1>0 DEF NoRequest
    <2> HIDE DEF Good
    <2> QED  BY <2>1, <1>4, <1>b DEF Accept
  <1>5. ASSUME NEW w \in Workers, Dispatch(w) PROVE TimesPast'
    <2>1. tick' = tick /\ ((\E code \in Int : Reply(w, code)) \/ Continue(w, "work"))
      BY <1>5 DEF Dispatch
    <2> QED  BY <2>1, <1>1, <1>2
  <1>6. ASSUME NEW w \in Workers, WorkEnds(w) \/ SendFeedback(w) PROVE TimesPast'
    <2>1. tick' = tick /\ \E code \in Int : Reply(w, code)
      BY <1>6 DEF WorkEnds, SendFeedback, Codes
    <2> QED  BY <2>1, <1>1
  <1>7. ASSUME NEW w \in Workers, CheckFeedback(w) PROVE TimesPast'
    <2>1. /\ tick' = tick /\ requests[w].stage = "received"
          /\ \/ \E code \in Int : Reply(w, code)
             \/ requests' = [requests EXCEPT ![w].stage = "admit", ![w].time = tick]
      BY <1>7 DEF CheckFeedback, TurnAway, Handled
    <2>2. ASSUME requests' = [requests EXCEPT ![w].stage = "admit", ![w].time = tick]
          PROVE  TimesPast'
      <3>1. Good([requests[w] EXCEPT !.stage = "admit", !.time = tick])
        BY <1>0, <1>a, <2>1 DEF RequestTyped
      <3>2. requests' = [requests EXCEPT ![w] = [requests[w] EXCEPT !.stage = "admit", !.time = tick]]
        BY <2>2
      <3> HIDE DEF Good
      <3> QED  BY <3>1, <3>2, <2>1, <1>b
    <2> QED  BY <2>1, <2>2, <1>1
  <1>8. ASSUME NEW w \in Workers, AdmitFeedback(w) PROVE TimesPast'
    <2>1. tick' = tick /\ (Reply(w, 429) \/ Continue(w, "send"))
      BY <1>8 DEF AdmitFeedback
    <2> QED  BY <2>1, <1>1, <1>2
  <1>9. ASSUME NEW w \in Workers, Respond(w) PROVE TimesPast'
    <2>1. Good(NoRequest)
      BY <1>0 DEF NoRequest
    <2> HIDE DEF Good
    <2> QED  BY <2>1, <1>9, <1>b DEF Respond
  <1> QED  BY <1>3, <1>4, <1>5, <1>6, <1>7, <1>8, <1>9 DEF RequestStep, HandlerStep

LEMMA RateInvariant == ServerSpec => [](RequestsTyped /\ RateInv)
  <1>1. ServerInit => RequestsTyped /\ RateInv
    <2> SUFFICES ASSUME ServerInit PROVE RequestsTyped /\ RateInv
      OBVIOUS
    <2>1. tick = 0 /\ requests = [w \in Workers |-> NoRequest]
          /\ attempts = [c \in Clients |-> <<>>] /\ admitted = [c \in Clients |-> <<>>]
      BY DEF ServerInit
    <2>2. NoRequest \in RequestTyped /\ NoRequest.time = 0 /\ NoRequest.stage = "none"
      BY DEF NoRequest, RequestTyped, RequestStages, RequestCodes
    <2>3. RequestsTyped
      BY <2>1, <2>2 DEF RequestsTyped
    <2>4. TimesPast
      BY <2>1, <2>2 DEF TimesPast
    <2>5. ASSUME NEW c \in Clients PROVE RecordOf(c) /\ Limited(c)
      <3>1. Len(attempts[c]) = 0 /\ Len(admitted[c]) = 0
        BY <2>1
      <3> QED  BY <3>1, ServerAssumption DEF RecordOf, Limited, Dropped
    <2> QED  BY <2>3, <2>4, <2>5 DEF RateInv
  <1>2. RequestsTyped /\ RateInv /\ [ServerNext]_serverVars => (RequestsTyped /\ RateInv)'
    <2> SUFFICES ASSUME RequestsTyped, RateInv, [ServerNext]_serverVars
                 PROVE  (RequestsTyped /\ RateInv)'
      OBVIOUS
    <2>1. CASE UNCHANGED RequestSide
      <3>1. UNCHANGED <<tick, requests, attempts, admitted>>
        BY <2>1 DEF RequestSide, mailVars
      <3>2. RequestsTyped' /\ TimesPast'
        BY <3>1 DEF RequestsTyped, RateInv, TimesPast
      <3>3. \A c \in Clients : RecordOf(c)' /\ Limited(c)'
        BY <3>1 DEF RateInv, RecordOf, Limited, Dropped
      <3> QED  BY <3>2, <3>3 DEF RateInv
    <2>2. CASE RequestStep
      <3>1. RequestsTyped' /\ TimesPast'
        BY <2>2, RequestTypes, TimesStayPast DEF RateInv
      <3>2. ASSUME NEW c \in Clients PROVE RecordOf(c)' /\ Limited(c)'
        <4>1. RecordOf(c) /\ Limited(c) /\ TimesPast
          BY DEF RateInv
        <4>2. CASE \E w \in Workers : AdmitFeedback(w)
          BY <4>1, <4>2, ClientLimited
        <4>3. CASE ~\E w \in Workers : AdmitFeedback(w)
          <5>1. UNCHANGED mailVars /\ (tick' = tick \/ tick' = tick + 1)
            BY <2>2, <4>3 DEF RequestStep, HandlerStep, Tick, Accept, Dispatch, WorkEnds,
                              CheckFeedback, SendFeedback, Respond
          <5>2. tick \in Nat
            BY DEF RequestsTyped
          <5>3. tick' \in Nat /\ tick' >= tick
            BY <5>1, <5>2
          <5> QED  BY <4>1, <5>1, <5>3, RecordsKept
        <4> QED  BY <4>2, <4>3
      <3> QED  BY <3>1, <3>2 DEF RateInv
    <2>3. CASE UNCHANGED serverVars
      BY <2>3, <2>1 DEF serverVars, RequestSide
    <2> HIDE DEF RateInv
    <2> QED  BY <2>1, <2>2, <2>3, ServerSteps
  <1> QED  BY <1>1, <1>2, PTL DEF ServerSpec

\* FeedbackRateLimiter::check, called by handlers that take the time before the
\* lock: in whatever order they come to it, of more attempts of a client than the
\* limit the last is recorded no sooner than a window after the first was made.
THEOREM FeedbackLimited == ServerSpec => []RateHolds
  <1>1. RateInv => RateHolds
    BY DEF RateInv, RateHolds, Limited
  <1> QED  BY <1>1, RateInvariant, PTL

\* The type invariant of the server.
THEOREM ServerTypeCorrect == ServerSpec => []ServerTypeOK
  <1>1. SyncTyped /\ RequestsTyped => ServerTypeOK
    BY DEF SyncTyped, RequestsTyped, ServerTypeOK, Rounds, RequestTyped, RequestStages, RequestCodes
  <1> QED  BY <1>1, SyncInvariant, RateInvariant, PTL

-----------------------------------------------------------------------------
(* Account imports                                                         *)

ImportTyped == [region : Regions, stage : ImportStages, version : Nat,
                waits : BOOLEAN, sent : Nat]

\* The version that the next import starts from.
NextVersion(file) == IF file = NoStored THEN Embedded ELSE file

\* What is known of the record x of an import when the file of defaults is file and
\* the versions that were accepted are seen: what only the Chinese import does; the
\* password has not been sent before SdkLogin; a version that is used is that of the
\* file; it was accepted before it is stored or a password goes with it; and it is no
\* older than the file when it is stored.
ImportSound(x, file, seen) ==
    /\ x.stage \in {"load", "discover", "recheck", "save"} \cup CredentialStages => x.region = "cn"
    /\ x.sent = 0 \/ (x.sent = 1 /\ x.stage \in {"gameLogin", "suite", "ended"})
    /\ x.region = "cn" /\ x.stage \in {"preflight"} \cup CredentialStages =>
           x.version = NextVersion(file)
    /\ x.stage \in {"save"} \cup CredentialStages => x.version \in seen
    /\ x.stage = "save" /\ file \in ClientVersions => file <= x.version

Occupies(x) == x.stage \in WorkerStages

\* An import in hand has the permit of its region, and has it alone.
Exclusive ==
    /\ \A r \in Imports : Occupies(imports[r]) => busy[imports[r].region]
    /\ \A r, s \in Imports :
           Occupies(imports[r]) /\ Occupies(imports[s]) /\ imports[r].region = imports[s].region
               => r = s

ImportInv ==
    /\ ImportTypeOK /\ Exclusive
    /\ \A r \in Imports : ImportSound(imports[r], defaults, verified)
    /\ verified \subseteq 1..current
    /\ defaults \in ClientVersions => defaults <= current

\* The file stays as it is and versions are only ever added: what was sound still is.
LEMMA SoundLater ==
    ASSUME NEW x, NEW file, NEW seen, NEW later, seen \subseteq later, ImportSound(x, file, seen)
    PROVE  ImportSound(x, file, later)
  BY DEF ImportSound

\* A step of one import that has the permit already, or gives it back, or needs none.
LEMMA ImportMoves ==
    ASSUME ImportInv, NEW r \in Imports, NEW x \in ImportTyped,
           imports' = [imports EXCEPT ![r] = x],
           ImportSound(x, defaults, verified'), x.region = imports[r].region \/ ~Occupies(x),
           defaults' = defaults, current' = current,
           verified' = verified \/ verified' = verified \cup {current},
           \/ busy' = busy /\ (Occupies(x) => Occupies(imports[r]))
           \/ /\ ~Occupies(x) /\ Occupies(imports[r])
              /\ busy' = [busy EXCEPT ![imports[r].region] = FALSE]
           \/ /\ ~busy[imports[r].region] /\ busy' = [busy EXCEPT ![imports[r].region] = TRUE]
    PROVE  ImportInv'
  <1>1. /\ imports \in [Imports -> ImportTyped] /\ busy \in [Regions -> BOOLEAN]
        /\ current \in ClientVersions /\ defaults \in ClientVersions \cup {NoStored, Unreadable}
        /\ verified \subseteq ClientVersions
    BY DEF ImportInv, ImportTypeOK, ImportTyped
  <1>2. \A s \in Imports : imports'[s] = IF s = r THEN x ELSE imports[s]
    BY <1>1
  <1>3. imports' \in [Imports -> ImportTyped] /\ busy' \in [Regions -> BOOLEAN]
    BY <1>1
  <1>4. verified' \subseteq ClientVersions /\ verified \subseteq verified'
        /\ verified' \subseteq 1..current
    <2>1. current \in 1..current /\ verified \subseteq 1..current
      BY <1>1, ImportAssumption DEF ImportInv, ClientVersions
    <2> HIDE DEF ClientVersions
    <2> QED  BY <1>1, <2>1
  <1>5. ImportTypeOK'
    BY <1>1, <1>3, <1>4 DEF ImportTypeOK, ImportTyped
  <1>6. ASSUME NEW s \in Imports PROVE ImportSound(imports'[s], defaults', verified')
    BY <1>2, <1>4, SoundLater DEF ImportInv
  <1>7. Exclusive'
    <2>1. \A s \in Imports : imports[s].region \in Regions
      BY <1>1 DEF ImportTyped
    <2>2. Exclusive
      BY DEF ImportInv
    <2>3. ASSUME NEW s \in Imports, Occupies(imports'[s]) PROVE busy'[imports'[s].region]
      BY <1>1, <1>2, <2>1, <2>2, <2>3 DEF Exclusive
    <2>4. ASSUME NEW s \in Imports, Occupies(imports'[s]), Occupies(x), s # r,
                 imports[s].region = x.region
          PROVE  FALSE
      <3>1. Occupies(imports[s]) /\ busy[imports[s].region]
        BY <1>2, <2>2, <2>4 DEF Exclusive
      <3> QED  BY <3>1, <2>2, <2>4 DEF Exclusive
    <2>5. ASSUME NEW s \in Imports, NEW t \in Imports, Occupies(imports'[s]), Occupies(imports'[t]),
                 imports'[s].region = imports'[t].region
          PROVE  s = t
      BY <1>2, <2>2, <2>4, <2>5 DEF Exclusive
    <2> QED  BY <2>3, <2>5 DEF Exclusive
  <1> QED  BY <1>4, <1>5, <1>6, <1>7 DEF ImportInv

LEMMA ImportStart == ImportInit => ImportInv
  <1> SUFFICES ASSUME ImportInit PROVE ImportInv
    OBVIOUS
  <1>1. NotAsked \in ImportTyped /\ NotAsked.stage = "none" /\ NotAsked.sent = 0
    BY DEF NotAsked, ImportTyped, Regions, ImportStages
  <1>2. \A r \in Imports : imports[r] = NotAsked
    BY DEF ImportInit
  <1>3. current \in ClientVersions /\ defaults \in 1..current \cup {NoStored, Unreadable}
    BY DEF ImportInit
  <1>4. ImportTypeOK
    <2>1. defaults \in ClientVersions \cup {NoStored, Unreadable}
      BY <1>3, ImportAssumption DEF ClientVersions
    <2> QED  BY <1>1, <1>3, <2>1 DEF ImportTypeOK, ImportInit, ImportTyped
  <1>5. ~Occupies(NotAsked) /\ \A file, seen : ImportSound(NotAsked, file, seen)
    BY <1>1 DEF Occupies, WorkerStages, CredentialStages, ImportSound
  <1>6. Exclusive /\ \A r \in Imports : ImportSound(imports[r], defaults, verified)
    BY <1>2, <1>5 DEF Exclusive
  <1>7. defaults \in ClientVersions => defaults <= current
    BY <1>3, ImportAssumption DEF ClientVersions
  <1> QED  BY <1>4, <1>6, <1>7 DEF ImportInv, ImportInit

\* A step of one import that leaves the file alone.
LEMMA ImportStepHolds ==
    ASSUME ImportInv, NEW r \in Imports, ImportStep(r), ~StoreVersion(r)
    PROVE  ImportInv'
  <1> DEFINE old == imports[r]
  <1>1. old \in ImportTyped /\ ImportSound(old, defaults, verified)
        /\ defaults \in ClientVersions \cup {NoStored, Unreadable}
        /\ current \in ClientVersions /\ verified \subseteq ClientVersions
        /\ (defaults \in ClientVersions => defaults <= current)
    BY DEF ImportInv, ImportTypeOK, ImportTyped
  <1> USE DEF Occupies, WorkerStages, CredentialStages
  <1>a. ASSUME NEW stage \in ImportStages PROVE [old EXCEPT !.stage = stage] \in ImportTyped
    BY <1>1 DEF ImportTyped
  <1>b. ASSUME NEW stage, GotoStage(r, stage)
        PROVE  imports' = [imports EXCEPT ![r] = [old EXCEPT !.stage = stage]]
    BY <1>b DEF GotoStage
  <1>2. ASSUME NEW region \in Regions, Ask(r, region) PROVE ImportInv'
    <2> DEFINE x == [NotAsked EXCEPT !.region = region, !.stage = "asked", !.waits = TRUE]
    <2>1. x \in ImportTyped /\ x.stage = "asked" /\ x.sent = 0
      BY DEF NotAsked, ImportTyped, Regions, ImportStages
    <2>2. ImportSound(x, defaults, verified) /\ ~Occupies(x)
      BY <2>1 DEF ImportSound
    <2>3. imports' = [imports EXCEPT ![r] = x] /\ UNCHANGED <<busy, defaults, current, verified>>
      BY <1>2 DEF Ask
    <2> HIDE DEF x
    <2> QED  BY <2>1, <2>2, <2>3, ImportMoves
  <1>3. CASE Refuse(r)
    <2> DEFINE x == [old EXCEPT !.stage = "ended"]
    <2>1. x \in ImportTyped
      BY <1>a DEF ImportStages
    <2>2. x.stage = "ended" /\ x.region = old.region /\ x.sent = old.sent
      BY <1>1 DEF ImportTyped
    <2>3. ImportSound(x, defaults, verified) /\ ~Occupies(x)
      BY <1>1, <2>2 DEF ImportSound
    <2>4. imports' = [imports EXCEPT ![r] = x] /\ UNCHANGED <<busy, defaults, current, verified>>
      BY <1>3, <1>b DEF Refuse
    <2> HIDE DEF x
    <2> QED  BY <2>1, <2>2, <2>3, <2>4, ImportMoves
  <1>4. CASE Admit(r)
    <2>1. ASSUME busy[old.region] PROVE ImportInv'
      <3> DEFINE x == [old EXCEPT !.stage = "ended"]
      <3>1. x \in ImportTyped
        BY <1>a DEF ImportStages
      <3>2. x.stage = "ended" /\ x.region = old.region /\ x.sent = old.sent
        BY <1>1 DEF ImportTyped
      <3>3. ImportSound(x, defaults, verified) /\ ~Occupies(x)
        BY <1>1, <3>2 DEF ImportSound
      <3>4. imports' = [imports EXCEPT ![r] = x] /\ UNCHANGED <<busy, defaults, current, verified>>
        BY <1>4, <1>b, <2>1 DEF Admit
      <3> HIDE DEF x
      <3> QED  BY <3>1, <3>2, <3>3, <3>4, ImportMoves
    <2>2. ASSUME ~busy[old.region] PROVE ImportInv'
      <3> DEFINE stage == IF old.region = "cn" THEN "load" ELSE "preflight"
                 x == [old EXCEPT !.stage = stage]
      <3>1. x \in ImportTyped
        BY <1>a DEF ImportStages
      <3>2. x.stage = stage /\ x.region = old.region /\ x.sent = old.sent
        BY <1>1 DEF ImportTyped
      <3>3. ImportSound(x, defaults, verified)
        <4>1. old.stage = "asked"
          BY <1>4 DEF Admit, StageIs
        <4> QED  BY <1>1, <3>2, <4>1 DEF ImportSound
      <3>4. imports' = [imports EXCEPT ![r] = x] /\ UNCHANGED <<defaults, current, verified>>
            /\ busy' = [busy EXCEPT ![old.region] = TRUE]
        BY <1>4, <1>b, <2>2 DEF Admit
      <3> HIDE DEF x
      <3> QED  BY <2>2, <3>1, <3>2, <3>3, <3>4, ImportMoves
    <2> QED  BY <2>1, <2>2
  <1>5. CASE EndImport(r)
    <2> DEFINE x == [old EXCEPT !.stage = "ended"]
    <2>1. x \in ImportTyped
      BY <1>a DEF ImportStages
    <2>2. x.stage = "ended" /\ x.region = old.region /\ x.sent = old.sent
      BY <1>1 DEF ImportTyped
    <2>3. ImportSound(x, defaults, verified) /\ ~Occupies(x)
      BY <1>1, <2>2 DEF ImportSound
    <2>4. imports' = [imports EXCEPT ![r] = x] /\ UNCHANGED <<defaults, current, verified>>
          /\ busy' = [busy EXCEPT ![imports[r].region] = FALSE] /\ Occupies(imports[r])
      BY <1>5, <1>b DEF EndImport, InHand
    <2> HIDE DEF x
    <2> QED  BY <2>1, <2>2, <2>3, <2>4, ImportMoves
  <1>6. CASE Leave(r)
    <2> DEFINE stage == IF old.stage = "asked" THEN "ended" ELSE old.stage
               x == [old EXCEPT !.waits = FALSE, !.stage = stage]
    <2>1. x \in ImportTyped
      BY <1>1 DEF ImportStages, ImportTyped
    <2>2. x.stage = stage /\ x.region = old.region /\ x.sent = old.sent /\ x.version = old.version
      BY <1>1 DEF ImportTyped
    <2>3. ImportSound(x, defaults, verified)
      BY <1>1, <2>2 DEF ImportSound
    <2>4. imports' = [imports EXCEPT ![r] = x] /\ UNCHANGED <<busy, defaults, current, verified>>
      BY <1>6 DEF Leave
    <2>5. Occupies(x) => Occupies(old)
      BY <2>2
    <2> HIDE DEF x
    <2> QED  BY <2>1, <2>2, <2>3, <2>4, <2>5, ImportMoves
  <1>7. CASE LoadDefaults(r)
    <2>0. old.stage = "load" /\ old.region = "cn" /\ old.sent = 0
      BY <1>1, <1>7 DEF LoadDefaults, StageIs, ImportSound
    <2>1. CASE defaults = Unreadable
      <3> DEFINE x == [old EXCEPT !.stage = "discover"]
      <3>1. x \in ImportTyped
        BY <1>a DEF ImportStages
      <3>2. x.stage = "discover" /\ x.region = old.region /\ x.sent = old.sent
        BY <1>1 DEF ImportTyped
      <3>3. ImportSound(x, defaults, verified) /\ Occupies(old)
        BY <2>0, <3>2 DEF ImportSound
      <3>4. imports' = [imports EXCEPT ![r] = x] /\ UNCHANGED <<busy, defaults, current, verified>>
        BY <1>7, <1>b, <2>1 DEF LoadDefaults
      <3> HIDE DEF x
      <3> QED  BY <3>1, <3>2, <3>3, <3>4, ImportMoves
    <2>2. CASE defaults # Unreadable
      <3> DEFINE x == [old EXCEPT !.stage = "preflight", !.version = NextVersion(defaults)]
      <3>0. NextVersion(defaults) \in Nat
        BY <1>1, <2>2, ImportAssumption DEF NextVersion, ClientVersions
      <3>1. x \in ImportTyped
        BY <1>1, <3>0 DEF ImportStages, ImportTyped
      <3>2. x.stage = "preflight" /\ x.region = old.region /\ x.sent = old.sent
            /\ x.version = NextVersion(defaults)
        BY <1>1 DEF ImportTyped
      <3>3. ImportSound(x, defaults, verified) /\ Occupies(old)
        BY <2>0, <3>2 DEF ImportSound
      <3>4. imports' = [imports EXCEPT ![r] = x] /\ UNCHANGED <<busy, defaults, current, verified>>
        BY <1>7, <2>2 DEF LoadDefaults, NextVersion
      <3> HIDE DEF x
      <3> QED  BY <3>1, <3>2, <3>3, <3>4, ImportMoves
    <2> QED  BY <2>1, <2>2
  <1>8. CASE Preflight(r)
    <2>0. old.stage = "preflight" /\ old.sent = 0
          /\ (old.region = "cn" => old.version = NextVersion(defaults))
      BY <1>1, <1>8 DEF Preflight, StageIs, ImportSound
    <2>1. PICK stage \in {"suite", "sdkLogin", "discover"} :
             /\ GotoStage(r, stage) /\ UNCHANGED <<busy, defaults, current>>
             /\ verified' = verified \/ verified' = verified \cup {current}
             /\ stage # "suite" => old.region = "cn"
             /\ stage = "sdkLogin" => old.version \in verified'
      BY <1>8 DEF Preflight, Accepted
    <2> DEFINE x == [old EXCEPT !.stage = stage]
    <2>2. x \in ImportTyped
      BY <1>a DEF ImportStages
    <2>3. x.stage = stage /\ x.region = old.region /\ x.sent = old.sent /\ x.version = old.version
      BY <1>1 DEF ImportTyped
    <2>4. ImportSound(x, defaults, verified') /\ Occupies(old)
      BY <2>0, <2>1, <2>3 DEF ImportSound
    <2>5. imports' = [imports EXCEPT ![r] = x]
      BY <2>1, <1>b
    <2> HIDE DEF x
    <2> QED  BY <2>1, <2>2, <2>3, <2>4, <2>5, ImportMoves
  <1>9. CASE Discover(r)
    <2>0. old.stage = "discover" /\ old.region = "cn" /\ old.sent = 0
      BY <1>1, <1>9 DEF Discover, StageIs, ImportSound
    <2>1. PICK version \in ClientVersions :
             imports' = [imports EXCEPT ![r].stage = "recheck", ![r].version = version]
      BY <1>9 DEF Discover, InPackage
    <2> DEFINE x == [old EXCEPT !.stage = "recheck", !.version = version]
    <2>2. version \in Nat
      BY ImportAssumption DEF ClientVersions
    <2>3. x \in ImportTyped
      BY <1>1, <2>2 DEF ImportStages, ImportTyped
    <2>4. x.stage = "recheck" /\ x.region = old.region /\ x.sent = old.sent
      BY <1>1 DEF ImportTyped
    <2>5. ImportSound(x, defaults, verified) /\ Occupies(old)
      BY <2>0, <2>4 DEF ImportSound
    <2>6. imports' = [imports EXCEPT ![r] = x] /\ UNCHANGED <<busy, defaults, current, verified>>
      BY <1>9, <2>1 DEF Discover
    <2> HIDE DEF x
    <2> QED  BY <2>3, <2>4, <2>5, <2>6, ImportMoves
  <1>10. CASE Recheck(r)
    <2>0. old.stage = "recheck" /\ old.region = "cn" /\ old.sent = 0
      BY <1>1, <1>10 DEF Recheck, StageIs, ImportSound
    <2> DEFINE x == [old EXCEPT !.stage = "save"]
    <2>1. x \in ImportTyped
      BY <1>a DEF ImportStages
    <2>2. x.stage = "save" /\ x.region = old.region /\ x.sent = old.sent /\ x.version = old.version
      BY <1>1 DEF ImportTyped
    <2>3. old.version = current /\ verified' = verified \cup {current}
      BY <1>10 DEF Recheck, Accepted
    <2>4. ImportSound(x, defaults, verified') /\ Occupies(old)
      BY <1>1, <2>0, <2>2, <2>3 DEF ImportSound
    <2>5. imports' = [imports EXCEPT ![r] = x] /\ UNCHANGED <<busy, defaults, current>>
      BY <1>10, <1>b DEF Recheck
    <2> HIDE DEF x
    <2> QED  BY <2>1, <2>2, <2>3, <2>4, <2>5, ImportMoves
  <1>11. CASE SdkLogin(r)
    <2>0. old.stage = "sdkLogin" /\ old.region = "cn" /\ old.sent = 0
          /\ old.version = NextVersion(defaults) /\ old.version \in verified
      BY <1>1, <1>11 DEF SdkLogin, StageIs, ImportSound
    <2> DEFINE x == [old EXCEPT !.stage = "gameLogin", !.sent = old.sent + 1]
    <2>1. x \in ImportTyped
      <3>1. old.sent + 1 \in Nat
        BY <2>0
      <3> QED  BY <1>1, <3>1 DEF ImportStages, ImportTyped
    <2>2. x.stage = "gameLogin" /\ x.region = old.region /\ x.sent = 1 /\ x.version = old.version
      BY <1>1, <2>0 DEF ImportTyped
    <2>3. ImportSound(x, defaults, verified) /\ Occupies(old)
      BY <2>0, <2>2 DEF ImportSound
    <2>4. imports' = [imports EXCEPT ![r] = x] /\ UNCHANGED <<busy, defaults, current, verified>>
      BY <1>11 DEF SdkLogin
    <2> HIDE DEF x
    <2> QED  BY <2>1, <2>2, <2>3, <2>4, ImportMoves
  <1>12. CASE GameLogin(r)
    <2>0. old.stage = "gameLogin" /\ (old.sent = 0 \/ old.sent = 1)
      BY <1>1, <1>12 DEF GameLogin, StageIs, ImportSound
    <2> DEFINE x == [old EXCEPT !.stage = "suite"]
    <2>1. x \in ImportTyped
      BY <1>a DEF ImportStages
    <2>2. x.stage = "suite" /\ x.region = old.region /\ x.sent = old.sent
      BY <1>1 DEF ImportTyped
    <2>3. ImportSound(x, defaults, verified) /\ Occupies(old)
      BY <2>0, <2>2 DEF ImportSound
    <2>4. imports' = [imports EXCEPT ![r] = x] /\ UNCHANGED <<busy, defaults, current, verified>>
      BY <1>12, <1>b DEF GameLogin
    <2> HIDE DEF x
    <2> QED  BY <2>1, <2>2, <2>3, <2>4, ImportMoves
  <1> QED  BY <1>2, <1>3, <1>4, <1>5, <1>6, <1>7, <1>8, <1>9, <1>10, <1>11, <1>12 DEF ImportStep

\* The import that stores a version is the only one that uses one.
LEMMA StoreHolds ==
    ASSUME ImportInv, NEW r \in Imports, StoreVersion(r)
    PROVE  /\ ImportInv'
           /\ defaults' \in verified
           /\ defaults \in ClientVersions => defaults <= defaults'
  <1> DEFINE old == imports[r]
             x == [old EXCEPT !.stage = "sdkLogin"]
  <1>1. old \in ImportTyped /\ ImportSound(old, defaults, verified) /\ old.stage = "save"
        /\ imports \in [Imports -> ImportTyped]
    BY DEF ImportInv, ImportTypeOK, ImportTyped, StoreVersion, StageIs
  <1> USE DEF Occupies, WorkerStages, CredentialStages
  <1>2. old.region = "cn" /\ old.version \in verified /\ old.sent = 0
        /\ (defaults \in ClientVersions => defaults <= old.version)
    BY <1>1 DEF ImportSound
  <1>3. x \in ImportTyped /\ x.stage = "sdkLogin" /\ x.region = "cn" /\ x.version = old.version
        /\ x.sent = 0
    BY <1>1, <1>2 DEF ImportTyped, ImportStages
  <1>4. imports' = [imports EXCEPT ![r] = x] /\ defaults' = old.version
        /\ UNCHANGED <<busy, current, verified>>
    BY DEF StoreVersion, GotoStage
  <1>5. verified \subseteq ClientVersions /\ verified \subseteq 1..current
    BY DEF ImportInv, ImportTypeOK
  <1>6. defaults' # NoStored /\ NextVersion(defaults') = old.version
        /\ defaults' \in ClientVersions /\ defaults' <= current
    <2>1. defaults' \in ClientVersions /\ defaults' \in 1..current
      BY <1>2, <1>4, <1>5
    <2>2. current \in Nat
      BY ImportAssumption DEF ImportInv, ImportTypeOK, ClientVersions
    <2> QED  BY <1>4, <2>1, <2>2, ImportAssumption DEF NextVersion, ClientVersions
  <1> HIDE DEF x
  <1>7. imports' \in [Imports -> ImportTyped]
        /\ \A s \in Imports : imports'[s] = IF s = r THEN x ELSE imports[s]
    BY <1>1, <1>3, <1>4
  <1>8. ImportTypeOK'
    BY <1>4, <1>6, <1>7 DEF ImportInv, ImportTypeOK, ImportTyped
  <1>9. ASSUME NEW s \in Imports PROVE ImportSound(imports'[s], defaults', verified')
    <2>1. CASE s = r
      BY <2>1, <1>2, <1>3, <1>4, <1>6, <1>7 DEF ImportSound
    <2>2. CASE s # r
      <3>1. imports'[s] = imports[s] /\ ImportSound(imports[s], defaults, verified)
        BY <1>7, <2>2 DEF ImportInv
      <3>2. ~(imports[s].region = "cn" /\ Occupies(imports[s]))
        BY <1>1, <1>2, <2>2 DEF ImportInv, Exclusive
      <3> QED  BY <1>4, <3>1, <3>2 DEF ImportSound
    <2> QED  BY <2>1, <2>2
  <1>10. Exclusive'
    <2>1. \A s \in Imports : /\ imports'[s].region = imports[s].region
                             /\ Occupies(imports'[s]) <=> Occupies(imports[s])
      BY <1>1, <1>2, <1>3, <1>7
    <2> HIDE DEF Occupies
    <2> QED  BY <1>4, <2>1 DEF ImportInv, Exclusive
  <1> QED  BY <1>2, <1>4, <1>5, <1>6, <1>8, <1>9, <1>10 DEF ImportInv

LEMMA OthersHold ==
    ASSUME ImportInv, NewVersion \/ RestartServer \/ UNCHANGED importVars
    PROVE  ImportInv' /\ defaults' = defaults
  <1>1. CASE NewVersion
    <2>1. UNCHANGED <<imports, busy, defaults, verified>> /\ current' = current + 1
          /\ current < LastVersion /\ current \in ClientVersions
      BY <1>1 DEF NewVersion, ImportInv, ImportTypeOK
    <2>2. current' \in ClientVersions /\ 1..current \subseteq 1..current'
      BY <2>1, ImportAssumption DEF ClientVersions
    <2>3. defaults \in ClientVersions => defaults <= current'
      BY <2>1, ImportAssumption DEF ImportInv, ClientVersions
    <2>4. Exclusive'
      BY <2>1 DEF ImportInv, Exclusive
    <2> QED  BY <2>1, <2>2, <2>3, <2>4 DEF ImportInv, ImportTypeOK
  <1>2. CASE RestartServer
    <2>1. /\ UNCHANGED <<defaults, current, verified>> /\ busy' = [g \in Regions |-> FALSE]
          /\ imports' = [r \in Imports |->
                 IF StageIs(r, "none") THEN imports[r]
                 ELSE [imports[r] EXCEPT !.stage = "ended", !.waits = FALSE]]
      BY <1>2 DEF RestartServer
    <2>2. ASSUME NEW r \in Imports
          PROVE  /\ imports'[r] \in ImportTyped /\ ~Occupies(imports'[r])
                 /\ ImportSound(imports'[r], defaults, verified)
      <3>1. imports[r] \in ImportTyped /\ ImportSound(imports[r], defaults, verified)
        BY DEF ImportInv, ImportTypeOK, ImportTyped
      <3>2. CASE imports[r].stage = "none"
        <4>1. imports'[r] = imports[r]
          BY <2>1, <3>2 DEF StageIs
        <4> QED  BY <3>1, <3>2, <4>1 DEF Occupies, WorkerStages, CredentialStages
      <3>3. CASE imports[r].stage # "none"
        <4>1. imports'[r] = [imports[r] EXCEPT !.stage = "ended", !.waits = FALSE]
          BY <2>1, <3>3 DEF StageIs
        <4>2. imports'[r] \in ImportTyped /\ imports'[r].stage = "ended"
              /\ imports'[r].sent = imports[r].sent
          BY <3>1, <4>1 DEF ImportTyped, ImportStages
        <4> QED  BY <3>1, <4>2 DEF Occupies, WorkerStages, CredentialStages, ImportSound
      <3> QED  BY <3>2, <3>3
    <2>3. imports' \in [Imports -> ImportTyped]
      <3>1. \A r \in Imports : imports'[r] \in ImportTyped
        BY <2>2
      <3> QED  BY <2>1, <3>1
    <2>4. Exclusive'
      BY <2>2 DEF Exclusive
    <2>5. ImportTypeOK'
      BY <2>1, <2>3 DEF ImportInv, ImportTypeOK, ImportTyped
    <2> QED  BY <2>1, <2>2, <2>4, <2>5 DEF ImportInv
  <1>3. CASE UNCHANGED importVars
    <2>1. Exclusive'
      BY <1>3 DEF importVars, ImportInv, Exclusive
    <2> QED  BY <1>3, <2>1 DEF importVars, ImportInv, ImportTypeOK
  <1> QED  BY <1>1, <1>2, <1>3

LEMMA ImportInvariant == ImportSpec => []ImportInv
  <1>1. ImportInv /\ [ImportNext]_importVars => ImportInv'
    BY ImportStepHolds, StoreHolds, OthersHold DEF ImportNext
  <1> QED  BY <1>1, ImportStart, PTL DEF ImportSpec

\* The type invariant of the imports.
THEOREM ImportTypeCorrect == ImportSpec => []ImportTypeOK
  <1>1. ImportInv => ImportTypeOK
    BY DEF ImportInv
  <1> QED  BY <1>1, ImportInvariant, PTL

\* import_account and perform_login: whoever leaves, and however often the game
\* changes its version, imports of a region do not overlap, a password is sent once at most,
\* and with a version that was accepted and is the one on file.
THEOREM CredentialsAreKept == ImportSpec => []CredentialsKept
  <1>1. ImportInv => CredentialsKept
    <2> SUFFICES ASSUME ImportInv PROVE CredentialsKept
      OBVIOUS
    <2>1. \A r, s \in Imports :
             InHand(r) /\ InHand(s) /\ imports[r].region = imports[s].region => r = s
      BY DEF ImportInv, Exclusive, InHand, Occupies
    <2>2. ASSUME NEW r \in Imports
          PROVE  /\ imports[r].sent <= 1
                 /\ UsesCredentials(r) =>
                      /\ imports[r].version \in verified
                      /\ imports[r].version = NextVersion(defaults)
      <3>1. ImportSound(imports[r], defaults, verified)
        BY DEF ImportInv
      <3> QED  BY <3>1 DEF ImportSound, UsesCredentials
    <2> QED  BY <2>1, <2>2 DEF CredentialsKept, NextVersion
  <1> QED  BY <1>1, ImportInvariant, PTL

\* Only what the game has accepted replaces the file of defaults, and never with an
\* older version, though the official package may be behind the game.
THEOREM DefaultsOnlyMoveOn == ImportSpec => DefaultsMoveOn
  <1>1. ASSUME ImportInv, [ImportNext]_importVars
        PROVE  [defaults' # defaults =>
                   /\ defaults' \in verified
                   /\ defaults \in ClientVersions => defaults < defaults']_importVars
    <2>1. CASE \E r \in Imports : StoreVersion(r)
      <3>1. defaults' \in verified /\ (defaults \in ClientVersions => defaults <= defaults')
        BY <1>1, <2>1, StoreHolds
      <3>2. verified \subseteq Int
        BY <1>1, ImportAssumption DEF ImportInv, ImportTypeOK, ClientVersions
      <3>3. defaults \in ClientVersions /\ defaults' # defaults => defaults < defaults'
        BY <3>1, <3>2, ImportAssumption DEF ClientVersions
      <3> QED  BY <3>1, <3>3
    <2>2. CASE ~\E r \in Imports : StoreVersion(r)
      <3>1. defaults' = defaults
        BY <1>1, <2>2 DEF ImportNext, ImportStep, NewVersion, RestartServer, Ask, Refuse, Admit,
              EndImport, Leave, LoadDefaults, Preflight, Discover, Recheck, SdkLogin, GameLogin,
              importVars
      <3> QED  BY <3>1
    <2> QED  BY <2>1, <2>2
  <1> QED  BY <1>1, ImportInvariant, PTL DEF ImportSpec, DefaultsMoveOn

=============================================================================
