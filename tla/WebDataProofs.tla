---------------------------- MODULE WebDataProofs ----------------------------
(***************************************************************************)
(* The mirror of the game data and the pages that read it, for every       *)
(* number of files, directories, downloads, retries and calls.             *)
(*                                                                         *)
(* The tool keeps what PublishedData promises, and a run that publishes    *)
(* lists every main file as new as when it started.  Under this promise a  *)
(* page that asks for the manifest again gets main files at least as new   *)
(* as those listed then, and does not fail for failures of the past.       *)
(***************************************************************************)
EXTENDS MCWebData, FiniteSetTheorems, TLAPS

-----------------------------------------------------------------------------
(* Versions and files.                                                     *)

Version == Nat \cup {None}

LEMMA ReachesSelf == ASSUME NEW v \in Version PROVE Reaches(v, v)
BY DEF Version, Reaches

LEMMA ReachesNone == ASSUME NEW v PROVE Reaches(v, None)
BY DEF Reaches

LEMMA ReachesOn ==
    ASSUME NEW a \in Version, NEW b \in Version, NEW c \in Version,
           Reaches(a, b), Reaches(b, c)
    PROVE  Reaches(a, c)
BY FilesAssumption DEF Version, Reaches

LEMMA FileSets ==
    /\ CoreSet \subseteq SourceFiles /\ DetailSet \subseteq SourceFiles /\ RepairSet \subseteq SourceFiles
    /\ SourceFiles \subseteq Files /\ Meta \in Files /\ Meta \notin SourceFiles
    /\ Charts \subseteq DetailSet /\ CoreSet \cap DetailSet = {}
    /\ CoreSet \cap RepairSet = {} /\ DetailSet \cap RepairSet = {}
    /\ None \notin Nat /\ None \notin Contents
BY FilesAssumption DEF SourceFiles, Files

LEMMA Sequences ==
    /\ Core \in Seq(CoreSet) /\ DOMAIN Core = 1 .. Len(Core) /\ Len(Core) \in Nat
    /\ \A i \in DOMAIN Core : Core[i] \in CoreSet
    /\ \A f \in CoreSet : \E i \in DOMAIN Core : Core[i] = f
    /\ Details \in Seq(DetailSet) /\ DOMAIN Details = 1 .. Len(Details) /\ Len(Details) \in Nat
    /\ \A i \in DOMAIN Details : Details[i] \in DetailSet
    /\ \A f \in DetailSet : \E i \in DOMAIN Details : Details[i] = f
    /\ Repairs \in Seq(RepairSet) /\ Len(Repairs) \in Nat
    /\ Dirs \in Seq(DirSet) /\ DOMAIN Dirs = 1 .. Len(Dirs) /\ Len(Dirs) \in Nat
    /\ Dirs[1] = Root /\ Root \in DirSet
    /\ \A i \in DOMAIN Dirs : Dirs[i] \in DirSet
<1>1. /\ Core \in Seq(CoreSet) /\ Details \in Seq(DetailSet) /\ Repairs \in Seq(RepairSet)
      /\ Dirs \in Seq(DirSet) /\ Dirs # <<>> /\ Dirs[1] = Root
  BY FilesAssumption
<1>2. Root \in DirSet
  <2>1. 1 \in DOMAIN Dirs
    BY <1>1
  <2> QED BY <1>1, <2>1 DEF DirSet, ElementsOf
<1> QED BY <1>1, <1>2 DEF CoreSet, DetailSet, ElementsOf

LEMMA NoFilesTyped == NoFiles \in Contents /\ \A f \in Files : NoFiles[f] = None
BY DEF NoFiles, Contents

LEMMA ListingTyped ==
    ASSUME NEW x \in Contents \cup {None}
    PROVE  /\ Listing(x) \in Contents
           /\ \A f \in Files : Listing(x)[f] \in Version
           /\ x \in Contents => Listing(x) = x
           /\ x = None => \A f \in Files : Listing(x)[f] = None
BY NoFilesTyped, FileSets DEF Listing, Contents, Version

LEMMA ContentsAt ==
    ASSUME NEW x \in Contents, NEW f \in Files
    PROVE  x[f] \in Version
BY DEF Contents, Version

-----------------------------------------------------------------------------
(* The version of the chart meta depends on the charts alone.              *)

LEMMA MetaTyped ==
    ASSUME NEW x \in Contents, \A c \in Charts : x[c] # None
    PROVE  MetaFrom(x) \in Nat
<1> DEFINE block == [c \in Charts |-> {c} \X (1 .. x[c])]
           blocks == {{c} \X (1 .. x[c]) : c \in Charts}
<1>1. IsFiniteSet(Charts)
  <2>1. IsFiniteSet(DOMAIN Details)
    BY Sequences, FS_Interval
  <2>2. Details \in Surjection(DOMAIN Details, DetailSet)
    BY Sequences DEF Surjection
  <2>3. IsFiniteSet(DetailSet)
    BY <2>1, <2>2, FS_Surjection
  <2> QED BY <2>3, FileSets, FS_Subset
<1>2. \A c \in Charts : IsFiniteSet({c} \X (1 .. x[c]))
  <2> SUFFICES ASSUME NEW c \in Charts PROVE IsFiniteSet({c} \X (1 .. x[c]))
    OBVIOUS
  <2>1. x[c] \in Nat
    BY FileSets, ContentsAt DEF Version
  <2>2. IsFiniteSet(1 .. x[c])
    BY <2>1, FS_Interval
  <2>3. IsFiniteSet({c})
    BY FS_Singleton
  <2> QED BY <2>2, <2>3, FS_Product
<1>3. IsFiniteSet(blocks)
  <2>1. block \in Surjection(Charts, blocks)
    BY DEF Surjection
  <2> QED BY <2>1, <1>1, FS_Surjection
<1>4. \A b \in blocks : IsFiniteSet(b)
  BY <1>2
<1>5. IsFiniteSet(UNION blocks)
  BY <1>3, <1>4, FS_UNION
<1> QED BY <1>5, FS_CardinalityType DEF MetaFrom

LEMMA MetaSame ==
    ASSUME NEW x, NEW y, \A c \in Charts : x[c] = y[c]
    PROVE  MetaFrom(x) = MetaFrom(y)
<1>1. {{c} \X (1 .. x[c]) : c \in Charts} = {{c} \X (1 .. y[c]) : c \in Charts}
  <2>1. \A c \in Charts : {c} \X (1 .. x[c]) = {c} \X (1 .. y[c])
    OBVIOUS
  <2> QED BY ONLY <2>1
<1> QED BY <1>1 DEF MetaFrom

-----------------------------------------------------------------------------
(* The mirror: its state, and what a run knows at each stage.              *)

Stages == {"idle", "core", "repairs", "details", "meta", "manifests"}

RunSet ==
    [stage : Stages, asked : {<<>>, Details}, chunk : Nat, tries : [Files -> Nat],
     failed : SUBSET Files, entries : Contents, previous : Contents, todo : Nat, since : Contents]

PublishedTyped ==
    /\ disk \in Contents
    /\ manifests \in [DirSet -> Contents \cup {None}]

RootList == Listing(manifests[Root])

(* No manifest lists what is not there. *)
Honest == \A d \in DirSet, f \in Files : Reaches(disk[f], Listing(manifests[d])[f])

MirrorTyped ==
    /\ PublishedTyped
    /\ upstream \in [SourceFiles -> Nat]
    /\ run \in RunSet

(* The source is ahead of the mirror, and of what a run started from. *)
SourceAhead ==
    /\ \A f \in SourceFiles : Reaches(upstream[f], disk[f])
    /\ \A f \in CoreSet : Reaches(upstream[f], run.since[f])

(* The chart meta is that of the charts that are there. *)
MetaMade == disk[Meta] # None => disk[Meta] = MetaFrom(disk) /\ \A c \in Charts : disk[c] # None

(* What a run will list is there. *)
EntriesThere ==
    \A f \in Files : Reaches(disk[f], run.previous[f]) /\ Reaches(disk[f], run.entries[f])

(* What a run found in the root is not older than what the root lists, and *)
(* what it will list is neither older than that nor than the start.        *)
PreviousNew == run.stage = "core" => \A f \in CoreSet : Reaches(run.previous[f], RootList[f])

EntriesNew ==
    \A f \in CoreSet : run.entries[f] # None =>
        Reaches(run.entries[f], RootList[f]) /\ Reaches(run.entries[f], run.since[f])

(* After the main files all of them have an entry, unless nothing was      *)
(* listed and the run is one that only makes the chart meta.               *)
CoreDone ==
    run.stage \in {"repairs", "details", "meta", "manifests"} =>
        \A f \in CoreSet : run.entries[f] # None \/ (run.since[f] = None /\ RootList[f] = None)

(* The chunks before the current one have their entries. *)
DoneBefore(jobs) ==
    \A i \in DOMAIN jobs : (i - 1) \div Concurrency < run.chunk => run.entries[jobs[i]] # None

ChunksDone ==
    /\ run.stage = "core" => DoneBefore(Core)
    /\ run.stage = "repairs" => run.chunk = 0
    /\ run.stage = "details" /\ run.asked # <<>> => DoneBefore(Details)

ChartsThere == run.stage = "meta" /\ run.asked # <<>> => \A c \in Charts : disk[c] # None

RootWritten ==
    run.stage = "manifests" /\ run.todo > 1 =>
        /\ manifests[Root] \in Contents
        /\ \A f \in CoreSet : manifests[Root][f] = run.entries[f]

MirrorInv ==
    /\ MirrorTyped /\ Honest
    /\ SourceAhead /\ MetaMade /\ EntriesThere
    /\ PreviousNew /\ EntriesNew /\ CoreDone /\ ChunksDone /\ ChartsThere /\ RootWritten

-----------------------------------------------------------------------------
(* How steps change files and runs.                                        *)

With(x, f, v) == [x EXCEPT ![f] = v]
WithEntry(r, f, v) == [r EXCEPT !.entries[f] = v]

LEMMA ContentsExcept ==
    ASSUME NEW x \in Contents, NEW f \in Files, NEW v \in Version
    PROVE  /\ With(x, f, v) \in Contents
           /\ With(x, f, v)[f] = v /\ \A g \in Files \ {f} : With(x, f, v)[g] = x[g]
BY DEF With, Contents, Version

LEMMA RunFields ==
    ASSUME NEW r \in RunSet
    PROVE  /\ r.stage \in Stages /\ r.asked \in {<<>>, Details} /\ r.chunk \in Nat /\ r.todo \in Nat
           /\ r.entries \in Contents /\ r.previous \in Contents /\ r.since \in Contents
           /\ r.failed \subseteq Files
           /\ \A f \in Files : /\ r.entries[f] \in Version
                               /\ r.previous[f] \in Version
                               /\ r.since[f] \in Version
BY ContentsAt DEF RunSet

LEMMA IdleTyped ==
    /\ Idle \in RunSet /\ Idle.stage = "idle"
    /\ Idle.entries = NoFiles /\ Idle.previous = NoFiles /\ Idle.since = NoFiles
BY NoFilesTyped DEF Idle, RunSet, Stages

LEMMA SetEntry ==
    ASSUME NEW r \in RunSet, NEW f \in Files, NEW v \in Version
    PROVE  LET s == WithEntry(r, f, v)
           IN  /\ s \in RunSet
               /\ s.entries[f] = v /\ \A g \in Files \ {f} : s.entries[g] = r.entries[g]
               /\ s.stage = r.stage /\ s.asked = r.asked /\ s.chunk = r.chunk
               /\ s.previous = r.previous /\ s.since = r.since /\ s.todo = r.todo /\ s.failed = r.failed
<1> DEFINE s == WithEntry(r, f, v)
           x == With(r.entries, f, v)
<1>1. s = [r EXCEPT !.entries = x]
  BY DEF RunSet, WithEntry, With
<1>2. x \in Contents /\ x[f] = v /\ \A g \in Files \ {f} : x[g] = r.entries[g]
  BY RunFields, ContentsExcept
<1> HIDE DEF x
<1>3. s \in RunSet /\ s.entries = x
  BY <1>1, <1>2 DEF RunSet
<1>4. /\ s.stage = r.stage /\ s.asked = r.asked /\ s.chunk = r.chunk
      /\ s.previous = r.previous /\ s.since = r.since /\ s.todo = r.todo /\ s.failed = r.failed
  BY <1>1 DEF RunSet
<1> QED BY <1>2, <1>3, <1>4

(* A quotient below one more than q is q or below. *)
LEMMA Chunks ==
    ASSUME NEW i \in Nat \ {0}, NEW q \in Nat
    PROVE  /\ (i - 1) \div Concurrency \in Nat
           /\ (i - 1) \div Concurrency < q + 1 =>
                 (i - 1) \div Concurrency < q \/ (i - 1) \div Concurrency = q
           /\ i <= (q + 1) * Concurrency => (i - 1) \div Concurrency < q + 1
<1>1. Concurrency \in Nat \ {0}
  BY MirrorAssumption
<1> DEFINE n == i - 1
           k == n \div Concurrency
<1>2. n \in Nat /\ k \in Nat /\ n = Concurrency * k + (n % Concurrency) /\ n % Concurrency \in 0 .. Concurrency - 1
  BY <1>1
<1>3. ASSUME i <= (q + 1) * Concurrency PROVE k < q + 1
  <2> HIDE DEF k
  <2> SUFFICES ASSUME k >= q + 1 PROVE FALSE
    BY <1>2
  <2>1. Concurrency * k >= Concurrency * (q + 1)
    BY <1>1, <1>2
  <2> QED BY <2>1, <1>1, <1>2, <1>3
<1> QED BY <1>2, <1>3

-----------------------------------------------------------------------------
(* The steps of the mirror.                                                *)

(* Files get newer. *)
LEMMA FilesGrow ==
    ASSUME MirrorInv, disk' \in Contents, UNCHANGED manifests,
           \A f \in Files : Reaches(disk'[f], disk[f])
    PROVE  /\ PublishedTyped' /\ Honest' /\ PutFiles /\ RootList' = RootList
           /\ \A f \in Files : Reaches(disk'[f], run.entries[f]) /\ Reaches(disk'[f], run.previous[f])
<1>1. disk \in Contents /\ manifests \in [DirSet -> Contents \cup {None}] /\ run \in RunSet
  BY DEF MirrorInv, MirrorTyped, PublishedTyped
<1>2. PublishedTyped' /\ PutFiles /\ RootList' = RootList
  BY <1>1 DEF PublishedTyped, PutFiles, RootList
<1>3. Honest'
  <2> SUFFICES ASSUME NEW d \in DirSet, NEW f \in Files
               PROVE  Reaches(disk'[f], Listing(manifests[d])[f])
    BY DEF Honest
  <2>1. Reaches(disk[f], Listing(manifests[d])[f])
    BY DEF MirrorInv, Honest
  <2>2. Listing(manifests[d])[f] \in Version
    BY <1>1, ListingTyped
  <2> QED BY <2>1, <2>2, <1>1, ContentsAt, ReachesOn
<1>4. ASSUME NEW f \in Files
      PROVE  Reaches(disk'[f], run.entries[f]) /\ Reaches(disk'[f], run.previous[f])
  <2>1. Reaches(disk[f], run.entries[f]) /\ Reaches(disk[f], run.previous[f])
    BY DEF MirrorInv, EntriesThere
  <2>2. run.entries[f] \in Version /\ run.previous[f] \in Version
    BY <1>1, RunFields
  <2> QED BY <2>1, <2>2, <1>1, ContentsAt, ReachesOn
<1> QED BY <1>2, <1>3, <1>4

LEMMA FilesStay ==
    ASSUME MirrorInv, UNCHANGED published
    PROVE  PublishedTyped' /\ Honest' /\ RootList' = RootList
BY DEF MirrorInv, MirrorTyped, PublishedTyped, Honest, RootList, published

(* A run that is over leaves nothing to check. *)
LEMMA RunOver ==
    ASSUME MirrorInv, PublishedTyped', Honest', UNCHANGED <<upstream, disk>>, run' = Idle
    PROVE  MirrorInv'
<1>1. Idle \in RunSet /\ Idle.stage = "idle"
      /\ \A f \in Files : Idle.entries[f] = None /\ Idle.previous[f] = None /\ Idle.since[f] = None
  BY IdleTyped, NoFilesTyped
<1>2. MirrorTyped'
  BY <1>1 DEF MirrorInv, MirrorTyped
<1>3. SourceAhead' /\ EntriesThere'
  BY <1>1, FileSets, ReachesNone DEF MirrorInv, SourceAhead, EntriesThere
<1>4. MetaMade'
  BY DEF MirrorInv, MetaMade, MetaFrom
<1>5. PreviousNew' /\ EntriesNew' /\ CoreDone' /\ ChunksDone' /\ ChartsThere' /\ RootWritten'
  BY <1>1, FileSets DEF PreviousNew, EntriesNew, CoreDone, ChunksDone, ChartsThere, RootWritten
<1> QED BY <1>2, <1>3, <1>4, <1>5 DEF MirrorInv

LEMMA CombinedNew ==
    ASSUME MirrorInv
    PROVE  /\ Combined \in Contents
           /\ \A f \in Files : Reaches(disk[f], Combined[f])
           /\ \A f \in Files : RootList[f] # None => Combined[f] = RootList[f]
<1>1. manifests \in [DirSet -> Contents \cup {None}] /\ DirOf \in [Files -> DirSet] /\ Root \in DirSet
  BY Sequences, FilesAssumption DEF MirrorInv, MirrorTyped, PublishedTyped
<1>2. \A f \in Files : Combined[f] = IF RootList[f] # None THEN RootList[f] ELSE Listing(manifests[DirOf[f]])[f]
  BY DEF Combined, RootList
<1>3. \A f \in Files : RootList[f] \in Version /\ Listing(manifests[DirOf[f]])[f] \in Version
  BY <1>1, ListingTyped DEF RootList
<1>4. Combined \in Contents
  BY <1>3 DEF Combined, RootList, Contents, Version
<1>5. \A f \in Files : Reaches(disk[f], RootList[f]) /\ Reaches(disk[f], Listing(manifests[DirOf[f]])[f])
  BY <1>1 DEF MirrorInv, Honest, RootList
<1> QED BY <1>2, <1>4, <1>5

LEMMA StartRunStep ==
    ASSUME MirrorInv, NEW asked \in {<<>>, Details}, StartRun(asked)
    PROVE  MirrorInv' /\ UNCHANGED published
<1> DEFINE since == [f \in Files |-> IF f \in CoreSet THEN upstream[f] ELSE None]
<1>1. /\ run' \in RunSet /\ run'.stage = "core" /\ run'.previous = Combined /\ run'.since = since
      /\ run'.entries = NoFiles /\ run'.chunk = 0
  <2>1. since \in Contents
    BY FileSets DEF MirrorInv, MirrorTyped, Contents
  <2>2. Combined \in Contents
    BY CombinedNew
  <2>3. run' = [Idle EXCEPT !.stage = "core", !.asked = asked, !.previous = Combined, !.since = since]
    BY DEF StartRun
  <2> HIDE DEF since
  <2> QED BY <2>1, <2>2, <2>3, NoFilesTyped DEF Idle, RunSet, Stages
<1>2. UNCHANGED <<upstream, disk, manifests>> /\ UNCHANGED published
  BY DEF StartRun, published
<1>3. PublishedTyped' /\ Honest' /\ RootList' = RootList
  BY <1>2, FilesStay
<1>4. MirrorTyped'
  BY <1>1, <1>2, <1>3 DEF MirrorInv, MirrorTyped
<1>5. SourceAhead'
  <2>1. \A f \in CoreSet : since[f] = upstream[f] /\ upstream[f] \in Version
    BY FileSets DEF MirrorInv, MirrorTyped, Version
  <2>2. \A f \in CoreSet : Reaches(upstream[f], since[f])
    BY <2>1, ReachesSelf
  <2> HIDE DEF since
  <2> QED BY <1>1, <1>2, <2>2 DEF MirrorInv, SourceAhead
<1>6. MetaMade'
  BY <1>2 DEF MirrorInv, MetaMade, MetaFrom
<1>7. EntriesThere'
  BY <1>1, <1>2, CombinedNew, NoFilesTyped, ReachesNone DEF EntriesThere
<1>8. PreviousNew'
  <2> SUFFICES ASSUME NEW f \in CoreSet PROVE Reaches(Combined[f], RootList[f])
    BY <1>1, <1>3 DEF PreviousNew
  <2>1. RootList[f] \in Version
    BY ListingTyped, FileSets, Sequences DEF MirrorInv, MirrorTyped, PublishedTyped, RootList
  <2>2. RootList[f] # None => Combined[f] = RootList[f]
    BY CombinedNew, FileSets
  <2> QED BY <2>1, <2>2, ReachesSelf, ReachesNone
<1>9. EntriesNew' /\ CoreDone' /\ ChartsThere' /\ RootWritten'
  BY <1>1, NoFilesTyped, FileSets DEF EntriesNew, CoreDone, ChartsThere, RootWritten
<1>10. ChunksDone'
  <2>1. \A i \in DOMAIN Core : ~ ((i - 1) \div Concurrency < 0)
    <3> SUFFICES ASSUME NEW i \in DOMAIN Core PROVE ~ ((i - 1) \div Concurrency < 0)
      OBVIOUS
    <3>1. i \in Nat \ {0}
      BY Sequences
    <3> DEFINE k == (i - 1) \div Concurrency
    <3>2. k \in Nat
      BY <3>1, Chunks, 0 \in Nat
    <3> HIDE DEF k
    <3>3. ~ (k < 0)
      BY <3>2
    <3> QED BY <3>3 DEF k
  <2> QED BY <1>1, <2>1 DEF ChunksDone, DoneBefore
<1> QED BY <1>2, <1>3, <1>4, <1>5, <1>6, <1>7, <1>8, <1>9, <1>10 DEF MirrorInv

LEMMA StartMetaRunStep ==
    ASSUME MirrorInv, StartMetaRun
    PROVE  MirrorInv' /\ UNCHANGED published
<1>1. /\ run' \in RunSet /\ run'.stage = "meta" /\ run'.previous = NoFiles /\ run'.since = NoFiles
      /\ run'.entries = Combined
  <2>1. Combined \in Contents
    BY CombinedNew
  <2>2. run' = [Idle EXCEPT !.stage = "meta", !.asked = Details, !.entries = Combined]
    BY DEF StartMetaRun
  <2> QED BY <2>1, <2>2, NoFilesTyped DEF Idle, RunSet, Stages
<1>2. UNCHANGED <<upstream, disk, manifests>> /\ UNCHANGED published
  BY DEF StartMetaRun, published
<1>3. PublishedTyped' /\ Honest' /\ RootList' = RootList
  BY <1>2, FilesStay
<1>4. MirrorTyped'
  BY <1>1, <1>2, <1>3 DEF MirrorInv, MirrorTyped
<1>5. SourceAhead' /\ EntriesThere'
  BY <1>1, <1>2, CombinedNew, NoFilesTyped, ReachesNone, FileSets DEF MirrorInv, SourceAhead, EntriesThere
<1>6. MetaMade'
  BY <1>2 DEF MirrorInv, MetaMade, MetaFrom
<1>7. \A f \in CoreSet : /\ RootList[f] # None => Combined[f] = RootList[f]
                         /\ RootList[f] \in Version /\ NoFiles[f] = None
  BY CombinedNew, NoFilesTyped, ListingTyped, FileSets, Sequences
     DEF MirrorInv, MirrorTyped, PublishedTyped, RootList
<1>8. EntriesNew' /\ CoreDone'
  <2>1. \A f \in CoreSet : Reaches(Combined[f], RootList[f])
    BY <1>7, ReachesSelf, ReachesNone
  <2> QED BY <1>1, <1>3, <1>7, <2>1, ReachesNone DEF EntriesNew, CoreDone
<1>9. PreviousNew' /\ ChunksDone' /\ RootWritten'
  BY <1>1 DEF PreviousNew, ChunksDone, RootWritten
<1>10. ChartsThere'
  BY <1>2 DEF StartMetaRun, ChartsThere
<1> QED BY <1>2, <1>3, <1>4, <1>5, <1>6, <1>8, <1>9, <1>10 DEF MirrorInv

LEMMA DownloadEntry ==
    ASSUME MirrorInv, NEW f \in Files, Download(f)
    PROVE  /\ (run.stage = "core" /\ f \in CoreSet) \/ (run.stage = "details" /\ f \in DetailSet)
           /\ disk' = disk \/ (disk' = [disk EXCEPT ![f] = upstream[f]] /\ (f \in DetailSet => disk[f] = None))
           /\ \E v \in Version :
                 /\ v # None /\ run' = [run EXCEPT !.entries[f] = v] /\ Reaches(disk'[f], v)
                 /\ f \in CoreSet => Reaches(v, RootList[f]) /\ Reaches(v, run.since[f])
<1>1. (run.stage = "core" /\ f \in CoreSet) \/ (run.stage = "details" /\ f \in DetailSet)
  <2>1. PICK j \in DOMAIN Jobs : f = Jobs[j]
    BY DEF Download, Waiting, ChunkJobs
  <2>2. run.asked = <<>> \/ run.asked = Details
    BY RunFields DEF MirrorInv, MirrorTyped
  <2>3. CASE run.stage = "core"
    BY <2>1, <2>3, Sequences DEF Jobs
  <2>4. CASE run.stage = "details"
    BY <2>1, <2>2, <2>4, Sequences DEF Jobs
  <2> QED BY <2>1, <2>3, <2>4 DEF Jobs
<1>2. /\ run \in RunSet /\ run.previous[f] \in Version /\ run.since[f] \in Version
      /\ disk \in Contents /\ disk[f] \in Version /\ RootList[f] \in Version
      /\ f \in SourceFiles /\ upstream[f] \in Nat /\ upstream[f] \in Version /\ upstream[f] # None
  BY <1>1, RunFields, ContentsAt, FileSets, ListingTyped, Sequences
     DEF MirrorInv, MirrorTyped, PublishedTyped, RootList, Version
<1>3. /\ Reaches(disk[f], run.previous[f]) /\ Reaches(upstream[f], disk[f])
      /\ Reaches(disk[f], RootList[f])
      /\ f \in CoreSet => Reaches(run.previous[f], RootList[f]) /\ Reaches(upstream[f], run.since[f])
  BY <1>1, <1>2, FileSets, Sequences
     DEF MirrorInv, EntriesThere, SourceAhead, Honest, RootList, PreviousNew
<1>4. CASE Kept(f)
  <2> DEFINE v == IF run.previous[f] # None THEN run.previous[f] ELSE disk[f]
  <2>1. f \notin CoreSet /\ disk[f] # None
    BY <1>4, FileSets DEF Kept
  <2>2. v \in Version /\ v # None /\ Reaches(disk[f], v)
    BY <1>2, <1>3, <2>1, ReachesSelf
  <2>3. run' = [run EXCEPT !.entries[f] = v] /\ disk' = disk
    BY <1>4 DEF Download
  <2> HIDE DEF v
  <2> QED BY <1>1, <2>1, <2>2, <2>3
<1>5. CASE ~ Kept(f) /\ NotModified(f)
  <2> DEFINE v == run.previous[f]
  <2>1. v \in Version /\ v # None /\ v = upstream[f]
    BY <1>2, <1>5 DEF NotModified
  <2>2. run' = [run EXCEPT !.entries[f] = v] /\ disk' = disk
    BY <1>5 DEF Download
  <2>3. Reaches(disk[f], v) /\ (f \in CoreSet => Reaches(v, RootList[f]) /\ Reaches(v, run.since[f]))
    BY <1>3, <2>1
  <2> HIDE DEF v
  <2> QED BY <1>1, <2>1, <2>2, <2>3
<1>6. CASE ~ Kept(f) /\ ~ NotModified(f)
  <2> DEFINE v == upstream[f]
  <2>1. disk' = [disk EXCEPT ![f] = v] /\ run' = [run EXCEPT !.entries[f] = v]
    BY <1>6 DEF Download
  <2>2. v \in Version /\ v # None /\ disk'[f] = v
    BY <1>2, <2>1 DEF Contents
  <2>3. Reaches(v, v)
    BY <2>2, ReachesSelf
  <2>4. f \in CoreSet => Reaches(v, RootList[f]) /\ Reaches(v, run.since[f])
    BY <1>2, <1>3, ReachesOn
  <2>5. f \in DetailSet => disk[f] = None
    BY <1>6 DEF Kept
  <2> HIDE DEF v
  <2>6. Reaches(disk'[f], v)
    BY <2>2, <2>3
  <2>7. disk' = [disk EXCEPT ![f] = upstream[f]]
    BY <1>6 DEF Download
  <2> QED BY <1>1, <2>1, <2>2, <2>4, <2>5, <2>6, <2>7
<1> QED BY <1>4, <1>5, <1>6

LEMMA DownloadStep ==
    ASSUME MirrorInv, NEW f \in Files, Download(f)
    PROVE  MirrorInv' /\ PutFiles
<1>1. PICK v \in Version :
         /\ v # None /\ run' = [run EXCEPT !.entries[f] = v] /\ Reaches(disk'[f], v)
         /\ f \in CoreSet => Reaches(v, RootList[f]) /\ Reaches(v, run.since[f])
  BY DownloadEntry
<1>2. /\ run \in RunSet /\ disk \in Contents /\ f \in SourceFiles
      /\ upstream \in [SourceFiles -> Nat] /\ UNCHANGED <<upstream, manifests>>
  BY DownloadEntry, FileSets DEF MirrorInv, MirrorTyped, PublishedTyped, Download
<1>3. /\ run' \in RunSet
      /\ run'.entries[f] = v /\ \A g \in Files \ {f} : run'.entries[g] = run.entries[g]
      /\ run'.stage = run.stage /\ run'.asked = run.asked /\ run'.chunk = run.chunk
      /\ run'.previous = run.previous /\ run'.since = run.since /\ run'.todo = run.todo
  <2>1. run' = WithEntry(run, f, v)
    BY <1>1 DEF WithEntry
  <2> QED BY <1>2, <2>1, SetEntry
<1>4. /\ disk' \in Contents /\ \A g \in Files \ {f} : disk'[g] = disk[g]
      /\ disk'[f] = disk[f] \/ (disk'[f] = upstream[f] /\ (f \in DetailSet => disk[f] = None))
  <2>1. CASE disk' = disk
    BY <1>2, <2>1
  <2>2. CASE disk' = [disk EXCEPT ![f] = upstream[f]] /\ (f \in DetailSet => disk[f] = None)
    <3>1. upstream[f] \in Version
      BY <1>2 DEF Version
    <3>2. disk' = With(disk, f, upstream[f])
      BY <2>2 DEF With
    <3> DEFINE y == With(disk, f, upstream[f])
    <3>3. y \in Contents /\ y[f] = upstream[f] /\ \A g \in Files \ {f} : y[g] = disk[g]
      BY <1>2, <3>1, ContentsExcept
    <3> HIDE DEF y
    <3> QED BY <2>2, <3>2, <3>3 DEF y
  <2> QED BY <2>1, <2>2, DownloadEntry
<1>5. \A g \in Files : Reaches(disk'[g], disk[g])
  <2>1. Reaches(upstream[f], disk[f])
    BY <1>2 DEF MirrorInv, SourceAhead
  <2>2. \A g \in Files : Reaches(disk[g], disk[g])
    BY <1>2, ContentsAt, ReachesSelf
  <2> QED BY <1>4, <2>1, <2>2
<1>6. /\ PublishedTyped' /\ Honest' /\ PutFiles /\ RootList' = RootList
      /\ \A g \in Files : Reaches(disk'[g], run.entries[g]) /\ Reaches(disk'[g], run.previous[g])
  BY <1>2, <1>4, <1>5, FilesGrow
<1>7. MirrorTyped'
  BY <1>2, <1>3, <1>6 DEF MirrorTyped
<1>8. SourceAhead'
  <2>1. \A g \in SourceFiles : Reaches(upstream[g], disk[g]) /\ upstream[g] \in Version
    BY <1>2 DEF MirrorInv, SourceAhead, Version
  <2>2. \A g \in SourceFiles : Reaches(upstream[g], disk'[g])
    BY <1>4, <2>1, ReachesSelf, FileSets
  <2> QED BY <1>2, <1>3, <2>2 DEF MirrorInv, SourceAhead
<1>9. MetaMade'
  <2> SUFFICES ASSUME disk'[Meta] # None
               PROVE  disk'[Meta] = MetaFrom(disk') /\ \A c \in Charts : disk'[c] # None
    BY DEF MetaMade
  <2>1. disk'[Meta] = disk[Meta]
    BY <1>2, <1>4, FileSets
  <2>2. disk[Meta] = MetaFrom(disk) /\ \A c \in Charts : disk[c] # None
    BY <2>1 DEF MirrorInv, MetaMade
  <2>3. \A c \in Charts : disk'[c] = disk[c]
    BY <1>4, <2>2, FileSets
  <2> QED BY <2>1, <2>2, <2>3, MetaSame
<1>10. EntriesThere'
  BY <1>1, <1>3, <1>6 DEF EntriesThere
<1>11. PreviousNew' /\ EntriesNew' /\ CoreDone'
  BY <1>1, <1>3, <1>6, FileSets DEF MirrorInv, PreviousNew, EntriesNew, CoreDone
<1>12. ChunksDone'
  BY <1>1, <1>3, FileSets, Sequences DEF MirrorInv, ChunksDone, DoneBefore
<1>13. ChartsThere' /\ RootWritten'
  BY <1>3, DownloadEntry DEF ChartsThere, RootWritten
<1> QED BY <1>6, <1>7, <1>8, <1>9, <1>10, <1>11, <1>12, <1>13 DEF MirrorInv

LEMMA DownloadFailsStep ==
    ASSUME MirrorInv, NEW f \in Files, DownloadFails(f)
    PROVE  MirrorInv' /\ UNCHANGED published
<1>1. /\ run' \in RunSet
      /\ run'.stage = run.stage /\ run'.asked = run.asked /\ run'.chunk = run.chunk
      /\ run'.entries = run.entries /\ run'.previous = run.previous /\ run'.since = run.since
      /\ run'.todo = run.todo
  <2>1. run \in RunSet
    BY DEF MirrorInv, MirrorTyped
  <2>2. CASE run' = [run EXCEPT !.tries[f] = @ + 1]
    <3> DEFINE x == [run.tries EXCEPT ![f] = @ + 1]
    <3>1. x \in [Files -> Nat]
      BY <2>1 DEF RunSet
    <3>2. run' = [run EXCEPT !.tries = x]
      BY <2>1, <2>2 DEF RunSet
    <3> HIDE DEF x
    <3> QED BY <2>1, <3>1, <3>2 DEF RunSet
  <2>3. CASE run' = [run EXCEPT !.failed = @ \cup {f}]
    BY <2>1, <2>3 DEF RunSet
  <2> QED BY <2>2, <2>3 DEF DownloadFails
<1>2. UNCHANGED <<upstream, disk, manifests>> /\ UNCHANGED published
  BY DEF DownloadFails, published
<1>3. PublishedTyped' /\ Honest' /\ RootList' = RootList
  BY <1>2, FilesStay
<1>4. MirrorTyped' /\ SourceAhead' /\ EntriesThere'
  BY <1>1, <1>2, <1>3 DEF MirrorInv, MirrorTyped, SourceAhead, EntriesThere
<1>5. MetaMade'
  BY <1>2 DEF MirrorInv, MetaMade, MetaFrom
<1>6. PreviousNew' /\ EntriesNew' /\ CoreDone' /\ ChunksDone' /\ ChartsThere' /\ RootWritten'
  BY <1>1, <1>2, <1>3
     DEF MirrorInv, PreviousNew, EntriesNew, CoreDone, ChunksDone, DoneBefore, ChartsThere, RootWritten
<1> QED BY <1>2, <1>3, <1>4, <1>5, <1>6 DEF MirrorInv

(* Where every download of the current chunk has an entry, one more chunk  *)
(* is done; the last one completes the downloads.                          *)
LEMMA ChunkDone ==
    ASSUME MirrorInv, Waiting = {}, run.failed = {},
           NEW jobs, jobs = Jobs, DOMAIN jobs = 1 .. Len(jobs), Len(jobs) \in Nat,
           \A i \in DOMAIN jobs : jobs[i] \in Files,
           DoneBefore(jobs)
    PROVE  /\ \A i \in DOMAIN jobs : (i - 1) \div Concurrency < run.chunk + 1 => run.entries[jobs[i]] # None
           /\ ~ ((run.chunk + 1) * Concurrency < Len(jobs)) =>
                 \A i \in DOMAIN jobs : run.entries[jobs[i]] # None
<1>1. run.chunk \in Nat /\ Concurrency \in Nat
  BY RunFields, MirrorAssumption DEF MirrorInv, MirrorTyped
<1>2. ASSUME NEW i \in DOMAIN jobs, (i - 1) \div Concurrency < run.chunk + 1
      PROVE  run.entries[jobs[i]] # None
  <2>1. (i - 1) \div Concurrency < run.chunk \/ (i - 1) \div Concurrency = run.chunk
    <3>1. i \in Nat \ {0}
      OBVIOUS
    <3> QED BY <1>1, <1>2, <3>1, Chunks
  <2>2. ASSUME (i - 1) \div Concurrency = run.chunk PROVE run.entries[jobs[i]] # None
    <3>1. jobs[i] \in ChunkJobs
      BY <2>2 DEF ChunkJobs
    <3> QED BY <3>1 DEF Waiting
  <2> QED BY <2>1, <2>2 DEF DoneBefore
<1>3. ASSUME ~ ((run.chunk + 1) * Concurrency < Len(jobs)), NEW i \in DOMAIN jobs
      PROVE  run.entries[jobs[i]] # None
  <2> DEFINE limit == (run.chunk + 1) * Concurrency
  <2>1. limit \in Nat
    BY <1>1
  <2>2. i \in Nat \ {0} /\ i <= Len(jobs)
    OBVIOUS
  <2> HIDE DEF limit
  <2>3. i <= limit
    BY <1>3, <2>1, <2>2 DEF limit
  <2>4. (i - 1) \div Concurrency < run.chunk + 1
    BY <1>1, <2>2, <2>3, Chunks DEF limit
  <2> QED BY <1>2, <2>4
<1> QED BY <1>2, <1>3

LEMMA EndChunkStep ==
    ASSUME MirrorInv, EndChunk
    PROVE  MirrorInv' /\ UNCHANGED published
<1>1. UNCHANGED <<upstream, disk, manifests>> /\ UNCHANGED published
  BY DEF EndChunk, published
<1>2. PublishedTyped' /\ Honest' /\ RootList' = RootList
  BY <1>1, FilesStay
<1>3. CASE run.failed # {}
  <2>1. run' = Idle
    BY <1>3 DEF EndChunk
  <2> QED BY <1>1, <1>2, <2>1, RunOver
<1>4. CASE run.failed = {}
  <2> DEFINE more == (run.chunk + 1) * Concurrency < Len(Jobs)
  <2>1. run \in RunSet /\ run.stage \in {"core", "details"} /\ Waiting = {}
    BY DEF MirrorInv, MirrorTyped, EndChunk
  <2>2. /\ run' \in RunSet
        /\ run'.asked = run.asked /\ run'.entries = run.entries /\ run'.previous = run.previous
        /\ run'.since = run.since /\ run'.todo = run.todo
        /\ more => run'.stage = run.stage /\ run'.chunk = run.chunk + 1
        /\ ~ more => /\ run'.chunk = 0
                     /\ run.stage = "core" => run'.stage = "repairs"
                     /\ run.stage = "details" => run'.stage = "meta"
    <3> HIDE DEF more
    <3>1. CASE more
      <4>1. run' = [run EXCEPT !.chunk = @ + 1]
        BY <1>4, <3>1 DEF EndChunk, more
      <4> QED BY <2>1, <3>1, <4>1 DEF RunSet
    <3>2. CASE ~ more
      <4>1. run' = [run EXCEPT !.stage = IF run.stage = "core" THEN "repairs" ELSE "meta", !.chunk = 0]
        BY <1>4, <3>2 DEF EndChunk, more
      <4> QED BY <2>1, <3>2, <4>1 DEF RunSet, Stages
    <3> QED BY <3>1, <3>2
  <2>3. ASSUME CoreDone', ChunksDone', ChartsThere', RootWritten' PROVE MirrorInv'
    <3>1. MirrorTyped' /\ SourceAhead' /\ EntriesThere'
      BY <1>1, <1>2, <2>2 DEF MirrorInv, MirrorTyped, SourceAhead, EntriesThere
    <3>2. MetaMade'
      BY <1>1 DEF MirrorInv, MetaMade, MetaFrom
    <3>3. PreviousNew' /\ EntriesNew'
      BY <1>2, <2>1, <2>2 DEF MirrorInv, PreviousNew, EntriesNew
    <3> QED BY <1>2, <2>3, <3>1, <3>2, <3>3 DEF MirrorInv
  <2>4. CASE run.stage = "core"
    <3>1. DoneBefore(Core) /\ Jobs = Core
      BY <2>4 DEF MirrorInv, ChunksDone, Jobs
    <3>2. /\ \A i \in DOMAIN Core : (i - 1) \div Concurrency < run.chunk + 1 => run.entries[Core[i]] # None
          /\ ~ more => \A i \in DOMAIN Core : run.entries[Core[i]] # None
      BY <1>4, <2>1, <3>1, ChunkDone, Sequences, FileSets
    <3> HIDE DEF more
    <3>3. CoreDone'
      <4>1. ~ more => \A f \in CoreSet : run.entries[f] # None
        BY <3>2, Sequences
      <4> QED BY <2>2, <2>4, <4>1 DEF CoreDone
    <3>4. ChunksDone'
      BY <2>2, <2>4, <3>2 DEF ChunksDone, DoneBefore
    <3>5. ChartsThere' /\ RootWritten'
      BY <2>2, <2>4 DEF ChartsThere, RootWritten
    <3> QED BY <1>1, <3>3, <3>4, <3>5, <2>3
  <2>5. CASE run.stage = "details"
    <3>1. run.asked \in {<<>>, Details}
      BY <2>1, RunFields
    <3>2. run.asked # <<>> => /\ \A i \in DOMAIN Details :
                                    (i - 1) \div Concurrency < run.chunk + 1 => run.entries[Details[i]] # None
                              /\ ~ more => \A i \in DOMAIN Details : run.entries[Details[i]] # None
      <4> SUFFICES ASSUME run.asked # <<>>
                   PROVE  /\ \A i \in DOMAIN Details :
                                (i - 1) \div Concurrency < run.chunk + 1 => run.entries[Details[i]] # None
                          /\ ~ more => \A i \in DOMAIN Details : run.entries[Details[i]] # None
        OBVIOUS
      <4>1. DoneBefore(Details) /\ Jobs = Details
        BY <2>5, <3>1 DEF MirrorInv, ChunksDone, Jobs
      <4> QED BY <1>4, <2>1, <4>1, ChunkDone, Sequences, FileSets
    <3> HIDE DEF more
    <3>3. CoreDone'
      BY <1>2, <2>2, <2>5 DEF MirrorInv, CoreDone
    <3>4. ChunksDone'
      BY <2>2, <2>5, <3>2 DEF ChunksDone, DoneBefore
    <3>5. ChartsThere'
      <4> SUFFICES ASSUME run'.stage = "meta", run.asked # <<>>, NEW c \in Charts PROVE disk[c] # None
        BY <1>1, <2>2 DEF ChartsThere
      <4>1. ~ more
        BY <2>2, <2>5
      <4>2. run.entries[c] # None
        BY <3>2, <4>1, Sequences, FileSets
      <4>3. Reaches(disk[c], run.entries[c])
        BY FileSets DEF MirrorInv, EntriesThere
      <4> QED BY <4>2, <4>3 DEF Reaches
    <3>6. RootWritten'
      BY <2>2, <2>5 DEF RootWritten
    <3> QED BY <1>1, <3>3, <3>4, <3>5, <3>6, <2>3
  <2> QED BY <2>1, <2>4, <2>5
<1> QED BY <1>1, <1>3, <1>4

LEMMA KillRunStep ==
    ASSUME MirrorInv, KillRun
    PROVE  MirrorInv' /\ UNCHANGED published
BY FilesStay, RunOver DEF KillRun, published

LEMMA ReleaseStep ==
    ASSUME MirrorInv, NEW f \in SourceFiles, Release(f)
    PROVE  MirrorInv' /\ UNCHANGED published
<1>1. UNCHANGED <<disk, manifests, run>> /\ UNCHANGED published
  BY DEF Release, published
<1>2. PublishedTyped' /\ Honest' /\ RootList' = RootList
  BY <1>1, FilesStay
<1>3. /\ upstream \in [SourceFiles -> Nat] /\ upstream' \in [SourceFiles -> Nat]
      /\ \A g \in SourceFiles : upstream'[g] >= upstream[g]
  BY DEF MirrorInv, MirrorTyped, Release
<1>4. MirrorTyped'
  BY <1>1, <1>2, <1>3 DEF MirrorInv, MirrorTyped
<1>5. SourceAhead'
  <2>1. \A g \in SourceFiles : /\ upstream[g] \in Version /\ upstream'[g] \in Version
                               /\ Reaches(upstream'[g], upstream[g])
    BY <1>3, FileSets DEF Version, Reaches
  <2>2. \A g \in SourceFiles : disk[g] \in Version
    BY FileSets, ContentsAt DEF MirrorInv, MirrorTyped, PublishedTyped
  <2>3. \A g \in CoreSet : run.since[g] \in Version
    BY FileSets, RunFields DEF MirrorInv, MirrorTyped
  <2>4. \A g \in SourceFiles : Reaches(upstream'[g], disk[g])
    BY <2>1, <2>2, ReachesOn DEF MirrorInv, SourceAhead
  <2>5. \A g \in CoreSet : Reaches(upstream'[g], run.since[g])
    BY <2>1, <2>3, ReachesOn, FileSets DEF MirrorInv, SourceAhead
  <2> QED BY <1>1, <2>4, <2>5 DEF SourceAhead
<1>6. MetaMade'
  BY <1>1 DEF MirrorInv, MetaMade, MetaFrom
<1>7. EntriesThere' /\ PreviousNew' /\ EntriesNew' /\ CoreDone' /\ ChunksDone' /\ ChartsThere' /\ RootWritten'
  BY <1>1, <1>2
     DEF MirrorInv, EntriesThere, PreviousNew, EntriesNew, CoreDone, ChunksDone, DoneBefore,
         ChartsThere, RootWritten
<1> QED BY <1>1, <1>2, <1>4, <1>5, <1>6, <1>7 DEF MirrorInv

LEMMA CopyRepairsStep ==
    ASSUME MirrorInv, CopyRepairs
    PROVE  MirrorInv' /\ PutFiles
<1>1. /\ run \in RunSet /\ run.stage = "repairs" /\ disk \in Contents
      /\ upstream \in [SourceFiles -> Nat] /\ UNCHANGED <<upstream, manifests>>
  BY DEF MirrorInv, MirrorTyped, PublishedTyped, CopyRepairs
<1>2. /\ disk' \in Contents
      /\ \A f \in RepairSet : disk'[f] = upstream[f]
      /\ \A f \in Files \ RepairSet : disk'[f] = disk[f]
  <2>1. disk' = [f \in Files |-> IF f \in RepairSet THEN upstream[f] ELSE disk[f]]
    BY DEF CopyRepairs
  <2>2. \A f \in RepairSet : f \in Files /\ upstream[f] \in Nat
    BY <1>1, FileSets
  <2> QED BY <1>1, <2>1, <2>2 DEF Contents
<1>3. /\ run' \in RunSet /\ run'.stage = "details" /\ run'.asked = run.asked /\ run'.chunk = run.chunk
      /\ run'.previous = run.previous /\ run'.since = run.since
      /\ \A f \in RepairSet : run'.entries[f] = upstream[f]
      /\ \A f \in Files \ RepairSet : run'.entries[f] = run.entries[f]
  <2> DEFINE x == [f \in Files |-> IF f \in RepairSet THEN upstream[f] ELSE run.entries[f]]
  <2>1. run' = [run EXCEPT !.stage = "details", !.entries = x]
    BY <1>1 DEF CopyRepairs, RunSet
  <2>2. x \in Contents
    <3>1. \A f \in RepairSet : upstream[f] \in Nat
      BY <1>1, FileSets
    <3> QED BY <1>1, <3>1, RunFields DEF Contents, Version
  <2>3. /\ \A f \in RepairSet : x[f] = upstream[f]
        /\ \A f \in Files \ RepairSet : x[f] = run.entries[f]
    BY FileSets
  <2> HIDE DEF x
  <2>4. run' \in RunSet /\ run'.entries = x
    BY <1>1, <2>1, <2>2 DEF RunSet, Stages
  <2>5. /\ run'.stage = "details" /\ run'.asked = run.asked /\ run'.chunk = run.chunk
        /\ run'.previous = run.previous /\ run'.since = run.since
    BY <1>1, <2>1 DEF RunSet
  <2> QED BY <2>3, <2>4, <2>5
<1>4. \A f \in RepairSet : Reaches(upstream[f], disk[f]) /\ Reaches(upstream[f], upstream[f])
  <2>1. \A f \in RepairSet : f \in SourceFiles /\ upstream[f] \in Version
    BY <1>1, FileSets DEF Version
  <2> QED BY <2>1, ReachesSelf DEF MirrorInv, SourceAhead
<1>5. \A f \in Files : Reaches(disk'[f], disk[f])
  BY <1>1, <1>2, <1>4, ContentsAt, ReachesSelf
<1>6. /\ PublishedTyped' /\ Honest' /\ PutFiles /\ RootList' = RootList
      /\ \A g \in Files : Reaches(disk'[g], run.entries[g]) /\ Reaches(disk'[g], run.previous[g])
  BY <1>1, <1>2, <1>5, FilesGrow
<1>7. MirrorTyped'
  BY <1>1, <1>3, <1>6 DEF MirrorTyped
<1>8. SourceAhead'
  <2>1. \A f \in SourceFiles : Reaches(upstream[f], disk'[f])
    BY <1>2, <1>4, FileSets DEF MirrorInv, SourceAhead
  <2> QED BY <1>1, <1>3, <2>1 DEF MirrorInv, SourceAhead
<1>9. MetaMade'
  <2> SUFFICES ASSUME disk'[Meta] # None
               PROVE  disk'[Meta] = MetaFrom(disk') /\ \A c \in Charts : disk'[c] # None
    BY DEF MetaMade
  <2>1. disk'[Meta] = disk[Meta] /\ \A c \in Charts : disk'[c] = disk[c]
    BY <1>2, FileSets
  <2>2. disk[Meta] = MetaFrom(disk) /\ \A c \in Charts : disk[c] # None
    BY <2>1 DEF MirrorInv, MetaMade
  <2> QED BY <2>1, <2>2, MetaSame
<1>10. EntriesThere'
  BY <1>2, <1>3, <1>4, <1>6, FileSets DEF EntriesThere
<1>11. EntriesNew' /\ CoreDone'
  <2>1. \A f \in CoreSet : run'.entries[f] = run.entries[f]
    BY <1>3, FileSets
  <2> QED BY <1>1, <1>3, <1>6, <2>1 DEF MirrorInv, EntriesNew, CoreDone
<1>12. ChunksDone'
  <2>1. run'.chunk = 0
    BY <1>1, <1>3 DEF MirrorInv, ChunksDone
  <2>2. \A i \in DOMAIN Details : ~ ((i - 1) \div Concurrency < 0)
    <3> SUFFICES ASSUME NEW i \in DOMAIN Details PROVE ~ ((i - 1) \div Concurrency < 0)
      OBVIOUS
    <3>1. i \in Nat \ {0}
      BY Sequences
    <3> DEFINE k == (i - 1) \div Concurrency
    <3>2. k \in Nat
      BY <3>1, Chunks, 0 \in Nat
    <3> HIDE DEF k
    <3>3. ~ (k < 0)
      BY <3>2
    <3> QED BY <3>3 DEF k
  <2> QED BY <1>3, <2>1, <2>2 DEF ChunksDone, DoneBefore
<1>13. PreviousNew' /\ ChartsThere' /\ RootWritten'
  BY <1>3 DEF PreviousNew, ChartsThere, RootWritten
<1> QED BY <1>6, <1>7, <1>8, <1>9, <1>10, <1>11, <1>12, <1>13 DEF MirrorInv

LEMMA MakeMetaStep ==
    ASSUME MirrorInv, MakeMeta
    PROVE  MirrorInv' /\ (PutFiles \/ UNCHANGED published)
<1>1. /\ run \in RunSet /\ run.stage = "meta" /\ disk \in Contents
      /\ upstream \in [SourceFiles -> Nat] /\ UNCHANGED <<upstream, manifests>>
  BY DEF MirrorInv, MirrorTyped, PublishedTyped, MakeMeta
<1>2. /\ disk' \in Contents
      /\ \A f \in SourceFiles : disk'[f] = disk[f]
      /\ Reaches(disk'[Meta], disk[Meta])
      /\ disk' = disk \/ (disk'[Meta] = MetaFrom(disk) /\ \A c \in Charts : disk[c] # None)
  <2>1. CASE run.asked # <<>>
    <3>1. \A c \in Charts : disk[c] # None
      BY <1>1, <2>1 DEF MirrorInv, ChartsThere
    <3>2. MetaFrom(disk) \in Version
      BY <1>1, <3>1, MetaTyped DEF Version
    <3>3. disk' = With(disk, Meta, MetaFrom(disk))
      BY <2>1 DEF MakeMeta, With
    <3>4. /\ disk' \in Contents /\ disk'[Meta] = MetaFrom(disk)
          /\ \A g \in Files \ {Meta} : disk'[g] = disk[g]
      BY <1>1, <3>2, <3>3, ContentsExcept, FileSets
    <3>5. Reaches(disk'[Meta], disk[Meta])
      BY <3>2, <3>4, ReachesSelf, ReachesNone DEF MirrorInv, MetaMade
    <3> QED BY <3>1, <3>4, <3>5, FileSets
  <2>2. CASE run.asked = <<>>
    <3>1. disk' = disk
      BY <2>2 DEF MakeMeta
    <3> QED BY <1>1, <3>1, ContentsAt, ReachesSelf, FileSets
  <2> QED BY <2>1, <2>2
<1>3. disk'[Meta] \in Version
  BY <1>2, ContentsAt, FileSets
<1>4. /\ run' \in RunSet /\ run'.stage = "manifests" /\ run'.todo = 1
      /\ run'.previous = run.previous /\ run'.since = run.since
      /\ run'.entries[Meta] = disk'[Meta]
      /\ \A f \in Files \ {Meta} : run'.entries[f] = run.entries[f]
  <2> DEFINE x == With(run.entries, Meta, disk'[Meta])
  <2>1. /\ x \in Contents /\ x[Meta] = disk'[Meta]
        /\ \A f \in Files \ {Meta} : x[f] = run.entries[f]
    <3>1. run.entries \in Contents
      BY <1>1, RunFields
    <3> QED BY <1>3, <3>1, ContentsExcept, FileSets
  <2>2. run' = [run EXCEPT !.stage = "manifests", !.entries = x, !.todo = 1]
    BY <1>1 DEF MakeMeta, With, RunSet
  <2> HIDE DEF x
  <2>3. run' \in RunSet /\ run'.entries = x
    BY <1>1, <2>1, <2>2 DEF RunSet, Stages
  <2>4. /\ run'.stage = "manifests" /\ run'.todo = 1
        /\ run'.previous = run.previous /\ run'.since = run.since
    BY <1>1, <2>2 DEF RunSet
  <2> QED BY <2>1, <2>3, <2>4
<1>5. \A f \in Files : Reaches(disk'[f], disk[f])
  BY <1>1, <1>2, ContentsAt, ReachesSelf DEF Files
<1>6. /\ PublishedTyped' /\ Honest' /\ PutFiles /\ RootList' = RootList
      /\ \A g \in Files : Reaches(disk'[g], run.entries[g]) /\ Reaches(disk'[g], run.previous[g])
  BY <1>1, <1>2, <1>5, FilesGrow
<1>7. MirrorTyped'
  BY <1>1, <1>4, <1>6 DEF MirrorTyped
<1>8. SourceAhead'
  BY <1>1, <1>2, <1>4 DEF MirrorInv, SourceAhead
<1>9. MetaMade'
  <2> SUFFICES ASSUME disk'[Meta] # None
               PROVE  disk'[Meta] = MetaFrom(disk') /\ \A c \in Charts : disk'[c] # None
    BY DEF MetaMade
  <2>1. \A c \in Charts : disk'[c] = disk[c]
    BY <1>2, FileSets
  <2>2. MetaFrom(disk') = MetaFrom(disk)
    BY <2>1, MetaSame
  <2>3. disk'[Meta] = MetaFrom(disk) /\ \A c \in Charts : disk[c] # None
    BY <1>2 DEF MirrorInv, MetaMade
  <2> QED BY <2>1, <2>2, <2>3
<1>10. EntriesThere'
  <2>1. Reaches(disk'[Meta], disk'[Meta])
    BY <1>3, ReachesSelf
  <2> QED BY <1>4, <1>6, <2>1 DEF EntriesThere
<1>11. EntriesNew' /\ CoreDone'
  <2>1. \A f \in CoreSet : run'.entries[f] = run.entries[f]
    BY <1>4, FileSets
  <2> QED BY <1>1, <1>4, <1>6, <2>1 DEF MirrorInv, EntriesNew, CoreDone
<1>12. PreviousNew' /\ ChunksDone' /\ ChartsThere' /\ RootWritten'
  BY <1>4 DEF PreviousNew, ChunksDone, ChartsThere, RootWritten
<1> QED BY <1>6, <1>7, <1>8, <1>9, <1>10, <1>11, <1>12 DEF MirrorInv

(* What a run lists in the root: the entries of the main files. *)
LEMMA ListedInRoot == \A f \in CoreSet : f \in ListedIn(Root) <=> run.entries[f] # None
BY FileSets DEF ListedIn

LEMMA RootKept ==
    ASSUME MirrorInv, run.stage = "manifests", NEW f \in CoreSet
    PROVE  Reaches(run.entries[f], RootList[f])
<1>1. RootList[f] \in Version
  BY ListingTyped, FileSets, Sequences DEF MirrorInv, MirrorTyped, PublishedTyped, RootList
<1> QED BY <1>1, ReachesNone DEF MirrorInv, EntriesNew, CoreDone

LEMMA WriteManifestStep ==
    ASSUME MirrorInv, WriteManifest
    PROVE  MirrorInv' /\ (List \/ UNCHANGED published)
<1> DEFINE d == Dirs[run.todo]
           written == [f \in Files |-> IF f \in ListedIn(d) THEN run.entries[f] ELSE None]
<1>1. /\ run \in RunSet /\ run.stage = "manifests" /\ run.todo \in Nat \ {0} /\ d \in DirSet
      /\ disk \in Contents /\ manifests \in [DirSet -> Contents \cup {None}]
      /\ UNCHANGED <<upstream, disk>>
  BY Sequences DEF MirrorInv, MirrorTyped, PublishedTyped, WriteManifest
<1>2. /\ run' \in RunSet /\ run'.stage = "manifests" /\ run'.todo = run.todo + 1
      /\ run'.entries = run.entries /\ run'.previous = run.previous /\ run'.since = run.since
  <2>1. run' = [run EXCEPT !.todo = @ + 1]
    BY DEF WriteManifest
  <2> QED BY <1>1, <2>1 DEF RunSet
<1>3. written \in Contents /\ \A f \in Files : Reaches(disk[f], written[f])
  BY <1>1, RunFields, ReachesNone DEF Contents, Version, MirrorInv, EntriesThere
<1>4. \A f \in CoreSet : d = Root => written[f] = run.entries[f]
  BY ListedInRoot, FileSets
<1>5. /\ manifests' = manifests \/ manifests' = [manifests EXCEPT ![d] = written]
      /\ d = Root => manifests' = [manifests EXCEPT ![d] = written]
  BY DEF WriteManifest
<1> HIDE DEF written, d
<1>6. /\ manifests' \in [DirSet -> Contents \cup {None}]
      /\ \A e \in DirSet : manifests'[e] = manifests[e] \/ manifests'[e] = written
      /\ d = Root => manifests'[Root] = written
      /\ d # Root => manifests'[Root] = manifests[Root]
  BY <1>1, <1>3, <1>5, Sequences
<1>7. PublishedTyped'
  BY <1>1, <1>6 DEF PublishedTyped
<1>8. Honest'
  <2> SUFFICES ASSUME NEW e \in DirSet, NEW f \in Files
               PROVE  Reaches(disk[f], Listing(manifests'[e])[f])
    BY <1>1 DEF Honest
  <2>1. CASE manifests'[e] = manifests[e]
    BY <2>1 DEF MirrorInv, Honest
  <2>2. CASE manifests'[e] = written
    BY <1>3, <2>2, ListingTyped
  <2> QED BY <1>6, <2>1, <2>2
<1>9. /\ \A f \in CoreSet : Reaches(RootList'[f], RootList[f])
      /\ \A f \in CoreSet : RootList'[f] = RootList[f] \/ RootList'[f] = run.entries[f]
  <2>1. CASE d = Root
    <3>1. RootList' = written
      BY <1>3, <1>6, <2>1, ListingTyped DEF RootList
    <3> QED BY <1>1, <1>4, <2>1, <3>1, RootKept
  <2>2. CASE d # Root
    <3>1. RootList' = RootList
      BY <1>6, <2>2 DEF RootList
    <3>2. \A f \in CoreSet : RootList[f] \in Version
      BY <1>1, ListingTyped, FileSets, Sequences DEF RootList
    <3> QED BY <3>1, <3>2, ReachesSelf
  <2> QED BY <2>1, <2>2
<1>10. List
  BY <1>1, <1>6, <1>8, <1>9 DEF List, Honest, RootList
<1>11. MirrorTyped' /\ SourceAhead' /\ EntriesThere'
  BY <1>1, <1>2, <1>7 DEF MirrorInv, MirrorTyped, SourceAhead, EntriesThere
<1>12. MetaMade'
  BY <1>1 DEF MirrorInv, MetaMade, MetaFrom
<1>13. EntriesNew'
  <2> SUFFICES ASSUME NEW f \in CoreSet, run.entries[f] # None
               PROVE  Reaches(run.entries[f], RootList'[f]) /\ Reaches(run.entries[f], run.since[f])
    BY <1>2 DEF EntriesNew
  <2>1. Reaches(run.entries[f], RootList[f]) /\ Reaches(run.entries[f], run.since[f])
    BY DEF MirrorInv, EntriesNew
  <2>2. Reaches(run.entries[f], run.entries[f])
    BY <1>1, RunFields, FileSets, ReachesSelf
  <2> QED BY <1>9, <2>1, <2>2
<1>14. CoreDone'
  <2> SUFFICES ASSUME NEW f \in CoreSet, run.entries[f] = None
               PROVE  run.since[f] = None /\ RootList'[f] = None
    BY <1>2 DEF CoreDone
  <2>1. run.since[f] = None /\ RootList[f] = None
    BY <1>1 DEF MirrorInv, CoreDone
  <2> QED BY <1>9, <2>1
<1>15. RootWritten'
  <2>1. CASE d = Root
    BY <1>2, <1>3, <1>4, <1>6, <2>1 DEF RootWritten
  <2>2. CASE d # Root
    <3>1. run.todo > 1
      BY <1>1, <2>2, Sequences DEF d
    <3> QED BY <1>1, <1>2, <1>6, <2>2, <3>1 DEF MirrorInv, RootWritten
  <2> QED BY <2>1, <2>2
<1>16. PreviousNew' /\ ChunksDone' /\ ChartsThere'
  BY <1>2 DEF PreviousNew, ChunksDone, ChartsThere
<1> QED BY <1>8, <1>10, <1>11, <1>12, <1>13, <1>14, <1>15, <1>16 DEF MirrorInv

LEMMA RemoveStaleStep ==
    ASSUME MirrorInv, RemoveStale
    PROVE  MirrorInv' /\ (List \/ UNCHANGED published)
<1>1. /\ disk \in Contents /\ manifests \in [DirSet -> Contents \cup {None}]
      /\ UNCHANGED <<upstream, disk>> /\ run' = Idle
  BY DEF MirrorInv, MirrorTyped, PublishedTyped, RemoveStale
<1>2. /\ manifests' \in [DirSet -> Contents \cup {None}]
      /\ \A e \in DirSet : manifests'[e] = manifests[e] \/ manifests'[e] = None
      /\ manifests'[Root] = manifests[Root]
  <2>1. manifests' = [e \in DirSet |-> IF ListedIn(e) = {} /\ e # Root THEN None ELSE manifests[e]]
    BY DEF RemoveStale
  <2> QED BY <1>1, <2>1, Sequences
<1>3. PublishedTyped'
  BY <1>1, <1>2 DEF PublishedTyped
<1>4. Honest'
  <2> SUFFICES ASSUME NEW e \in DirSet, NEW f \in Files
               PROVE  Reaches(disk[f], Listing(manifests'[e])[f])
    BY <1>1 DEF Honest
  <2>1. CASE manifests'[e] = manifests[e]
    BY <2>1 DEF MirrorInv, Honest
  <2>2. CASE manifests'[e] = None
    BY <2>2, NoFilesTyped, ReachesNone DEF Listing
  <2> QED BY <1>2, <2>1, <2>2
<1>5. List
  <2>1. \A f \in CoreSet : Reaches(Listing(manifests'[Root])[f], Listing(manifests[Root])[f])
    <3>1. \A f \in CoreSet : Listing(manifests[Root])[f] \in Version
      BY <1>1, ListingTyped, FileSets, Sequences
    <3> QED BY <1>2, <3>1, ReachesSelf
  <2> QED BY <1>1, <1>2, <1>4, <2>1 DEF List, Honest
<1> QED BY <1>1, <1>3, <1>4, <1>5, RunOver

LEMMA MirrorStep ==
    ASSUME MirrorInv, MirrorNext
    PROVE  MirrorInv' /\ (PutFiles \/ List \/ UNCHANGED published)
BY StartRunStep, StartMetaRunStep, DownloadStep, DownloadFailsStep, EndChunkStep, CopyRepairsStep,
   MakeMetaStep, WriteManifestStep, RemoveStaleStep, KillRunStep, ReleaseStep
   DEF MirrorNext, RunStep

LEMMA MirrorStutters ==
    ASSUME MirrorInv, UNCHANGED mirrorVars
    PROVE  MirrorInv' /\ UNCHANGED published
<1>1. UNCHANGED <<upstream, disk, manifests, run>> /\ UNCHANGED published
  BY DEF mirrorVars, published
<1>2. PublishedTyped' /\ Honest' /\ RootList' = RootList
  BY <1>1, FilesStay
<1>3. MirrorTyped' /\ SourceAhead' /\ EntriesThere'
  BY <1>1, <1>2 DEF MirrorInv, MirrorTyped, SourceAhead, EntriesThere
<1>4. MetaMade'
  BY <1>1 DEF MirrorInv, MetaMade, MetaFrom
<1>5. PreviousNew' /\ EntriesNew' /\ CoreDone' /\ ChunksDone' /\ ChartsThere' /\ RootWritten'
  BY <1>1, <1>2
     DEF MirrorInv, PreviousNew, EntriesNew, CoreDone, ChunksDone, DoneBefore, ChartsThere, RootWritten
<1> QED BY <1>1, <1>2, <1>3, <1>4, <1>5 DEF MirrorInv

LEMMA MirrorStarts ==
    ASSUME InitPublished, run = Idle, upstream = [f \in SourceFiles |-> 1]
    PROVE  MirrorInv
<1>1. Idle \in RunSet /\ Idle.stage = "idle"
      /\ \A f \in Files : Idle.entries[f] = None /\ Idle.previous[f] = None /\ Idle.since[f] = None
  BY IdleTyped, NoFilesTyped
<1>2. /\ disk = NoFiles /\ manifests \in [DirSet -> Contents \cup {None}]
      /\ \A d \in DirSet : manifests[d] = None
  BY DEF InitPublished
<1>3. MirrorTyped
  BY <1>1, <1>2, NoFilesTyped DEF MirrorTyped, PublishedTyped
<1>4. Honest
  BY <1>2, NoFilesTyped, ReachesNone DEF Honest, Listing
<1>5. SourceAhead /\ EntriesThere
  BY <1>1, <1>2, NoFilesTyped, FileSets, ReachesNone DEF SourceAhead, EntriesThere
<1>6. MetaMade
  BY <1>2, NoFilesTyped, FileSets DEF MetaMade
<1>7. PreviousNew /\ EntriesNew /\ CoreDone /\ ChunksDone /\ ChartsThere /\ RootWritten
  BY <1>1, FileSets DEF PreviousNew, EntriesNew, CoreDone, ChunksDone, ChartsThere, RootWritten
<1> QED BY <1>3, <1>4, <1>5, <1>6, <1>7 DEF MirrorInv

LEMMA Publishes == ASSUME MirrorInv PROVE RunPublishes
<1> SUFFICES ASSUME NEW f \in CoreSet, run.stage = "manifests", run.todo > 1, run.since[f] # None
             PROVE  manifests[Root][f] # None /\ manifests[Root][f] >= run.since[f]
  BY DEF RunPublishes
<1>1. manifests[Root][f] = run.entries[f]
  BY DEF MirrorInv, RootWritten
<1>2. run.entries[f] # None
  BY DEF MirrorInv, CoreDone
<1>3. Reaches(run.entries[f], run.since[f])
  BY <1>2 DEF MirrorInv, EntriesNew
<1> QED BY <1>1, <1>2, <1>3 DEF Reaches

-----------------------------------------------------------------------------
(* The mirror keeps what PublishedData promises, in every step of a run and *)
(* also when it is killed: what a manifest lists is there, and the root     *)
(* lists no older version than before (write_split_manifests).              *)
THEOREM MirrorImplements == MirrorSpec => ImplementsPublished
<1>1. InitMirror => MirrorInv /\ InitPublished
  BY MirrorStarts DEF InitMirror
<1>2. MirrorInv /\ [MirrorNext]_mirrorVars => MirrorInv' /\ [PutFiles \/ List]_published
  BY MirrorStep, MirrorStutters
<1> QED BY <1>1, <1>2, PTL DEF MirrorSpec, ImplementsPublished, PublishedSpec

-----------------------------------------------------------------------------
(* The pages: their state, and what a call that asks for the main files    *)
(* knows.                                                                  *)

PageStages ==
    {"idle", "clear", "cleared", "root", "join", "core", "files", "page", "worker",
     "done", "failed", "gone"}

CallSet ==
    [kind : Kinds \cup {None}, wanted : SUBSET Files, stage : PageStages,
     root : Calls \cup {None}, step : Nat, due : Contents, faults : Nat]

PromiseSet == [state : {"pending", "listed", "broken"}, files : Contents]

TaskSet ==
    [at : {"manifest", "fetch", "put", "ok", "bad"}, owner : Calls \cup {None},
     label : Version, version : Version]

(* A record reaches its label. *)
Records == {r \in [version : Version, label : Version] : Reaches(r.version, r.label)}

PageTyped ==
    /\ PublishedTyped
    /\ store \in [Files -> Records \cup {None}]
    /\ current \in [DirSet -> Calls \cup {None}]
    /\ promised \in [Calls -> [DirSet -> PromiseSet \cup {None}]]
    /\ tasks \in [Calls -> [Files -> TaskSet \cup {None}]]
    /\ calls \in [Calls -> CallSet]
    /\ coreLoad \in Calls \cup {None}
    /\ faults \in Nat

(* A promise lists nothing that is not there. *)
GoodPromise(p) == p \in PromiseSet /\ \A f \in Files : Reaches(disk[f], p.files[f])

(* The manifest a task waits for was asked for; what it fetches is there,   *)
(* and what it stores reaches its label.                                   *)
GoodTask(t, f) ==
    /\ t \in TaskSet
    /\ t.at = "manifest" => t.owner \in Calls /\ GoodPromise(promised[t.owner][DirOf[f]])
    /\ t.at \in {"fetch", "put"} => Reaches(disk[f], t.label)
    /\ t.at = "put" => Reaches(t.version, t.label)

CoreThere == \A f \in CoreSet : disk[f] # None

PromisesGood ==
    \A c \in Calls, d \in DirSet : promised[c][d] = None \/ GoodPromise(promised[c][d])

CurrentGood == \A d \in DirSet : current[d] # None => GoodPromise(promised[current[d]][d])

TasksGood == \A c \in Calls, f \in Files : tasks[c][f] = None \/ GoodTask(tasks[c][f], f)

SharedInv == PageTyped /\ Honest /\ CoreThere /\ PromisesGood /\ CurrentGood /\ TasksGood

(* Nothing is asked for before the manifest of the root is known, and only  *)
(* main files and corrections until all of them are there.                 *)
NothingElse(c) ==
    /\ calls[c].stage \in {"idle", "clear", "cleared", "root", "join"} =>
          \A f \in Files : tasks[c][f] = None
    /\ At(c, "core") => \A f \in Files \ (CoreSet \cup RepairSet) : tasks[c][f] = None

(* A call that asked for the manifest again waits for its own request, and  *)
(* nothing is due for the others.                                          *)
Rooted(c) ==
    calls[c].stage \in {"root", "core"} =>
        /\ calls[c].root \in Calls /\ GoodPromise(promised[calls[c].root][Root])
        /\ calls[c].kind \in Refreshing => calls[c].root = c
        /\ calls[c].kind \notin Refreshing => calls[c].due = NoFiles
        /\ calls[c].faults <= faults

(* What is due is listed, now and by the manifest the call got; if it did   *)
(* not get it, a request failed since.                                     *)
DueListed(c) ==
    calls[c].stage \in {"root", "core"} =>
        /\ \A f \in CoreSet : Reaches(RootList[f], calls[c].due[f])
        /\ calls[c].kind \in Refreshing =>
              /\ promised[c][Root].state = "listed" =>
                    \A f \in CoreSet : Reaches(promised[c][Root].files[f], calls[c].due[f])
              /\ promised[c][Root].state = "broken" => faults > calls[c].faults
              /\ At(c, "core") => promised[c][Root].state = "listed"

(* A file that was asked for comes in the version that is due, or fails for *)
(* a request that failed since.                                            *)
AskedTask(c, f) ==
    /\ GoodTask(tasks[c][f], f) /\ tasks[c][f].at # "manifest"
    /\ tasks[c][f].at = "bad" => faults > calls[c].faults
    /\ f \in CoreSet =>
          /\ tasks[c][f].at \in {"fetch", "put"} => Reaches(tasks[c][f].label, calls[c].due[f])
          /\ tasks[c][f].at = "ok" => Reaches(tasks[c][f].version, calls[c].due[f])

(* The main files were asked for one after the other. *)
CoreAsked(c) ==
    At(c, "core") =>
        /\ calls[c].step \in 1 .. Len(Order)
        /\ \A j \in 1 .. calls[c].step : j <= Len(Core) \/ j = calls[c].step =>
              /\ AskedTask(c, Order[j])
              /\ Order[j] = Order[calls[c].step] \/ tasks[c][Order[j]].at = "ok"

CallInv(c) == NothingElse(c) /\ Rooted(c) /\ DueListed(c) /\ CoreAsked(c)

PageInv == SharedInv /\ \A c \in Calls : CallInv(c)

-----------------------------------------------------------------------------
(* What stays as others act.                                               *)

LEMMA Ordered ==
    /\ Order \in Seq(Files) /\ Len(Order) \in Nat /\ Len(Order) = Len(Core) + Len(Repairs)
    /\ \A j \in 1 .. Len(Order) : Order[j] \in CoreSet \cup RepairSet /\ Order[j] \in Files
    /\ \A j \in 1 .. Len(Core) : Order[j] = Core[j] /\ Order[j] \in CoreSet
<1>1. /\ Core \in Seq(CoreSet) /\ Repairs \in Seq(RepairSet) /\ DOMAIN Core = 1 .. Len(Core)
      /\ Len(Core) \in Nat /\ Len(Repairs) \in Nat
  BY Sequences
<1>2. Core \in Seq(CoreSet \cup RepairSet) /\ Repairs \in Seq(CoreSet \cup RepairSet)
  BY <1>1
<1>3. Order \in Seq(CoreSet \cup RepairSet) /\ Len(Order) = Len(Core) + Len(Repairs)
  BY <1>2 DEF Order
<1>4. \A j \in 1 .. Len(Core) : Order[j] = Core[j] /\ Core[j] \in CoreSet
  BY <1>1 DEF Order
<1>5. \A j \in 1 .. Len(Order) : Order[j] \in CoreSet \cup RepairSet
  BY <1>3
<1>6. Order \in Seq(Files)
  BY <1>3, FileSets
<1> QED BY <1>1, <1>3, <1>4, <1>5, <1>6, FileSets

(* Files get newer, the root lists no older ones, failures are counted, and *)
(* good promises stay good.                                                *)
Moves ==
    /\ disk' \in Contents /\ \A f \in Files : Reaches(disk'[f], disk[f])
    /\ \A f \in CoreSet : RootList'[f] \in Version /\ Reaches(RootList'[f], RootList[f])
    /\ faults' \in Nat /\ faults' >= faults
    /\ \A c \in Calls, d \in DirSet : GoodPromise(promised[c][d]) => GoodPromise(promised[c][d])'

LEMMA DiskOn ==
    ASSUME disk \in Contents, disk' \in Contents, NEW f \in Files, Reaches(disk'[f], disk[f]),
           NEW v \in Version, Reaches(disk[f], v)
    PROVE  Reaches(disk'[f], v)
BY ContentsAt, ReachesOn

LEMMA PromiseStays ==
    ASSUME disk \in Contents, disk' \in Contents, \A f \in Files : Reaches(disk'[f], disk[f]),
           NEW c, NEW d, promised'[c][d] = promised[c][d], GoodPromise(promised[c][d])
    PROVE  GoodPromise(promised[c][d])'
<1>1. promised[c][d] \in PromiseSet /\ \A f \in Files : Reaches(disk[f], promised[c][d].files[f])
  BY DEF GoodPromise
<1>2. \A f \in Files : promised[c][d].files[f] \in Version
  <2>1. promised[c][d].files \in Contents
    BY <1>1 DEF PromiseSet
  <2> QED BY <2>1, ContentsAt
<1>3. \A f \in Files : Reaches(disk'[f], promised[c][d].files[f])
  BY <1>1, <1>2, DiskOn
<1> QED BY <1>1, <1>3 DEF GoodPromise

LEMMA TaskStays ==
    ASSUME SharedInv, Moves, NEW c \in Calls, NEW f \in Files, tasks'[c][f] = tasks[c][f],
           GoodTask(tasks[c][f], f)
    PROVE  GoodTask(tasks[c][f], f)'
<1> DEFINE t == tasks[c][f]
<1>1. /\ disk \in Contents /\ disk' \in Contents /\ Reaches(disk'[f], disk[f])
      /\ \A o \in Calls : GoodPromise(promised[o][DirOf[f]]) => GoodPromise(promised[o][DirOf[f]])'
  BY FilesAssumption DEF SharedInv, PageTyped, PublishedTyped, Moves
<1>2. /\ t \in TaskSet
      /\ t.at = "manifest" => t.owner \in Calls /\ GoodPromise(promised[t.owner][DirOf[f]])
      /\ t.at \in {"fetch", "put"} => Reaches(disk[f], t.label)
      /\ t.at = "put" => Reaches(t.version, t.label)
  BY DEF GoodTask
<1>3. t.label \in Version
  BY <1>2 DEF TaskSet
<1>4. t.at \in {"fetch", "put"} => Reaches(disk'[f], t.label)
  BY <1>1, <1>2, <1>3, DiskOn
<1>5. t.at = "manifest" => t.owner \in Calls /\ GoodPromise(promised[t.owner][DirOf[f]])'
  BY <1>1, <1>2
<1>6. t' = t
  OBVIOUS
<1> QED BY <1>2, <1>4, <1>5, <1>6 DEF GoodTask

LEMMA AskedStays ==
    ASSUME SharedInv, Moves, NEW c \in Calls, CallInv(c),
           calls'[c] = calls[c], tasks'[c] = tasks[c]
    PROVE  NothingElse(c)' /\ Rooted(c)' /\ CoreAsked(c)'
<1>1. faults \in Nat /\ faults' \in Nat /\ faults' >= faults /\ calls[c] \in CallSet
  BY DEF SharedInv, PageTyped, Moves
<1>2. /\ calls[c].faults \in Nat /\ \A f \in Files : calls[c].due[f] \in Version
      /\ calls[c].root \in Calls \cup {None}
  <2>1. calls[c].due \in Contents /\ calls[c].faults \in Nat /\ calls[c].root \in Calls \cup {None}
    BY <1>1 DEF CallSet
  <2> QED BY <2>1, ContentsAt
<1>3. NothingElse(c)'
  BY DEF CallInv, NothingElse, At
<1>4. Rooted(c)'
  <2> SUFFICES ASSUME calls[c].stage \in {"root", "core"}
               PROVE  /\ calls[c].root \in Calls /\ GoodPromise(promised[calls[c].root][Root])'
                      /\ calls[c].kind \in Refreshing => calls[c].root = c
                      /\ calls[c].kind \notin Refreshing => calls[c].due = NoFiles
                      /\ calls[c].faults <= faults'
    BY DEF Rooted
  <2>1. /\ calls[c].root \in Calls /\ GoodPromise(promised[calls[c].root][Root])
        /\ calls[c].kind \in Refreshing => calls[c].root = c
        /\ calls[c].kind \notin Refreshing => calls[c].due = NoFiles
        /\ calls[c].faults <= faults
    BY DEF CallInv, Rooted
  <2>2. GoodPromise(promised[calls[c].root][Root])'
    BY <2>1, Sequences DEF Moves
  <2>3. calls[c].faults <= faults'
    BY <1>1, <1>2, <2>1
  <2> QED BY <2>1, <2>2, <2>3
<1>5. ASSUME NEW f \in Files, AskedTask(c, f) PROVE AskedTask(c, f)'
  <2>1. GoodTask(tasks[c][f], f)'
    BY <1>5, TaskStays DEF AskedTask
  <2>2. faults > calls[c].faults => faults' > calls[c].faults
    BY <1>1, <1>2
  <2> QED BY <1>5, <2>1, <2>2 DEF AskedTask
<1>6. CoreAsked(c)'
  <2> SUFFICES ASSUME At(c, "core")
               PROVE  /\ calls[c].step \in 1 .. Len(Order)
                      /\ \A j \in 1 .. calls[c].step : j <= Len(Core) \/ j = calls[c].step =>
                            /\ AskedTask(c, Order[j])'
                            /\ Order[j] = Order[calls[c].step] \/ tasks[c][Order[j]].at = "ok"
    BY DEF CoreAsked, At
  <2>1. /\ calls[c].step \in 1 .. Len(Order)
        /\ \A j \in 1 .. calls[c].step : j <= Len(Core) \/ j = calls[c].step =>
              /\ AskedTask(c, Order[j])
              /\ Order[j] = Order[calls[c].step] \/ tasks[c][Order[j]].at = "ok"
    BY DEF CallInv, CoreAsked
  <2>2. \A j \in 1 .. calls[c].step : Order[j] \in Files
    <3>1. calls[c].step \in Nat /\ calls[c].step <= Len(Order)
      BY <1>1, <2>1 DEF CallSet
    <3> QED BY <3>1, Ordered
  <2> QED BY <1>5, <2>1, <2>2
<1> QED BY <1>3, <1>4, <1>6

LEMMA DueStays ==
    ASSUME SharedInv, Moves, NEW c \in Calls, CallInv(c),
           calls'[c] = calls[c], promised'[c][Root] = promised[c][Root]
    PROVE  DueListed(c)'
<1>1. faults \in Nat /\ faults' \in Nat /\ faults' >= faults /\ calls[c] \in CallSet
  BY DEF SharedInv, PageTyped, Moves
<1>2. /\ calls[c].faults \in Nat /\ \A f \in Files : calls[c].due[f] \in Version
      /\ calls[c].root \in Calls \cup {None}
  <2>1. calls[c].due \in Contents /\ calls[c].faults \in Nat /\ calls[c].root \in Calls \cup {None}
    BY <1>1 DEF CallSet
  <2> QED BY <2>1, ContentsAt
<1>3. DueListed(c)'
  <2> SUFFICES ASSUME calls[c].stage \in {"root", "core"}
               PROVE  /\ \A f \in CoreSet : Reaches(RootList'[f], calls[c].due[f])
                      /\ calls[c].kind \in Refreshing =>
                            /\ promised[c][Root].state = "listed" =>
                                  \A f \in CoreSet : Reaches(promised[c][Root].files[f], calls[c].due[f])
                            /\ promised[c][Root].state = "broken" => faults' > calls[c].faults
                            /\ At(c, "core") => promised[c][Root].state = "listed"
    BY DEF DueListed, At
  <2>1. /\ \A f \in CoreSet : Reaches(RootList[f], calls[c].due[f])
        /\ calls[c].kind \in Refreshing =>
              /\ promised[c][Root].state = "listed" =>
                    \A f \in CoreSet : Reaches(promised[c][Root].files[f], calls[c].due[f])
              /\ promised[c][Root].state = "broken" => faults > calls[c].faults
              /\ At(c, "core") => promised[c][Root].state = "listed"
    BY DEF CallInv, DueListed
  <2>2. \A f \in CoreSet : RootList[f] \in Version /\ RootList'[f] \in Version /\ Reaches(RootList'[f], RootList[f])
    BY ListingTyped, FileSets, Sequences DEF SharedInv, PageTyped, PublishedTyped, RootList, Moves
  <2>3. \A f \in CoreSet : Reaches(RootList'[f], calls[c].due[f])
    BY <1>2, <2>1, <2>2, ReachesOn, FileSets
  <2>4. faults > calls[c].faults => faults' > calls[c].faults
    BY <1>1, <1>2
  <2> QED BY <2>1, <2>3, <2>4
<1> QED BY <1>3

LEMMA CallStays ==
    ASSUME SharedInv, Moves, NEW c \in Calls, CallInv(c),
           calls'[c] = calls[c], tasks'[c] = tasks[c], promised'[c][Root] = promised[c][Root]
    PROVE  CallInv(c)'
BY AskedStays, DueStays DEF CallInv

(* What every step of a page has to show of what all calls share: types,    *)
(* and that what it changes is good.                                       *)
NextTyped ==
    /\ store' \in [Files -> Records \cup {None}]
    /\ current' \in [DirSet -> Calls \cup {None}]
    /\ promised' \in [Calls -> [DirSet -> PromiseSet \cup {None}]]
    /\ tasks' \in [Calls -> [Files -> TaskSet \cup {None}]]
    /\ calls' \in [Calls -> CallSet]
    /\ coreLoad' \in Calls \cup {None}
    /\ faults' \in Nat /\ faults' >= faults

NextPromises ==
    /\ \A c \in Calls, d \in DirSet :
          promised'[c][d] = promised[c][d] \/ GoodPromise(promised[c][d])'
    /\ \A d \in DirSet :
          current'[d] = current[d] \/ current'[d] = None \/ GoodPromise(promised[current[d]][d])'

NextTasks ==
    \A c \in Calls, f \in Files :
        tasks'[c][f] = None \/ tasks'[c][f] = tasks[c][f] \/ GoodTask(tasks[c][f], f)'

LEMMA SharedStays ==
    ASSUME SharedInv, UNCHANGED published, NextTyped, NextPromises, NextTasks
    PROVE  SharedInv' /\ Moves
<1>1. disk' = disk /\ manifests' = manifests /\ disk \in Contents /\ manifests \in [DirSet -> Contents \cup {None}]
  BY DEF published, SharedInv, PageTyped, PublishedTyped
<1>2. \A f \in Files : disk[f] \in Version /\ Reaches(disk'[f], disk[f])
  BY <1>1, ContentsAt, ReachesSelf
<1>3. ASSUME NEW c \in Calls, NEW d \in DirSet, GoodPromise(promised[c][d])
      PROVE  GoodPromise(promised[c][d])'
  BY <1>1, <1>2, <1>3, PromiseStays DEF NextPromises
<1>4. Moves
  <2>1. RootList' = RootList /\ \A f \in CoreSet : RootList[f] \in Version
    BY <1>1, ListingTyped, FileSets, Sequences DEF RootList
  <2>2. \A f \in CoreSet : Reaches(RootList[f], RootList[f])
    BY <2>1, ReachesSelf
  <2> QED BY <1>1, <1>2, <1>3, <2>1, <2>2 DEF Moves, NextTyped
<1>5. PageTyped'
  BY <1>1 DEF NextTyped, PageTyped, PublishedTyped
<1>6. Honest' /\ CoreThere'
  BY <1>1 DEF SharedInv, Honest, CoreThere
<1>7. PromisesGood'
  BY <1>3 DEF SharedInv, PromisesGood, NextPromises
<1>8. CurrentGood'
  <2> SUFFICES ASSUME NEW d \in DirSet, current'[d] # None
               PROVE  GoodPromise(promised[current[d]][d])'
    BY DEF CurrentGood
  <2>1. CASE current'[d] = current[d]
    <3>1. current[d] \in Calls /\ GoodPromise(promised[current[d]][d])
      BY <2>1 DEF SharedInv, PageTyped, CurrentGood
    <3> DEFINE o == current[d]
    <3>2. o \in Calls /\ GoodPromise(promised[o][d])
      BY <3>1
    <3> HIDE DEF o
    <3>3. promised'[o][d] \in PromiseSet /\ \A f \in Files : Reaches(disk'[f], promised'[o][d].files[f])
      <4>1. promised'[o][d] = promised[o][d] \/ GoodPromise(promised[o][d])'
        BY <3>2, <2>1 DEF NextPromises, o
      <4>2. CASE promised'[o][d] = promised[o][d]
        BY <1>1, <3>2, <4>2 DEF GoodPromise
      <4>3. CASE promised'[o][d] # promised[o][d]
        BY <2>1, <3>2, <4>3 DEF NextPromises, GoodPromise, o
      <4> QED BY <4>2, <4>3
    <3> QED BY <2>1, <3>3 DEF GoodPromise, o
  <2>2. CASE current'[d] # current[d]
    BY <2>2 DEF NextPromises
  <2> QED BY <2>1, <2>2
<1>9. TasksGood'
  <2> SUFFICES ASSUME NEW c \in Calls, NEW f \in Files
               PROVE  tasks'[c][f] = None \/ GoodTask(tasks[c][f], f)'
    BY DEF TasksGood
  <2>1. CASE tasks'[c][f] = tasks[c][f]
    BY <1>4, <2>1, TaskStays DEF SharedInv, TasksGood
  <2> QED BY <2>1 DEF NextTasks
<1> QED BY <1>4, <1>5, <1>6, <1>7, <1>8, <1>9 DEF SharedInv

-----------------------------------------------------------------------------
(* What a step has to show of the call that takes it.                      *)

FreshFor(c) ==
    At(c, "core") /\ calls'[c].stage \notin {"core", "failed", "gone"} =>
        \A f \in CoreSet : Reaches(core'[f], calls[c].due[f])

FailsFor(c) ==
    calls[c].stage \in {"root", "core"} /\ calls[c].kind \in Refreshing /\ calls'[c].stage = "failed" =>
        faults > calls[c].faults

PageGoal == PageInv' /\ \A c \in Calls : FreshFor(c) /\ FailsFor(c)

OnlyCall(c) ==
    \A e \in Calls \ {c} :
        calls'[e] = calls[e] /\ tasks'[e] = tasks[e] /\ promised'[e][Root] = promised[e][Root]

LEMMA OthersStay ==
    ASSUME PageInv, SharedInv', Moves, NEW c \in Calls, OnlyCall(c),
           CallInv(c)', FreshFor(c), FailsFor(c)
    PROVE  PageGoal
<1>1. \A e \in Calls : CallInv(e)'
  <2> SUFFICES ASSUME NEW e \in Calls \ {c} PROVE CallInv(e)'
    OBVIOUS
  <2>1. calls'[e] = calls[e] /\ tasks'[e] = tasks[e] /\ promised'[e][Root] = promised[e][Root]
    BY DEF OnlyCall
  <2> QED BY <2>1, CallStays DEF PageInv
<1>2. \A e \in Calls \ {c} : FreshFor(e) /\ FailsFor(e)
  BY DEF OnlyCall, FreshFor, FailsFor, At
<1> QED BY <1>1, <1>2 DEF PageGoal, PageInv

(* A call that is past the main files, or over. *)
LEMMA QuietCall ==
    ASSUME NEW c \in Calls, calls'[c].stage \in {"files", "page", "worker", "done", "failed", "gone"}
    PROVE  CallInv(c)'
BY DEF CallInv, NothingElse, Rooted, DueListed, CoreAsked, At

(* A call that did not ask for anything yet. *)
LEMMA EarlyCall ==
    ASSUME NEW c \in Calls, calls'[c].stage \in {"idle", "clear", "cleared", "join"},
           \A f \in Files : tasks'[c][f] = None
    PROVE  CallInv(c)'
BY DEF CallInv, NothingElse, Rooted, DueListed, CoreAsked, At

-----------------------------------------------------------------------------
(* Calls, promises and tasks as they are made.                             *)

LEMMA CallMade ==
    ASSUME NEW kind \in Kinds \cup {None}, NEW wanted \in SUBSET Files, NEW stage \in PageStages
    PROVE  /\ Call(kind, wanted, stage) \in CallSet
           /\ Call(kind, wanted, stage).kind = kind /\ Call(kind, wanted, stage).stage = stage
           /\ Call(kind, wanted, stage).due = NoFiles /\ Call(kind, wanted, stage).faults = 0
           /\ Call(kind, wanted, stage).wanted = wanted
BY NoFilesTyped DEF Call, CallSet

RootCall(kind, wanted, root, due, failures) ==
    [Call(kind, wanted, "root") EXCEPT !.root = root, !.due = due, !.faults = failures]

LEMMA RootCallMade ==
    ASSUME NEW kind \in Kinds, NEW wanted \in SUBSET Files, NEW root \in Calls,
           NEW due \in Contents, NEW failures \in Nat
    PROVE  LET r == RootCall(kind, wanted, root, due, failures)
           IN  /\ r \in CallSet
               /\ r.kind = kind /\ r.stage = "root" /\ r.root = root /\ r.due = due /\ r.faults = failures
BY NoFilesTyped DEF RootCall, Call, CallSet, PageStages

LEMMA WantedFiles ==
    ASSUME NEW kind \in Kinds, NEW wanted \in Wants[kind]
    PROVE  wanted \in SUBSET Files
<1>1. Wants[kind] \in SUBSET SUBSET (DetailSet \cup {Meta})
  BY WantsAssumption
<1> QED BY <1>1, FileSets

LEMMA NewPromises ==
    ASSUME NEW p \in {Pending, Broken}
    PROVE  p \in PromiseSet /\ \A f \in Files : p.files[f] = None
BY NoFilesTyped DEF Pending, Broken, Promise, PromiseSet

LEMMA PromiseStates == Pending.state = "pending" /\ Broken.state = "broken"
BY DEF Pending, Broken, Promise

LEMMA TaskMade ==
    ASSUME NEW at \in {"manifest", "fetch", "put", "ok", "bad"}, NEW owner \in Calls \cup {None},
           NEW label \in Version, NEW version \in Version
    PROVE  /\ Task(at, owner, label, version) \in TaskSet
           /\ Task(at, owner, label, version).at = at /\ Task(at, owner, label, version).owner = owner
           /\ Task(at, owner, label, version).label = label
           /\ Task(at, owner, label, version).version = version
BY DEF Task, TaskSet

LEMMA TaskOk ==
    ASSUME NEW version \in Version
    PROVE  /\ Task("ok", None, None, version) \in TaskSet
           /\ Task("ok", None, None, version).at = "ok"
           /\ Task("ok", None, None, version).version = version
BY DEF Task, TaskSet, Version

LEMMA TaskBad == Task("bad", None, None, None) \in TaskSet /\ Task("bad", None, None, None).at = "bad"
BY DEF Task, TaskSet, Version

LEMMA TaskPut ==
    ASSUME NEW label \in Version, NEW version \in Version
    PROVE  /\ Task("put", None, label, version) \in TaskSet
           /\ Task("put", None, label, version).at = "put"
           /\ Task("put", None, label, version).label = label
           /\ Task("put", None, label, version).version = version
BY DEF Task, TaskSet, Version

LEMMA TaskWait ==
    ASSUME NEW owner \in Calls
    PROVE  /\ Task("manifest", owner, None, None) \in TaskSet
           /\ Task("manifest", owner, None, None).at = "manifest"
           /\ Task("manifest", owner, None, None).owner = owner
BY DEF Task, TaskSet, Version

(* A record that is not out of date reaches what the manifest says. *)
LEMMA LookForMade ==
    ASSUME SharedInv, NEW f \in Files, NEW label \in Version
    PROVE  LET t == LookFor(f, label)
           IN  /\ t \in TaskSet /\ t.at \in {"ok", "fetch"}
               /\ t.at = "fetch" => t.label = label
               /\ t.at = "ok" => Reaches(t.version, label)
<1>1. CASE store[f] # None /\ ~ NeedsUpdate(store[f], label)
  <2>1. store[f] \in Records
    BY <1>1 DEF SharedInv, PageTyped
  <2>2. store[f].version \in Version /\ Reaches(store[f].version, store[f].label)
    BY <2>1 DEF Records
  <2>3. label = None \/ label = store[f].label
    BY <1>1 DEF NeedsUpdate
  <2>4. LookFor(f, label) = Task("ok", None, None, store[f].version)
    BY <1>1 DEF LookFor
  <2>5. Reaches(store[f].version, label)
    BY <2>2, <2>3, ReachesNone
  <2> QED BY <2>2, <2>4, <2>5, TaskOk
<1>2. CASE ~ (store[f] # None /\ ~ NeedsUpdate(store[f], label))
  <2>1. LookFor(f, label) = Task("fetch", None, label, None)
    BY <1>2 DEF LookFor
  <2>2. /\ Task("fetch", None, label, None) \in TaskSet
        /\ Task("fetch", None, label, None).at = "fetch"
        /\ Task("fetch", None, label, None).label = label
    <3>1. None \in Version
      BY DEF Version
    <3> QED BY <3>1, TaskMade
  <2> QED BY <2>1, <2>2
<1> QED BY <1>1, <1>2

(* Asking for a manifest: the promise of the directory is good. *)
LEMMA LoadManifestMade ==
    ASSUME SharedInv, NEW d \in DirSet, NEW c \in Calls, LoadManifest(d, c), disk' = disk,
           NEW o, o = OwnerFor(d, c)
    PROVE  /\ current' \in [DirSet -> Calls \cup {None}]
           /\ promised' \in [Calls -> [DirSet -> PromiseSet \cup {None}]]
           /\ NextPromises
           /\ o \in Calls /\ GoodPromise(promised[o][d])'
           /\ \A e \in Calls \ {c} : promised'[e] = promised[e]
<1>1. /\ current \in [DirSet -> Calls \cup {None}]
      /\ promised \in [Calls -> [DirSet -> PromiseSet \cup {None}]]
  BY DEF SharedInv, PageTyped
<1>2. CASE current[d] # None
  <2>1. UNCHANGED <<current, promised>> /\ o = current[d]
    BY <1>2 DEF LoadManifest, OwnerFor
  <2>2. o \in Calls /\ GoodPromise(promised[o][d])
    BY <1>1, <1>2, <2>1 DEF SharedInv, CurrentGood
  <2>3. GoodPromise(promised[o][d])'
    BY <2>1, <2>2 DEF GoodPromise
  <2> QED BY <1>1, <2>1, <2>2, <2>3 DEF NextPromises
<1>3. CASE current[d] = None
  <2>1. /\ current' = [current EXCEPT ![d] = c] /\ o = c
        /\ promised' = [promised EXCEPT ![c][d] = Pending]
    BY <1>3 DEF LoadManifest, OwnerFor
  <2>2. Pending \in PromiseSet /\ \A f \in Files : Pending.files[f] = None
    BY NewPromises
  <2>3. /\ promised' \in [Calls -> [DirSet -> PromiseSet \cup {None}]]
        /\ promised'[c][d] = Pending
        /\ \A e \in Calls \ {c} : promised'[e] = promised[e]
        /\ \A x \in DirSet \ {d} : promised'[c][x] = promised[c][x]
    BY <1>1, <2>1, <2>2
  <2>4. /\ current' \in [DirSet -> Calls \cup {None}] /\ current'[d] = c
        /\ \A x \in DirSet \ {d} : current'[x] = current[x]
    BY <1>1, <2>1
  <2>5. GoodPromise(promised[c][d])'
    BY <2>2, <2>3, ReachesNone DEF GoodPromise
  <2>6. NextPromises
    BY <2>3, <2>4, <2>5 DEF NextPromises
  <2> QED BY <2>1, <2>3, <2>4, <2>5, <2>6
<1> QED BY <1>2, <1>3

-----------------------------------------------------------------------------
(* The steps of calls.                                                     *)

(* A call asks for the manifest of the root again: what it lists is due.    *)
LEMMA AsksAgain ==
    ASSUME PageInv, NEW c \in Calls, NEW kind \in Refreshing, NEW wanted \in SUBSET Files,
           calls[c].stage \in {"idle", "cleared"},
           calls' = [calls EXCEPT ![c] = RootCall(kind, wanted, c, RootList, faults)],
           promised' = [promised EXCEPT ![c][Root] = Pending],
           current' \in [DirSet -> Calls \cup {None}], current'[Root] = c,
           \A d \in DirSet \ {Root} : current'[d] = current[d] \/ current'[d] = None,
           UNCHANGED <<published, store, tasks, faults, coreLoad>>
    PROVE  PageGoal
<1>1. /\ promised \in [Calls -> [DirSet -> PromiseSet \cup {None}]] /\ calls \in [Calls -> CallSet]
      /\ faults \in Nat /\ Root \in DirSet /\ RootList \in Contents
  BY Sequences, ListingTyped DEF PageInv, SharedInv, PageTyped, PublishedTyped, RootList
<1>2. Pending \in PromiseSet /\ Pending.state = "pending" /\ \A f \in Files : Pending.files[f] = None
  BY NewPromises, PromiseStates
<1>3. /\ promised' \in [Calls -> [DirSet -> PromiseSet \cup {None}]]
      /\ promised'[c][Root] = Pending
      /\ \A e \in Calls \ {c} : promised'[e] = promised[e]
      /\ \A d \in DirSet \ {Root} : promised'[c][d] = promised[c][d]
  BY <1>1, <1>2
<1> DEFINE r == RootCall(kind, wanted, c, RootList, faults)
<1>4. /\ r \in CallSet
      /\ r.kind = kind /\ r.stage = "root" /\ r.root = c /\ r.due = RootList /\ r.faults = faults
  <2>1. kind \in Kinds
    BY DEF Kinds
  <2> QED BY <1>1, <2>1, RootCallMade
<1> HIDE DEF r
<1>5. calls' \in [Calls -> CallSet] /\ calls'[c] = r /\ \A e \in Calls \ {c} : calls'[e] = calls[e]
  BY <1>1, <1>4 DEF r
<1>6. NextTyped
  BY <1>1, <1>3, <1>5 DEF NextTyped, PageInv, SharedInv, PageTyped
<1>7. GoodPromise(promised[c][Root])'
  BY <1>2, <1>3, ReachesNone DEF GoodPromise
<1>8. NextPromises /\ NextTasks
  BY <1>3, <1>7 DEF NextPromises, NextTasks
<1>9. SharedInv' /\ Moves
  BY <1>6, <1>8, SharedStays DEF PageInv
<1>10. CallInv(c)'
  <2>1. NothingElse(c)'
    BY <1>4, <1>5 DEF PageInv, CallInv, NothingElse, At
  <2>2. Rooted(c)'
    BY <1>1, <1>4, <1>5, <1>7 DEF Rooted, Refreshing
  <2>3. RootList' = RootList /\ \A f \in CoreSet : Reaches(RootList[f], RootList[f])
    BY <1>1, ContentsAt, ReachesSelf, FileSets DEF RootList, published
  <2>4. DueListed(c)'
    BY <1>2, <1>3, <1>4, <1>5, <2>3 DEF DueListed, At
  <2>5. CoreAsked(c)'
    BY <1>4, <1>5 DEF CoreAsked, At
  <2> QED BY <2>1, <2>2, <2>4, <2>5 DEF CallInv
<1>11. OnlyCall(c)
  BY <1>3, <1>5 DEF OnlyCall
<1>12. FreshFor(c) /\ FailsFor(c)
  BY DEF FreshFor, FailsFor, At
<1> QED BY <1>9, <1>10, <1>11, <1>12, OthersStay

(* Steps that change neither promises nor files, and end what a call waits  *)
(* for or what it asked for.                                               *)
LEMMA CallMoves ==
    ASSUME PageInv, NEW c \in Calls,
           calls' \in [Calls -> CallSet], \A e \in Calls \ {c} : calls'[e] = calls[e],
           UNCHANGED <<published, current, promised>>,
           store' \in [Files -> Records \cup {None}], coreLoad' \in Calls \cup {None},
           faults' \in Nat, faults' >= faults,
           tasks' = tasks \/ Drop(c),
           CallInv(c)', FreshFor(c), FailsFor(c)
    PROVE  PageGoal
<1>1. /\ calls \in [Calls -> CallSet] /\ tasks \in [Calls -> [Files -> TaskSet \cup {None}]]
  BY DEF PageInv, SharedInv, PageTyped
<1>3. /\ tasks' \in [Calls -> [Files -> TaskSet \cup {None}]]
      /\ \A e \in Calls \ {c} : tasks'[e] = tasks[e]
      /\ \A f \in Files : tasks'[c][f] = None \/ tasks'[c][f] = tasks[c][f]
  <2>1. CASE tasks' = tasks
    BY <1>1, <2>1
  <2>2. CASE Drop(c)
    <3> DEFINE kept == [f \in Files |-> IF tasks[c][f] # None /\ tasks[c][f].at \in {"ok", "bad"}
                                        THEN None ELSE tasks[c][f]]
    <3>1. tasks' = [tasks EXCEPT ![c] = kept]
      BY <2>2 DEF Drop
    <3>2. /\ kept \in [Files -> TaskSet \cup {None}]
          /\ \A f \in Files : kept[f] = None \/ kept[f] = tasks[c][f]
      BY <1>1
    <3> HIDE DEF kept
    <3> QED BY <1>1, <3>1, <3>2
  <2> QED BY <2>1, <2>2
<1>4. NextTyped
  BY <1>3 DEF NextTyped, PageInv, SharedInv, PageTyped
<1>5. NextPromises /\ NextTasks
  BY <1>3 DEF NextPromises, NextTasks
<1>6. SharedInv' /\ Moves
  BY <1>4, <1>5, SharedStays DEF PageInv
<1>7. OnlyCall(c)
  BY <1>3 DEF OnlyCall
<1> QED BY <1>6, <1>7, OthersStay

LEMMA LoadStep ==
    ASSUME PageInv, NEW c \in Calls, At(c, "idle"), Load(c),
           UNCHANGED <<published, store, tasks, faults>>
    PROVE  PageGoal
<1>1. /\ calls \in [Calls -> CallSet] /\ store \in [Files -> Records \cup {None}]
      /\ faults \in Nat /\ coreLoad \in Calls \cup {None} /\ Root \in DirSet
      /\ \A f \in Files : tasks[c][f] = None
  BY Sequences DEF PageInv, SharedInv, PageTyped, CallInv, NothingElse, At
<1>2. FreshFor(c) /\ FailsFor(c)
  BY DEF FreshFor, FailsFor, At
<1>3. CASE core # None
  <2> DEFINE r == Call(None, {}, "done")
  <2>1. r \in CallSet /\ r.stage = "done"
    BY CallMade DEF PageStages
  <2>2. calls' = [calls EXCEPT ![c] = r] /\ UNCHANGED <<current, promised, coreLoad>>
    BY <1>3 DEF Load
  <2> HIDE DEF r
  <2>3. calls' \in [Calls -> CallSet] /\ calls'[c] = r /\ \A e \in Calls \ {c} : calls'[e] = calls[e]
    BY <1>1, <2>1, <2>2
  <2>4. CallInv(c)'
    BY <1>1, <2>1, <2>3, QuietCall
  <2> QED BY <1>1, <1>2, <2>2, <2>3, <2>4, CallMoves
<1>4. CASE core = None /\ coreLoad # None
  <2> DEFINE r == [Call("load", {}, "join") EXCEPT !.root = coreLoad]
  <2>1. r \in CallSet /\ r.stage = "join"
    BY <1>1, NoFilesTyped DEF Call, CallSet, Kinds, PageStages
  <2>2. calls' = [calls EXCEPT ![c] = r] /\ UNCHANGED <<current, promised, coreLoad>>
    BY <1>4 DEF Load
  <2> HIDE DEF r
  <2>3. calls' \in [Calls -> CallSet] /\ calls'[c] = r /\ \A e \in Calls \ {c} : calls'[e] = calls[e]
    BY <1>1, <2>1, <2>2
  <2>4. CallInv(c)'
    BY <1>1, <2>1, <2>3, EarlyCall
  <2> QED BY <1>1, <1>2, <2>2, <2>3, <2>4, CallMoves
<1>5. CASE core = None /\ coreLoad = None
  <2>1. PICK o : o = OwnerFor(Root, c)
    OBVIOUS
  <2>2. /\ LoadManifest(Root, c) /\ coreLoad' = c
        /\ calls' = [calls EXCEPT ![c] = [Call("load", {}, "root") EXCEPT !.root = o]]
    BY <1>5, <2>1 DEF Load
  <2>3. disk' = disk
    BY DEF published
  <2>4. /\ current' \in [DirSet -> Calls \cup {None}]
        /\ promised' \in [Calls -> [DirSet -> PromiseSet \cup {None}]]
        /\ NextPromises
        /\ o \in Calls /\ GoodPromise(promised[o][Root])'
        /\ \A e \in Calls \ {c} : promised'[e] = promised[e]
    BY <1>1, <2>1, <2>2, <2>3, LoadManifestMade DEF PageInv
  <2> DEFINE r == [Call("load", {}, "root") EXCEPT !.root = o]
  <2>5. /\ r \in CallSet /\ r.stage = "root" /\ r.kind = "load" /\ r.root = o /\ r.due = NoFiles
        /\ r.faults = 0
    BY <2>4, NoFilesTyped DEF Call, CallSet, Kinds, PageStages
  <2> HIDE DEF r
  <2>6. calls' \in [Calls -> CallSet] /\ calls'[c] = r /\ \A e \in Calls \ {c} : calls'[e] = calls[e]
    BY <1>1, <2>2, <2>5 DEF r
  <2>7. NextTyped /\ NextTasks
    BY <1>1, <2>2, <2>4, <2>6 DEF NextTyped, NextTasks, PageInv, SharedInv, PageTyped
  <2>8. SharedInv' /\ Moves
    BY <2>4, <2>7, SharedStays DEF PageInv
  <2>9. CallInv(c)'
    <3>1. NothingElse(c)'
      BY <1>1, <2>5, <2>6 DEF NothingElse, At
    <3>2. Rooted(c)'
      BY <1>1, <2>4, <2>5, <2>6 DEF Rooted, Refreshing, Calculations
    <3>3. DueListed(c)'
      BY <2>5, <2>6, NoFilesTyped, ReachesNone, FileSets DEF DueListed, Refreshing, Calculations
    <3>4. CoreAsked(c)'
      BY <2>5, <2>6 DEF CoreAsked, At
    <3> QED BY <3>1, <3>2, <3>3, <3>4 DEF CallInv
  <2>10. OnlyCall(c)
    BY <2>4, <2>6 DEF OnlyCall
  <2> QED BY <1>2, <2>8, <2>9, <2>10, OthersStay
<1> QED BY <1>3, <1>4, <1>5

LEMMA BeginStep ==
    ASSUME PageInv, NEW c \in Calls, NEW kind \in Kinds, NEW wanted \in Wants[kind],
           Begin(c, kind, wanted)
    PROVE  PageGoal
<1>1. At(c, "idle") /\ UNCHANGED <<published, store, tasks, faults>>
  BY DEF Begin
<1>2. CASE kind = "load"
  BY <1>1, <1>2, LoadStep DEF Begin
<1>3. CASE kind = "clear"
  <2> DEFINE r == Call(kind, wanted, "clear")
  <2>1. r \in CallSet /\ r.stage = "clear"
    BY CallMade, WantedFiles DEF PageStages
  <2>2. calls' = [calls EXCEPT ![c] = r] /\ UNCHANGED <<current, promised, coreLoad>>
    <3>1. calls' = [calls EXCEPT ![c] = Call(kind, {}, "clear")] /\ UNCHANGED <<current, promised, coreLoad>>
      BY <1>3 DEF Begin
    <3>2. wanted = {}
      BY <1>3, WantsAssumption
    <3> QED BY <3>1, <3>2
  <2> HIDE DEF r
  <2>3. /\ calls \in [Calls -> CallSet] /\ store \in [Files -> Records \cup {None}]
        /\ faults \in Nat /\ coreLoad \in Calls \cup {None}
        /\ \A f \in Files : tasks[c][f] = None
    BY <1>1 DEF PageInv, SharedInv, PageTyped, CallInv, NothingElse, At
  <2>4. calls' \in [Calls -> CallSet] /\ calls'[c] = r /\ \A e \in Calls \ {c} : calls'[e] = calls[e]
    BY <2>1, <2>2, <2>3
  <2>5. CallInv(c)'
    BY <1>1, <2>1, <2>3, <2>4, EarlyCall
  <2>6. FreshFor(c) /\ FailsFor(c)
    BY <1>1 DEF FreshFor, FailsFor, At
  <2> QED BY <1>1, <2>2, <2>3, <2>4, <2>5, <2>6, CallMoves
<1>4. CASE kind \notin {"load", "clear"}
  <2>1. Refresh(c, kind, wanted) /\ UNCHANGED coreLoad
    BY <1>4 DEF Begin
  <2>2. kind \in Refreshing /\ calls[c].stage = "idle" /\ Root \in DirSet
        /\ current \in [DirSet -> Calls \cup {None}]
    BY <1>1, <1>4, Sequences DEF Kinds, At, PageInv, SharedInv, PageTyped
  <2>3. /\ current' = [current EXCEPT ![Root] = c]
        /\ promised' = [promised EXCEPT ![c][Root] = Pending]
        /\ calls' = [calls EXCEPT ![c] = RootCall(kind, wanted, c, RootList, faults)]
    BY <2>1 DEF Refresh, RefreshManifest, RootCall, RootList
  <2>4. /\ current' \in [DirSet -> Calls \cup {None}] /\ current'[Root] = c
        /\ \A d \in DirSet \ {Root} : current'[d] = current[d]
    BY <2>2, <2>3
  <2> QED BY <1>1, <2>1, <2>2, <2>3, <2>4, AsksAgain, WantedFiles
<1> QED BY <1>2, <1>3, <1>4

LEMMA ClearStoreStep ==
    ASSUME PageInv, NEW c \in Calls, ClearStore(c)
    PROVE  PageGoal
<1>1. /\ calls \in [Calls -> CallSet] /\ faults \in Nat /\ coreLoad \in Calls \cup {None}
      /\ calls[c].stage = "clear" /\ \A f \in Files : tasks[c][f] = None
  BY DEF ClearStore, PageInv, SharedInv, PageTyped, CallInv, NothingElse, At
<1>2. /\ calls' = [calls EXCEPT ![c].stage = "cleared"]
      /\ UNCHANGED <<published, current, promised, tasks, faults, coreLoad>>
      /\ store' = [f \in Files |-> None]
  BY DEF ClearStore
<1>3. /\ calls' \in [Calls -> CallSet] /\ calls'[c].stage = "cleared"
      /\ \A e \in Calls \ {c} : calls'[e] = calls[e]
  <2> DEFINE r == [calls[c] EXCEPT !.stage = "cleared"]
  <2>1. r \in CallSet /\ r.stage = "cleared"
    <3>1. calls[c] \in CallSet
      BY <1>1
    <3> QED BY <3>1 DEF CallSet, PageStages
  <2>2. calls' = [calls EXCEPT ![c] = r]
    BY <1>1, <1>2
  <2> HIDE DEF r
  <2> QED BY <1>1, <2>1, <2>2
<1>4. store' \in [Files -> Records \cup {None}]
  BY <1>2
<1>5. CallInv(c)'
  BY <1>1, <1>2, <1>3, EarlyCall
<1>6. FreshFor(c) /\ FailsFor(c)
  BY <1>1 DEF FreshFor, FailsFor, At
<1> QED BY <1>1, <1>2, <1>3, <1>4, <1>5, <1>6, CallMoves

LEMMA ForgetStep ==
    ASSUME PageInv, NEW c \in Calls, Forget(c)
    PROVE  PageGoal
<1>1. /\ calls[c].stage = "cleared"
      /\ current' = [NoPromises EXCEPT ![Root] = c]
      /\ promised' = [promised EXCEPT ![c][Root] = Pending]
      /\ calls' = [calls EXCEPT ![c] = RootCall("clear", {}, c, RootList, faults)]
      /\ UNCHANGED <<published, store, tasks, faults, coreLoad>>
  BY DEF Forget, At, RootCall, RootList
<1>2. /\ current' \in [DirSet -> Calls \cup {None}] /\ current'[Root] = c
      /\ \A d \in DirSet \ {Root} : current'[d] = None
  BY <1>1, Sequences DEF NoPromises
<1>3. "clear" \in Refreshing /\ {} \in SUBSET Files
  BY DEF Refreshing
<1> QED BY <1>1, <1>2, <1>3, AsksAgain

(* The next file is asked for: those before it have come. *)
LEMMA AskBehindStep ==
    ASSUME PageInv, NEW c \in Calls, NEW step \in Nat, AskBehind(c, step),
           calls[c].stage \in {"root", "core"},
           UNCHANGED <<published, store, current, promised, faults, core, coreLoad>>,
           calls[c].kind \in Refreshing => promised[c][Root].state = "listed",
           \A j \in 1 .. step : j <= Len(Core) => AskedTask(c, Order[j]) /\ tasks[c][Order[j]].at = "ok"
    PROVE  PageGoal
<1>1. PICK n \in Behind(c, step) :
         /\ \A k \in Behind(c, step) : n <= k
         /\ tasks' = [tasks EXCEPT ![c][Order[n]] = LookFor(Order[n], Listed(calls[c].root, Root, Order[n]))]
         /\ calls' = [calls EXCEPT ![c].stage = "core", ![c].step = n]
  BY DEF AskBehind
<1> DEFINE f == Order[n]
           root == calls[c].root
           label == promised[root][Root].files[f]
           t == LookFor(f, label)
<1>2. /\ n \in Nat /\ n >= step + 1 /\ n <= Len(Order) /\ Len(Order) \in Nat /\ Len(Core) \in Nat
      /\ f \in Files /\ f \in CoreSet \cup RepairSet
      /\ \A j \in 1 .. n : Order[j] \in Files
  BY Ordered, Sequences DEF Behind
<1>3. \A j \in 1 .. n : j <= Len(Core) => j <= step \/ j = n
  <2> SUFFICES ASSUME NEW j \in 1 .. n, j <= Len(Core), j > step PROVE j = n
    OBVIOUS
  <2>1. j \in Behind(c, step)
    BY <1>2 DEF Behind
  <2>2. n <= j
    BY <1>1, <2>1
  <2> QED BY <1>2, <2>2
<1>4. /\ calls \in [Calls -> CallSet] /\ tasks \in [Calls -> [Files -> TaskSet \cup {None}]]
      /\ disk \in Contents /\ faults \in Nat
      /\ calls[c] \in CallSet /\ SharedInv
  BY DEF PageInv, SharedInv, PageTyped, PublishedTyped
<1>5. /\ root \in Calls /\ GoodPromise(promised[root][Root])
      /\ calls[c].kind \in Refreshing => root = c
      /\ calls[c].kind \notin Refreshing => calls[c].due = NoFiles
      /\ calls[c].faults <= faults
      /\ \A g \in CoreSet : Reaches(RootList[g], calls[c].due[g])
      /\ calls[c].kind \in Refreshing /\ promised[c][Root].state = "listed" =>
            \A g \in CoreSet : Reaches(promised[c][Root].files[g], calls[c].due[g])
      /\ calls[c].kind \in Refreshing /\ promised[c][Root].state = "broken" => faults > calls[c].faults
  BY DEF PageInv, CallInv, Rooted, DueListed
<1>6. /\ label \in Version /\ Reaches(disk[f], label)
      /\ f \in CoreSet => Reaches(label, calls[c].due[f])
  <2>1. promised[root][Root].files \in Contents /\ Reaches(disk[f], label)
    BY <1>2, <1>5 DEF GoodPromise, PromiseSet
  <2>2. label \in Version
    BY <1>2, <2>1, ContentsAt
  <2>3. CASE calls[c].kind \in Refreshing
    BY <1>5, <2>1, <2>2, <2>3
  <2>4. CASE calls[c].kind \notin Refreshing
    <3>1. f \in CoreSet => calls[c].due[f] = None
      BY <1>2, <1>5, <2>4, NoFilesTyped
    <3> QED BY <2>1, <2>2, <3>1, ReachesNone
  <2> QED BY <2>3, <2>4
<1> HIDE DEF label, root
<1>7. /\ t \in TaskSet /\ t.at \in {"ok", "fetch"}
      /\ t.at = "fetch" => t.label = label
      /\ t.at = "ok" => Reaches(t.version, label)
  BY <1>2, <1>4, <1>6, LookForMade
<1>8. t.at = "ok" /\ f \in CoreSet => Reaches(t.version, calls[c].due[f])
  <2>1. t.version \in Version
    BY <1>7 DEF TaskSet
  <2>2. f \in CoreSet => calls[c].due[f] \in Version
    BY <1>2, <1>4, ContentsAt DEF CallSet
  <2> QED BY <1>6, <1>7, <2>1, <2>2, ReachesOn
<1> HIDE DEF t
<1>9. /\ tasks' \in [Calls -> [Files -> TaskSet \cup {None}]]
      /\ tasks'[c][f] = t /\ \A g \in Files \ {f} : tasks'[c][g] = tasks[c][g]
      /\ \A e \in Calls \ {c} : tasks'[e] = tasks[e]
  <2>1. tasks' = [tasks EXCEPT ![c][f] = t]
    BY <1>1 DEF t, label, root, Listed
  <2> HIDE DEF f
  <2> QED BY <1>2, <1>4, <1>7, <2>1
<1>10. /\ calls' \in [Calls -> CallSet] /\ \A e \in Calls \ {c} : calls'[e] = calls[e]
       /\ calls'[c].stage = "core" /\ calls'[c].step = n
       /\ calls'[c].kind = calls[c].kind /\ calls'[c].root = calls[c].root
       /\ calls'[c].due = calls[c].due /\ calls'[c].faults = calls[c].faults
  <2> DEFINE r == [calls[c] EXCEPT !.stage = "core", !.step = n]
  <2>1. /\ r \in CallSet /\ r.stage = "core" /\ r.step = n
        /\ r.kind = calls[c].kind /\ r.root = calls[c].root
        /\ r.due = calls[c].due /\ r.faults = calls[c].faults
    BY <1>2, <1>4 DEF CallSet, PageStages
  <2>2. calls' = [calls EXCEPT ![c] = r]
    BY <1>1, <1>4
  <2> HIDE DEF r
  <2> QED BY <1>4, <2>1, <2>2
<1>11. GoodTask(tasks[c][f], f)'
  <2>1. disk' = disk
    BY DEF published
  <2> QED BY <1>6, <1>7, <1>9, <2>1 DEF GoodTask
<1>12. NextTyped
  BY <1>4, <1>9, <1>10 DEF NextTyped, PageInv, SharedInv, PageTyped
<1>13. NextPromises /\ NextTasks
  BY <1>9, <1>11 DEF NextPromises, NextTasks
<1>14. SharedInv' /\ Moves
  BY <1>4, <1>12, <1>13, SharedStays
<1>15. CallInv(c)'
  <2>1. NothingElse(c)'
    <3>1. \A g \in Files \ (CoreSet \cup RepairSet) : tasks[c][g] = None
      BY FileSets DEF PageInv, CallInv, NothingElse, At
    <3> QED BY <1>2, <1>9, <1>10, <3>1 DEF NothingElse, At
  <2>2. Rooted(c)'
    <3>1. GoodPromise(promised[calls[c].root][Root])'
      BY <1>5, <1>10 DEF GoodPromise, published, root
    <3> QED BY <1>5, <1>10, <3>1 DEF Rooted, root
  <2>3. DueListed(c)'
    <3>1. RootList' = RootList
      BY DEF RootList, published
    <3> QED BY <1>5, <1>10, <3>1 DEF DueListed, At
  <2>4. AskedTask(c, f)'
    BY <1>6, <1>7, <1>8, <1>9, <1>10, <1>11 DEF AskedTask
  <2>5. ASSUME NEW j \in 1 .. n, j <= Len(Core) \/ j = n, Order[j] # f
        PROVE  AskedTask(c, Order[j])' /\ tasks'[c][Order[j]].at = "ok"
    <3> DEFINE g == Order[j]
    <3>1. j <= step /\ j <= Len(Core) /\ g \in Files \ {f}
      BY <1>2, <1>3, <2>5
    <3>2. AskedTask(c, g) /\ tasks[c][g].at = "ok" /\ tasks'[c][g] = tasks[c][g]
      BY <1>9, <3>1
    <3> HIDE DEF g, f
    <3>3. GoodTask(tasks[c][g], g)'
      BY <1>4, <1>14, <3>1, <3>2, TaskStays DEF AskedTask
    <3>4. AskedTask(c, g)'
      BY <1>10, <3>2, <3>3 DEF AskedTask
    <3> QED BY <3>2, <3>4 DEF g
  <2>6. CoreAsked(c)'
    <3>1. n \in 1 .. Len(Order)
      BY <1>2
    <3> SUFFICES ASSUME NEW j \in 1 .. n, j <= Len(Core) \/ j = n
                 PROVE  AskedTask(c, Order[j])' /\ (Order[j] = Order[n] \/ tasks'[c][Order[j]].at = "ok")
      BY <1>10, <3>1 DEF CoreAsked, At
    <3> QED BY <2>4, <2>5
  <2> QED BY <2>1, <2>2, <2>3, <2>6 DEF CallInv
<1>16. OnlyCall(c)
  BY <1>9, <1>10 DEF OnlyCall
<1>17. FreshFor(c) /\ FailsFor(c)
  BY <1>10 DEF FreshFor, FailsFor, At
<1> QED BY <1>14, <1>15, <1>16, <1>17, OthersStay

LEMMA RootKnownStep ==
    ASSUME PageInv, NEW c \in Calls, RootKnown(c)
    PROVE  PageGoal
<1>1. /\ calls[c].stage = "root" /\ AskBehind(c, 0)
      /\ UNCHANGED <<published, store, current, promised, faults, core, coreLoad>>
  BY DEF RootKnown, At
<1>2. calls[c].kind \in Refreshing => promised[c][Root].state = "listed"
  BY <1>1 DEF RootKnown, Resolved, PageInv, CallInv, Rooted
<1>3. \A j \in 1 .. 0 : j <= Len(Core) => AskedTask(c, Order[j]) /\ tasks[c][Order[j]].at = "ok"
  OBVIOUS
<1> QED BY <1>1, <1>2, <1>3, AskBehindStep

(* Once the last file has come, all that were asked for have. *)
LEMMA AllCame ==
    ASSUME PageInv, NEW c \in Calls, At(c, "core"), Asked(c).at = "ok"
    PROVE  /\ calls[c].step \in 1 .. Len(Order)
           /\ \A j \in 1 .. calls[c].step : j <= Len(Core) =>
                 AskedTask(c, Order[j]) /\ tasks[c][Order[j]].at = "ok"
BY DEF PageInv, CallInv, CoreAsked, Asked

LEMMA NextFileStep ==
    ASSUME PageInv, NEW c \in Calls, NextFile(c)
    PROVE  PageGoal
<1> DEFINE step == calls[c].step
<1>1. /\ At(c, "core") /\ Asked(c).at = "ok" /\ AskBehind(c, step)
      /\ UNCHANGED <<published, store, current, promised, faults, core, coreLoad>>
  BY DEF NextFile
<1>2. calls[c].kind \in Refreshing => promised[c][Root].state = "listed"
  BY <1>1 DEF PageInv, CallInv, DueListed, At
<1>3. /\ step \in Nat
      /\ \A j \in 1 .. step : j <= Len(Core) => AskedTask(c, Order[j]) /\ tasks[c][Order[j]].at = "ok"
  BY <1>1, AllCame, Ordered
<1>4. calls[c].stage \in {"root", "core"}
  BY <1>1 DEF At
<1> HIDE DEF step
<1> QED BY <1>1, <1>2, <1>3, <1>4, AskBehindStep

LEMMA CoreKnownFresh ==
    ASSUME PageInv, NEW c \in Calls, CoreKnown(c)
    PROVE  \A f \in CoreSet : Reaches(core'[f], calls[c].due[f])
<1>1. At(c, "core") /\ Asked(c).at = "ok" /\ Behind(c, calls[c].step) = {} /\ core' = CoreVersions(c)
  BY DEF CoreKnown
<1>2. /\ calls[c].step \in 1 .. Len(Order)
      /\ \A j \in 1 .. calls[c].step : j <= Len(Core) =>
            AskedTask(c, Order[j]) /\ tasks[c][Order[j]].at = "ok"
  BY <1>1, AllCame
<1>3. Len(Core) <= calls[c].step
  <2> SUFFICES ASSUME Len(Core) > calls[c].step PROVE FALSE
    BY <1>2, Ordered, Sequences
  <2>1. Len(Core) \in calls[c].step + 1 .. Len(Order)
    BY <1>2, Ordered, Sequences
  <2>2. Len(Core) \in Behind(c, calls[c].step)
    BY <2>1 DEF Behind
  <2> QED BY <1>1, <2>2
<1> SUFFICES ASSUME NEW f \in CoreSet PROVE Reaches(core'[f], calls[c].due[f])
  OBVIOUS
<1>4. PICK j \in 1 .. Len(Core) : Core[j] = f
  BY Sequences
<1>5. Order[j] = f /\ j \in 1 .. calls[c].step /\ j <= Len(Core)
  BY <1>2, <1>3, <1>4, Ordered, Sequences
<1>6. AskedTask(c, f) /\ tasks[c][f].at = "ok"
  BY <1>2, <1>5
<1>7. core'[f] = tasks[c][f].version
  BY <1>1 DEF CoreVersions
<1> QED BY <1>6, <1>7 DEF AskedTask

LEMMA CoreKnownStep ==
    ASSUME PageInv, NEW c \in Calls, CoreKnown(c)
    PROVE  PageGoal
<1> DEFINE wanted == calls[c].wanted
<1>1. /\ calls \in [Calls -> CallSet] /\ calls[c] \in CallSet /\ faults \in Nat
      /\ store \in [Files -> Records \cup {None}]
      /\ tasks \in [Calls -> [Files -> TaskSet \cup {None}]]
      /\ coreLoad' \in Calls \cup {None} /\ UNCHANGED <<published, store, faults>>
      /\ At(c, "core") /\ SharedInv
  BY DEF CoreKnown, PageInv, SharedInv, PageTyped
<1>2. FreshFor(c)
  BY CoreKnownFresh DEF FreshFor
<1>3. calls[c].kind \in Kinds \cup {None} /\ wanted \in SUBSET Files /\ {} \in SUBSET Files
  BY <1>1 DEF CallSet
<1>4. CASE wanted = {}
  <2> DEFINE r == Call(None, {}, "done")
  <2>1. r \in CallSet /\ r.stage = "done"
    BY CallMade DEF PageStages
  <2>2. calls' = [calls EXCEPT ![c] = r] /\ Drop(c) /\ UNCHANGED <<current, promised>>
    BY <1>4 DEF CoreKnown, Ends
  <2> HIDE DEF r
  <2>3. calls' \in [Calls -> CallSet] /\ calls'[c] = r /\ \A e \in Calls \ {c} : calls'[e] = calls[e]
    BY <1>1, <2>1, <2>2
  <2>4. CallInv(c)' /\ FailsFor(c)
    BY <2>1, <2>3, QuietCall DEF FailsFor
  <2> QED BY <1>1, <1>2, <2>2, <2>3, <2>4, CallMoves
<1>5. CASE wanted # {}
  <2> DEFINE r == Call(calls[c].kind, wanted, "files")
  <2>1. r \in CallSet /\ r.stage = "files"
    BY <1>3, CallMade DEF PageStages
  <2>2. calls' = [calls EXCEPT ![c] = r]
    BY <1>1, <1>5 DEF CoreKnown
  <2> HIDE DEF r
  <2>3. calls' \in [Calls -> CallSet] /\ calls'[c] = r /\ \A e \in Calls \ {c} : calls'[e] = calls[e]
    BY <1>1, <2>1, <2>2
  <2>4. PICK o : o = OwnerFor(DirOf[Meta], c)
    OBVIOUS
  <2>5. IF Meta \in wanted THEN LoadManifest(DirOf[Meta], c) ELSE UNCHANGED <<current, promised>>
    BY <1>5 DEF CoreKnown
  <2>6. DirOf[Meta] \in DirSet /\ disk' = disk
    BY <1>1, FilesAssumption, FileSets DEF published
  <2>7. /\ current' \in [DirSet -> Calls \cup {None}]
        /\ promised' \in [Calls -> [DirSet -> PromiseSet \cup {None}]]
        /\ NextPromises
        /\ Meta \in wanted => o \in Calls /\ GoodPromise(promised[o][DirOf[Meta]])'
        /\ \A e \in Calls \ {c} : promised'[e] = promised[e]
    <3>1. CASE Meta \in wanted
      <4>1. LoadManifest(DirOf[Meta], c)
        BY <2>5, <3>1
      <4> DEFINE d == DirOf[Meta]
      <4>2. LoadManifest(d, c) /\ d \in DirSet /\ o = OwnerFor(d, c)
        BY <2>4, <2>6, <4>1
      <4> HIDE DEF d
      <4>3. /\ current' \in [DirSet -> Calls \cup {None}]
            /\ promised' \in [Calls -> [DirSet -> PromiseSet \cup {None}]]
            /\ NextPromises
            /\ o \in Calls /\ GoodPromise(promised[o][d])'
            /\ \A e \in Calls \ {c} : promised'[e] = promised[e]
        BY <1>1, <2>6, <4>2, LoadManifestMade
      <4> QED BY <4>3 DEF d
    <3>2. CASE Meta \notin wanted
      <4>1. UNCHANGED <<current, promised>>
        BY <2>5, <3>2
      <4> QED BY <1>1, <3>2, <4>1 DEF NextPromises, SharedInv, PageTyped
    <3> QED BY <3>1, <3>2
  <2> DEFINE asked == [f \in Files |->
                        IF f = Meta /\ Meta \in wanted THEN Task("manifest", o, None, None)
                        ELSE IF f \in wanted THEN LookFor(f, None) ELSE None]
  <2>8. tasks' = [tasks EXCEPT ![c] = asked]
    BY <1>5, <2>4 DEF CoreKnown, WaitFor
  <2>9. None \in Version
    BY DEF Version
  <2>10. ASSUME NEW f \in Files
         PROVE  /\ asked[f] \in TaskSet \cup {None}
                /\ asked[f] # None =>
                      /\ asked[f] \in TaskSet
                      /\ \/ f = Meta /\ Meta \in wanted /\ asked[f].at = "manifest" /\ asked[f].owner = o
                         \/ asked[f].at = "fetch" /\ asked[f].label = None
                         \/ asked[f].at = "ok"
    <3>1. CASE f = Meta /\ Meta \in wanted
      <4>1. asked[f] = Task("manifest", o, None, None)
        BY <3>1
      <4> QED BY <2>7, <2>9, <3>1, <4>1, TaskMade
    <3>2. CASE f # Meta /\ f \in wanted
      <4>1. asked[f] = LookFor(f, None)
        BY <3>2
      <4> QED BY <1>1, <2>9, <4>1, LookForMade
    <3>3. CASE f \notin wanted
      BY <3>3
    <3> QED BY <3>1, <3>2, <3>3
  <2>11. asked \in [Files -> TaskSet \cup {None}]
    BY <2>10
  <2> HIDE DEF asked
  <2>12. /\ tasks' \in [Calls -> [Files -> TaskSet \cup {None}]]
         /\ tasks'[c] = asked /\ \A e \in Calls \ {c} : tasks'[e] = tasks[e]
    BY <1>1, <2>8, <2>11
  <2>13. ASSUME NEW f \in Files, tasks'[c][f] # None PROVE GoodTask(tasks[c][f], f)'
    <3>1. /\ tasks'[c][f] \in TaskSet
          /\ \/ f = Meta /\ Meta \in wanted /\ tasks'[c][f].at = "manifest" /\ tasks'[c][f].owner = o
             \/ tasks'[c][f].at = "fetch" /\ tasks'[c][f].label = None
             \/ tasks'[c][f].at = "ok"
      BY <2>10, <2>12, <2>13
    <3>2. CASE f = Meta /\ Meta \in wanted /\ tasks'[c][f].at = "manifest" /\ tasks'[c][f].owner = o
      BY <2>7, <3>1, <3>2 DEF GoodTask
    <3>3. CASE tasks'[c][f].at = "fetch" /\ tasks'[c][f].label = None
      BY <3>1, <3>3, ReachesNone DEF GoodTask
    <3>4. CASE tasks'[c][f].at = "ok"
      BY <3>1, <3>4 DEF GoodTask
    <3> QED BY <3>1, <3>2, <3>3, <3>4
  <2>14. NextTyped /\ NextTasks
    BY <1>1, <2>3, <2>7, <2>12, <2>13 DEF NextTyped, NextTasks
  <2>15. SharedInv' /\ Moves
    BY <1>1, <2>7, <2>14, SharedStays
  <2>16. CallInv(c)' /\ FailsFor(c) /\ OnlyCall(c)
    BY <2>1, <2>3, <2>7, <2>12, QuietCall DEF FailsFor, OnlyCall
  <2> QED BY <1>2, <2>15, <2>16, OthersStay
<1> QED BY <1>4, <1>5

(* A call that ends, or goes on to calculate. *)
LEMMA CallGoesOn ==
    ASSUME PageInv, NEW c \in Calls, NEW kind \in Kinds \cup {None},
           NEW stage \in {"page", "worker", "done", "failed", "gone"},
           calls' = [calls EXCEPT ![c] = Call(kind, {}, stage)],
           UNCHANGED <<published, store, current, promised>>,
           coreLoad' \in Calls \cup {None}, faults' \in Nat, faults' >= faults,
           tasks' = tasks \/ Drop(c),
           At(c, "core") => stage = "failed", FailsFor(c)
    PROVE  PageGoal
<1>1. calls \in [Calls -> CallSet] /\ store \in [Files -> Records \cup {None}]
  BY DEF PageInv, SharedInv, PageTyped
<1> DEFINE r == Call(kind, {}, stage)
<1>2. r \in CallSet /\ r.stage = stage
  <2>1. stage \in PageStages /\ {} \in SUBSET Files
    BY DEF PageStages
  <2> QED BY <2>1, CallMade
<1> HIDE DEF r
<1>3. calls' \in [Calls -> CallSet] /\ calls'[c] = r /\ \A e \in Calls \ {c} : calls'[e] = calls[e]
  BY <1>1, <1>2 DEF r
<1>4. CallInv(c)'
  BY <1>2, <1>3, QuietCall
<1>5. FreshFor(c) /\ FailsFor(c)
  BY <1>2, <1>3 DEF FreshFor
<1> QED BY <1>1, <1>3, <1>4, <1>5, CallMoves

LEMMA CoreFailsStep ==
    ASSUME PageInv, NEW c \in Calls, CoreFails(c)
    PROVE  PageGoal
<1>1. /\ calls' = [calls EXCEPT ![c] = Call(None, {}, "failed")] /\ Drop(c)
      /\ UNCHANGED <<published, store, current, promised, faults>>
      /\ coreLoad' \in Calls \cup {None} /\ faults \in Nat
  BY DEF CoreFails, Ends, PageInv, SharedInv, PageTyped
<1>2. FailsFor(c)
  <2> SUFFICES ASSUME calls[c].kind \in Refreshing PROVE faults > calls[c].faults
    BY DEF FailsFor
  <2>1. CASE At(c, "root") /\ promised[calls[c].root][Root] = Broken
    BY <2>1, PromiseStates DEF PageInv, CallInv, Rooted, DueListed, At
  <2>2. CASE At(c, "core") /\ Asked(c).at = "bad"
    <3>1. AskedTask(c, Order[calls[c].step])
      BY <2>2, Ordered DEF PageInv, CallInv, CoreAsked
    <3> QED BY <2>2, <3>1 DEF AskedTask, Asked
  <2> QED BY <2>1, <2>2 DEF CoreFails
<1>3. faults' \in Nat /\ faults' >= faults
  BY <1>1
<1> QED BY <1>1, <1>2, <1>3, CallGoesOn

LEMMA JoinedStep ==
    ASSUME PageInv, NEW c \in Calls, Joined(c)
    PROVE  PageGoal
<1>1. PICK stage : stage = calls[calls[c].root].stage
  OBVIOUS
<1>2. /\ calls' = [calls EXCEPT ![c] = Call(None, {}, stage)]
      /\ stage \in {"done", "failed", "gone"} /\ calls[c].stage = "join"
      /\ UNCHANGED <<published, store, current, promised, tasks, faults, coreLoad>>
      /\ coreLoad \in Calls \cup {None} /\ faults \in Nat
  BY <1>1 DEF Joined, Ends, Ended, At, syncVars, PageInv, SharedInv, PageTyped
<1>3. ~ At(c, "core") /\ FailsFor(c)
  BY <1>2 DEF At, FailsFor
<1>4. faults' \in Nat /\ faults' >= faults
  BY <1>2
<1> QED BY <1>2, <1>3, <1>4, CallGoesOn

LEMMA FilesKnownStep ==
    ASSUME PageInv, NEW c \in Calls, FilesKnown(c)
    PROVE  PageGoal
<1>1. /\ calls[c].stage = "files" /\ Drop(c) /\ calls[c].kind \in Kinds \cup {None}
      /\ UNCHANGED <<published, store, current, promised, coreLoad>>
      /\ coreLoad \in Calls \cup {None} /\ faults \in Nat /\ calls \in [Calls -> CallSet]
  BY DEF FilesKnown, At, PageInv, SharedInv, PageTyped, CallSet
<1>2. faults' = faults \/ faults' = faults + 1
  BY DEF FilesKnown
<1>3. ~ At(c, "core") /\ FailsFor(c) /\ faults' \in Nat /\ faults' >= faults
  BY <1>1, <1>2 DEF At, FailsFor
<1>4. \/ calls' = [calls EXCEPT ![c] = Call(None, {}, "done")]
      \/ calls' = [calls EXCEPT ![c] = Call(calls[c].kind, {}, "page")]
      \/ calls' = [calls EXCEPT ![c] = Call(calls[c].kind, {}, "worker")]
  BY <1>1 DEF FilesKnown, Ends, Calculates
<1>5. CASE calls' = [calls EXCEPT ![c] = Call(None, {}, "done")]
  BY <1>1, <1>3, <1>5, CallGoesOn
<1>6. PICK kind : kind = calls[c].kind
  OBVIOUS
<1>7. CASE calls' = [calls EXCEPT ![c] = Call(kind, {}, "page")]
  BY <1>1, <1>3, <1>6, <1>7, CallGoesOn
<1>8. CASE calls' = [calls EXCEPT ![c] = Call(kind, {}, "worker")]
  BY <1>1, <1>3, <1>6, <1>8, CallGoesOn
<1> QED BY <1>4, <1>5, <1>6, <1>7, <1>8

LEMMA FilesFailStep ==
    ASSUME PageInv, NEW c \in Calls, FilesFail(c)
    PROVE  PageGoal
<1>1. /\ calls' = [calls EXCEPT ![c] = Call(None, {}, "failed")] /\ Drop(c)
      /\ UNCHANGED <<published, store, current, promised, faults, coreLoad>>
      /\ coreLoad \in Calls \cup {None} /\ faults \in Nat /\ calls[c].stage = "files"
  BY DEF FilesFail, Ends, At, PageInv, SharedInv, PageTyped
<1>2. ~ At(c, "core") /\ FailsFor(c)
  BY <1>1 DEF At, FailsFor
<1>3. faults' \in Nat /\ faults' >= faults
  BY <1>1
<1> QED BY <1>1, <1>2, <1>3, CallGoesOn

LEMMA AnswerStep ==
    ASSUME PageInv, NEW c \in Calls, Answer(c)
    PROVE  PageGoal
<1>1. PICK stage : stage = IF modules[calls[c].stage] = "loaded" THEN "done" ELSE "failed"
  OBVIOUS
<1>2. /\ calls' = [calls EXCEPT ![c] = Call(None, {}, stage)]
      /\ stage \in {"done", "failed"} /\ calls[c].stage \in {"page", "worker"}
      /\ UNCHANGED <<published, store, current, promised, tasks, faults, coreLoad>>
      /\ coreLoad \in Calls \cup {None} /\ faults \in Nat
  BY <1>1 DEF Answer, Ends, syncVars, PageInv, SharedInv, PageTyped
<1>3. ~ At(c, "core") /\ FailsFor(c)
  BY <1>2 DEF At, FailsFor
<1>4. faults' \in Nat /\ faults' >= faults
  BY <1>2
<1> QED BY <1>2, <1>3, <1>4, CallGoesOn

(* Steps that no call takes. *)
LEMMA CallsStay ==
    ASSUME PageInv, SharedInv', Moves, UNCHANGED <<calls, tasks, promised>>
    PROVE  PageGoal
<1>1. \A c \in Calls : CallInv(c)'
  BY CallStays DEF PageInv
<1>2. \A c \in Calls : FreshFor(c) /\ FailsFor(c)
  BY DEF FreshFor, FailsFor, At
<1> QED BY <1>1, <1>2 DEF PageGoal, PageInv

LEMMA LoadModuleStep ==
    ASSUME PageInv, NEW place \in {"page", "worker"}, LoadModule(place)
    PROVE  PageGoal
<1>1. /\ UNCHANGED <<published, store, current, promised, tasks, calls, coreLoad>>
      /\ faults \in Nat /\ (faults' = faults \/ faults' = faults + 1)
  BY DEF LoadModule, PageInv, SharedInv, PageTyped
<1>2. faults' \in Nat /\ faults' >= faults
  BY <1>1
<1>3. NextTyped /\ NextPromises /\ NextTasks
  BY <1>1, <1>2 DEF NextTyped, NextPromises, NextTasks, PageInv, SharedInv, PageTyped
<1>4. SharedInv' /\ Moves
  BY <1>1, <1>3, SharedStays DEF PageInv
<1> QED BY <1>1, <1>4, CallsStay

LEMMA WorkerFailsStep ==
    ASSUME PageInv, WorkerFails
    PROVE  PageGoal
<1>1. /\ UNCHANGED <<published, store, current, promised, tasks, coreLoad>>
      /\ faults \in Nat /\ faults' = faults + 1 /\ calls \in [Calls -> CallSet]
      /\ calls' = [c \in Calls |-> IF At(c, "worker") THEN Call(None, {}, "failed") ELSE calls[c]]
  BY DEF WorkerFails, PageInv, SharedInv, PageTyped
<1>2. faults' \in Nat /\ faults' >= faults
  BY <1>1
<1> DEFINE r == Call(None, {}, "failed")
<1>3. r \in CallSet /\ r.stage = "failed"
  BY CallMade DEF PageStages
<1> HIDE DEF r
<1>4. /\ calls' \in [Calls -> CallSet]
      /\ \A c \in Calls : (At(c, "worker") /\ calls'[c] = r) \/ (~ At(c, "worker") /\ calls'[c] = calls[c])
  BY <1>1, <1>3 DEF r
<1>5. NextTyped /\ NextPromises /\ NextTasks
  BY <1>1, <1>2, <1>4 DEF NextTyped, NextPromises, NextTasks, PageInv, SharedInv, PageTyped
<1>6. SharedInv' /\ Moves
  BY <1>1, <1>5, SharedStays DEF PageInv
<1>7. ASSUME NEW c \in Calls PROVE CallInv(c)' /\ FreshFor(c) /\ FailsFor(c)
  <2>1. CASE At(c, "worker")
    <3>1. calls'[c].stage = "failed" /\ calls[c].stage = "worker"
      BY <1>3, <1>4, <2>1 DEF At
    <3> QED BY <3>1, QuietCall DEF FreshFor, FailsFor, At
  <2>2. CASE ~ At(c, "worker")
    <3>1. calls'[c] = calls[c]
      BY <1>4, <2>2
    <3>2. CallInv(c)'
      BY <1>1, <1>6, <3>1, CallStays DEF PageInv
    <3> QED BY <3>1, <3>2 DEF FreshFor, FailsFor, At
  <2> QED BY <2>1, <2>2
<1> QED BY <1>6, <1>7 DEF PageGoal, PageInv

LEMMA ReloadStep ==
    ASSUME PageInv, Reload
    PROVE  PageGoal
<1>1. /\ disk' = disk /\ manifests' = manifests /\ store' = store
      /\ current' = NoPromises /\ promised' = [c \in Calls |-> NoPromises]
      /\ tasks' = [c \in Calls |-> NoTasks] /\ coreLoad' = None
      /\ faults \in Nat /\ faults' = faults + 1 /\ calls \in [Calls -> CallSet]
      /\ calls' = [c \in Calls |-> IF At(c, "idle") \/ Ended(c) THEN calls[c] ELSE Call(None, {}, "gone")]
  BY DEF Reload, published, PageInv, SharedInv, PageTyped
<1> DEFINE r == Call(None, {}, "gone")
<1>2. r \in CallSet /\ r.stage = "gone"
  BY CallMade DEF PageStages
<1> HIDE DEF r
<1>3. /\ calls' \in [Calls -> CallSet]
      /\ \A c \in Calls : calls'[c] = r \/ ((At(c, "idle") \/ Ended(c)) /\ calls'[c] = calls[c])
  BY <1>1, <1>2 DEF r
<1>4. /\ \A c \in Calls, f \in Files : tasks'[c][f] = None
      /\ \A c \in Calls, d \in DirSet : promised'[c][d] = None
      /\ \A d \in DirSet : current'[d] = None
      /\ tasks' \in [Calls -> [Files -> TaskSet \cup {None}]]
      /\ promised' \in [Calls -> [DirSet -> PromiseSet \cup {None}]]
      /\ current' \in [DirSet -> Calls \cup {None}]
  BY <1>1 DEF NoTasks, NoPromises
<1>5. PageTyped'
  <2>1. PageTyped /\ faults' \in Nat
    BY <1>1 DEF PageInv, SharedInv
  <2> QED BY <1>1, <1>3, <1>4, <2>1 DEF PageTyped, PublishedTyped
<1>6. SharedInv'
  BY <1>1, <1>4, <1>5
     DEF PageInv, SharedInv, Honest, CoreThere, PromisesGood, CurrentGood, TasksGood
<1>7. ASSUME NEW c \in Calls PROVE CallInv(c)' /\ FreshFor(c) /\ FailsFor(c)
  <2>1. calls'[c].stage \in {"gone", "idle", "done", "failed"}
    BY <1>2, <1>3 DEF At, Ended
  <2>2. CallInv(c)'
    BY <1>4, <2>1, QuietCall, EarlyCall
  <2>3. calls[c].stage \in {"root", "core"} => calls'[c].stage = "gone"
    BY <1>2, <1>3 DEF At, Ended
  <2> QED BY <2>2, <2>3 DEF FreshFor, FailsFor, At
<1> QED BY <1>6, <1>7 DEF PageGoal, PageInv

-----------------------------------------------------------------------------
(* The answers of the mirror.                                              *)

(* A call's request for a manifest comes to something. *)
LEMMA ManifestStep ==
    ASSUME PageInv, NEW c \in Calls, NEW d \in DirSet, NEW p \in PromiseSet,
           promised[c][d] = Pending, promised' = [promised EXCEPT ![c][d] = p],
           \A f \in Files : Reaches(disk[f], p.files[f]),
           UNCHANGED <<published, store, current, tasks, calls, core, coreLoad>>,
           faults' \in Nat, faults' >= faults,
           d = Root => \/ p.state = "listed" /\ \A f \in CoreSet : Reaches(p.files[f], RootList[f])
                       \/ p.state = "broken" /\ faults' > faults
    PROVE  PageGoal
<1>1. /\ promised \in [Calls -> [DirSet -> PromiseSet \cup {None}]]
      /\ calls \in [Calls -> CallSet] /\ faults \in Nat /\ Root \in DirSet
      /\ disk' = disk /\ RootList' = RootList /\ RootList \in Contents
  BY Sequences, ListingTyped
     DEF PageInv, SharedInv, PageTyped, PublishedTyped, published, RootList
<1>2. /\ promised' \in [Calls -> [DirSet -> PromiseSet \cup {None}]]
      /\ promised'[c][d] = p
      /\ \A e \in Calls \ {c} : promised'[e] = promised[e]
      /\ \A x \in DirSet \ {d} : promised'[c][x] = promised[c][x]
  BY <1>1
<1>3. GoodPromise(promised[c][d])'
  BY <1>1, <1>2 DEF GoodPromise
<1>4. NextTyped /\ NextPromises /\ NextTasks
  BY <1>2, <1>3 DEF NextTyped, NextPromises, NextTasks, PageInv, SharedInv, PageTyped
<1>5. SharedInv' /\ Moves
  BY <1>4, SharedStays DEF PageInv
<1>6. DueListed(c)'
  <2>1. CASE d # Root
    BY <1>1, <1>2, <1>5, <2>1, DueStays DEF PageInv
  <2>2. CASE d = Root
    <3> SUFFICES ASSUME calls[c].stage \in {"root", "core"}
                 PROVE  /\ \A f \in CoreSet : Reaches(RootList[f], calls[c].due[f])
                        /\ calls[c].kind \in Refreshing =>
                              /\ p.state = "listed" =>
                                    \A f \in CoreSet : Reaches(p.files[f], calls[c].due[f])
                              /\ p.state = "broken" => faults' > calls[c].faults
                              /\ At(c, "core") => p.state = "listed"
      BY <1>1, <1>2, <2>2 DEF DueListed, At
    <3>1. /\ \A f \in CoreSet : Reaches(RootList[f], calls[c].due[f])
          /\ calls[c].kind \in Refreshing /\ At(c, "core") => promised[c][Root].state = "listed"
          /\ calls[c].faults <= faults
      BY DEF PageInv, CallInv, DueListed, Rooted
    <3>2. ~ (calls[c].kind \in Refreshing /\ At(c, "core"))
      BY <2>2, <3>1, PromiseStates
    <3>3. /\ calls[c].faults \in Nat
          /\ \A f \in CoreSet : /\ p.files[f] \in Version /\ RootList[f] \in Version
                                /\ calls[c].due[f] \in Version
      <4>1. calls[c].due \in Contents /\ p.files \in Contents /\ calls[c].faults \in Nat
        BY <1>1 DEF CallSet, PromiseSet
      <4> QED BY <1>1, <4>1, ContentsAt, FileSets
    <3>4. p.state = "listed" => \A f \in CoreSet : Reaches(p.files[f], calls[c].due[f])
      <4> SUFFICES ASSUME p.state = "listed", NEW f \in CoreSet PROVE Reaches(p.files[f], calls[c].due[f])
        OBVIOUS
      <4>1. Reaches(p.files[f], RootList[f])
        BY <2>2
      <4> QED BY <3>1, <3>3, <4>1, ReachesOn
    <3>5. p.state = "broken" => faults' > calls[c].faults
      BY <1>1, <2>2, <3>1, <3>3
    <3> QED BY <3>1, <3>2, <3>4, <3>5
  <2> QED BY <2>1, <2>2
<1>7. CallInv(c)'
  BY <1>5, <1>6, AskedStays DEF PageInv, CallInv
<1>8. OnlyCall(c) /\ FreshFor(c) /\ FailsFor(c)
  BY <1>2 DEF OnlyCall, FreshFor, FailsFor, At
<1> QED BY <1>5, <1>7, <1>8, OthersStay

LEMMA ReceiveManifestStep ==
    ASSUME PageInv, NEW c \in Calls, NEW d \in DirSet, ReceiveManifest(c, d), UNCHANGED pageVars
    PROVE  PageGoal
<1> DEFINE p == Promise("listed", Listing(manifests[d]))
<1>1. /\ manifests \in [DirSet -> Contents \cup {None}] /\ faults \in Nat
      /\ \A f \in Files : Reaches(disk[f], Listing(manifests[d])[f])
  BY DEF PageInv, SharedInv, PageTyped, PublishedTyped, Honest
<1>2. Listing(manifests[d]) \in Contents
  BY <1>1, ListingTyped
<1>3. p \in PromiseSet /\ p.state = "listed" /\ p.files = Listing(manifests[d])
  BY <1>2 DEF Promise, PromiseSet
<1>4. /\ promised[c][d] = Pending /\ promised' = [promised EXCEPT ![c][d] = p]
      /\ UNCHANGED <<published, store, current, tasks, calls, core, coreLoad>> /\ faults' = faults
  BY DEF ReceiveManifest, pageVars
<1> HIDE DEF p
<1>5. d = Root => \A f \in CoreSet : Reaches(p.files[f], RootList[f])
  <2>1. d = Root => p.files = RootList /\ RootList \in Contents
    BY <1>2, <1>3 DEF RootList
  <2> QED BY <2>1, ContentsAt, ReachesSelf, FileSets
<1>6. faults' \in Nat /\ faults' >= faults
  BY <1>1, <1>4
<1> QED BY <1>1, <1>3, <1>4, <1>5, <1>6, ManifestStep

LEMMA LoseManifestStep ==
    ASSUME PageInv, NEW c \in Calls, NEW d \in DirSet, LoseManifest(c, d), UNCHANGED pageVars
    PROVE  PageGoal
<1>1. /\ promised[c][d] = Pending /\ promised' = [promised EXCEPT ![c][d] = Broken]
      /\ UNCHANGED <<published, store, current, tasks, calls, core, coreLoad>>
      /\ faults \in Nat /\ faults' = faults + 1
  BY DEF LoseManifest, pageVars, PageInv, SharedInv, PageTyped
<1>2. Broken \in PromiseSet /\ Broken.state = "broken" /\ \A f \in Files : Reaches(disk[f], Broken.files[f])
  BY NewPromises, PromiseStates, ReachesNone
<1>3. faults' \in Nat /\ faults' >= faults /\ faults' > faults
  BY <1>1
<1> QED BY <1>1, <1>2, <1>3, ManifestStep

(* A file that a call asked for comes one step further. *)
LEMMA TaskMoves ==
    ASSUME PageInv, NEW c \in Calls, NEW f \in Files, NEW t \in TaskSet,
           tasks[c][f] # None, tasks[c][f].at # "ok",
           tasks' = [tasks EXCEPT ![c][f] = t],
           UNCHANGED <<published, current, promised, calls, core, coreLoad>>,
           store' \in [Files -> Records \cup {None}],
           faults' \in Nat, faults' >= faults,
           GoodTask(tasks[c][f], f)',
           At(c, "core") /\ AskedTask(c, f) => AskedTask(c, f)'
    PROVE  PageGoal
<1>1. /\ tasks \in [Calls -> [Files -> TaskSet \cup {None}]] /\ calls \in [Calls -> CallSet]
      /\ SharedInv /\ CallInv(c)
  BY DEF PageInv, SharedInv, PageTyped
<1>2. /\ tasks' \in [Calls -> [Files -> TaskSet \cup {None}]]
      /\ \A g \in Files \ {f} : tasks'[c][g] = tasks[c][g]
      /\ \A e \in Calls \ {c} : tasks'[e] = tasks[e]
  BY <1>1
<1>3. NextTyped /\ NextPromises /\ NextTasks
  BY <1>2 DEF NextTyped, NextPromises, NextTasks, PageInv, SharedInv, PageTyped
<1>4. SharedInv' /\ Moves
  BY <1>3, SharedStays DEF PageInv
<1>5. NothingElse(c)'
  BY <1>1, <1>2 DEF CallInv, NothingElse, At
<1>6. Rooted(c)'
  <2> SUFFICES ASSUME calls[c].stage \in {"root", "core"} PROVE Rooted(c)'
    BY DEF Rooted
  <2>1. /\ calls[c].root \in Calls /\ GoodPromise(promised[calls[c].root][Root])
        /\ calls[c].kind \in Refreshing => calls[c].root = c
        /\ calls[c].kind \notin Refreshing => calls[c].due = NoFiles
        /\ calls[c].faults <= faults /\ calls[c].faults \in Nat /\ faults \in Nat
    BY <1>1 DEF CallInv, Rooted, CallSet, SharedInv, PageTyped
  <2>2. GoodPromise(promised[calls[c].root][Root])'
    BY <2>1 DEF GoodPromise, published
  <2>3. calls[c].faults <= faults'
    BY <2>1
  <2> QED BY <2>1, <2>2, <2>3 DEF Rooted
<1>7. DueListed(c)'
  BY <1>1, <1>4, DueStays
<1>8. CoreAsked(c)'
  <2> SUFFICES ASSUME At(c, "core")
               PROVE  /\ calls[c].step \in 1 .. Len(Order)
                      /\ \A j \in 1 .. calls[c].step : j <= Len(Core) \/ j = calls[c].step =>
                            /\ AskedTask(c, Order[j])'
                            /\ Order[j] = Order[calls[c].step] \/ tasks'[c][Order[j]].at = "ok"
    BY DEF CoreAsked, At
  <2>1. /\ calls[c].step \in 1 .. Len(Order)
        /\ \A j \in 1 .. calls[c].step : j <= Len(Core) \/ j = calls[c].step =>
              /\ AskedTask(c, Order[j])
              /\ Order[j] = Order[calls[c].step] \/ tasks[c][Order[j]].at = "ok"
    BY <1>1 DEF CallInv, CoreAsked
  <2> SUFFICES ASSUME NEW j \in 1 .. calls[c].step, j <= Len(Core) \/ j = calls[c].step
               PROVE  /\ AskedTask(c, Order[j])'
                      /\ Order[j] = Order[calls[c].step] \/ tasks'[c][Order[j]].at = "ok"
    BY <2>1
  <2>2. /\ AskedTask(c, Order[j])
        /\ Order[j] = Order[calls[c].step] \/ tasks[c][Order[j]].at = "ok"
    BY <2>1
  <2>3. Order[j] \in Files
    BY <2>1, Ordered
  <2>4. CASE Order[j] = f
    BY <2>2, <2>4
  <2>5. CASE Order[j] # f
    <3> DEFINE g == Order[j]
    <3>1. g \in Files \ {f} /\ AskedTask(c, g) /\ tasks'[c][g] = tasks[c][g]
      BY <1>2, <2>2, <2>3, <2>5
    <3>2. g = Order[calls[c].step] \/ tasks[c][g].at = "ok"
      BY <2>2
    <3> HIDE DEF g
    <3>3. GoodTask(tasks[c][g], g)'
      BY <1>1, <1>4, <3>1, TaskStays DEF AskedTask
    <3>4. calls[c].faults \in Nat /\ faults \in Nat
      BY <1>1 DEF CallSet, SharedInv, PageTyped
    <3>5. faults > calls[c].faults => faults' > calls[c].faults
      BY <3>4
    <3>6. AskedTask(c, g)'
      BY <3>1, <3>3, <3>5 DEF AskedTask
    <3> QED BY <3>1, <3>2, <3>6 DEF g
  <2> QED BY <2>4, <2>5
<1>9. CallInv(c)'
  BY <1>5, <1>6, <1>7, <1>8 DEF CallInv
<1>10. OnlyCall(c) /\ FreshFor(c) /\ FailsFor(c)
  BY <1>2 DEF OnlyCall, FreshFor, FailsFor, At
<1> QED BY <1>4, <1>9, <1>10, OthersStay

LEMMA LearnLabelStep ==
    ASSUME PageInv, NEW c \in Calls, NEW f \in Files, LearnLabel(c, f), UNCHANGED pageVars
    PROVE  PageGoal
<1> DEFINE owner == tasks[c][f].owner
           d == DirOf[f]
           label == promised[owner][d].files[f]
           t == IF promised[owner][d] = Broken THEN Task("bad", None, None, None) ELSE LookFor(f, label)
<1>1. /\ tasks[c][f] # None /\ tasks[c][f].at = "manifest"
      /\ tasks' = [tasks EXCEPT ![c][f] = t]
      /\ UNCHANGED <<store, current, promised, faults, published, calls, core, coreLoad>>
      /\ tasks \in [Calls -> [Files -> TaskSet \cup {None}]] /\ store \in [Files -> Records \cup {None}]
      /\ faults \in Nat /\ SharedInv
  BY DEF LearnLabel, Listed, pageVars, PageInv, SharedInv, PageTyped
<1>2. GoodPromise(promised[owner][d])
  BY <1>1 DEF PageInv, SharedInv, TasksGood, GoodTask
<1>3. label \in Version /\ Reaches(disk[f], label)
  <2>1. promised[owner][d].files \in Contents /\ Reaches(disk[f], label)
    BY <1>2 DEF GoodPromise, PromiseSet
  <2> QED BY <2>1, ContentsAt
<1>4. t \in TaskSet /\ (t.at = "bad" \/ t.at = "ok" \/ (t.at = "fetch" /\ t.label = label))
  <2>1. CASE promised[owner][d] = Broken
    <3>1. t = Task("bad", None, None, None) /\ None \in Version
      BY <2>1 DEF Version
    <3> HIDE DEF t
    <3> QED BY <3>1, TaskMade
  <2>2. CASE promised[owner][d] # Broken
    <3>1. t = LookFor(f, label)
      BY <2>2
    <3> HIDE DEF t, label
    <3> QED BY <1>1, <1>3, <3>1, LookForMade
  <2> QED BY <2>1, <2>2
<1> HIDE DEF t, label, owner, d
<1>5. tasks'[c][f] = t
  BY <1>1
<1>6. GoodTask(tasks[c][f], f)'
  <2>1. disk' = disk
    BY <1>1 DEF published
  <2> QED BY <1>3, <1>4, <1>5, <2>1 DEF GoodTask
<1>7. ~ AskedTask(c, f)
  BY <1>1 DEF AskedTask
<1>8. faults' \in Nat /\ faults' >= faults /\ tasks[c][f].at # "ok"
  BY <1>1
<1> QED BY <1>1, <1>4, <1>6, <1>7, <1>8, TaskMoves

LEMMA PutStep ==
    ASSUME PageInv, NEW c \in Calls, NEW f \in Files, Put(c, f), UNCHANGED pageVars
    PROVE  PageGoal
<1> DEFINE old == tasks[c][f]
           t == Task("ok", None, None, old.version)
<1>1. /\ old # None /\ old.at = "put"
      /\ store' = [store EXCEPT ![f] = [version |-> old.version, label |-> old.label]]
      /\ tasks' = [tasks EXCEPT ![c][f] = t]
      /\ UNCHANGED <<current, promised, faults, published, calls, core, coreLoad>>
      /\ tasks \in [Calls -> [Files -> TaskSet \cup {None}]] /\ store \in [Files -> Records \cup {None}]
      /\ faults \in Nat /\ calls \in [Calls -> CallSet]
  BY DEF Put, pageVars, PageInv, SharedInv, PageTyped
<1>2. old \in TaskSet /\ Reaches(old.version, old.label)
  BY <1>1 DEF PageInv, SharedInv, TasksGood, GoodTask
<1>3. old.version \in Version /\ old.label \in Version /\ None \in Version
  BY <1>2 DEF TaskSet, Version
<1>4. t \in TaskSet /\ t.at = "ok" /\ t.version = old.version
  <2> QED BY <1>3, TaskOk
<1>5. store' \in [Files -> Records \cup {None}]
  <2>1. [version |-> old.version, label |-> old.label] \in Records
    BY <1>2, <1>3 DEF Records
  <2> QED BY <1>1, <2>1
<1> HIDE DEF t
<1>6. tasks'[c][f] = t
  BY <1>1
<1>7. GoodTask(tasks[c][f], f)'
  BY <1>4, <1>6 DEF GoodTask
<1>8. ASSUME AskedTask(c, f) PROVE AskedTask(c, f)'
  <2>1. f \in CoreSet => Reaches(old.label, calls[c].due[f])
    BY <1>1, <1>8 DEF AskedTask
  <2>2. calls[c].due[f] \in Version
    BY <1>1, ContentsAt DEF CallSet
  <2>3. f \in CoreSet => Reaches(old.version, calls[c].due[f])
    BY <1>2, <1>3, <2>1, <2>2, ReachesOn
  <2> QED BY <1>1, <1>4, <1>6, <1>7, <2>3 DEF AskedTask
<1>9. faults' \in Nat /\ faults' >= faults /\ old.at # "ok"
  BY <1>1
<1> QED BY <1>1, <1>4, <1>5, <1>7, <1>8, <1>9, TaskMoves

LEMMA LoseFileStep ==
    ASSUME PageInv, NEW c \in Calls, NEW f \in Files, LoseFile(c, f), UNCHANGED pageVars
    PROVE  PageGoal
<1> DEFINE t == Task("bad", None, None, None)
<1>1. /\ tasks[c][f] # None /\ tasks[c][f].at = "fetch"
      /\ tasks' = [tasks EXCEPT ![c][f] = t]
      /\ UNCHANGED <<store, current, promised, published, calls, core, coreLoad>>
      /\ tasks \in [Calls -> [Files -> TaskSet \cup {None}]] /\ store \in [Files -> Records \cup {None}]
      /\ faults \in Nat /\ faults' = faults + 1 /\ calls \in [Calls -> CallSet]
  BY DEF LoseFile, pageVars, PageInv, SharedInv, PageTyped
<1>2. t \in TaskSet /\ t.at = "bad"
  <2>1. None \in Version
    BY DEF Version
  <2> QED BY <2>1, TaskMade
<1> HIDE DEF t
<1>3. tasks'[c][f] = t
  BY <1>1, <1>2
<1>4. GoodTask(tasks[c][f], f)'
  BY <1>2, <1>3 DEF GoodTask
<1>5. faults' \in Nat /\ faults' >= faults /\ tasks[c][f].at # "ok"
  BY <1>1
<1>6. ASSUME At(c, "core") PROVE AskedTask(c, f)'
  <2>1. calls[c].faults <= faults /\ calls[c].faults \in Nat
    BY <1>1, <1>6 DEF PageInv, CallInv, Rooted, At, CallSet
  <2>2. faults' > calls[c].faults
    BY <1>1, <2>1
  <2> QED BY <1>1, <1>2, <1>3, <1>4, <2>2 DEF AskedTask
<1> QED BY <1>1, <1>2, <1>4, <1>5, <1>6, TaskMoves

(* The mirror lacks the detail of an event: the list of events is asked     *)
(* for.  That is not so while a call waits for the main files.              *)
LEMMA FallbackStep ==
    ASSUME PageInv, NEW c \in Calls, NEW f \in DetailSet, NEW other \in CoreSet,
           tasks[c][f] # None,
           tasks' = [tasks EXCEPT ![c][f] = Task("ok", None, None, None),
                                  ![c][other] = WaitFor(DirOf[other], c)],
           LoadManifest(DirOf[other], c),
           UNCHANGED <<store, faults, published, calls, core, coreLoad>>
    PROVE  PageGoal
<1>1. /\ tasks \in [Calls -> [Files -> TaskSet \cup {None}]] /\ store \in [Files -> Records \cup {None}]
      /\ faults \in Nat /\ calls \in [Calls -> CallSet] /\ SharedInv /\ disk' = disk
      /\ f \in Files /\ other \in Files /\ other # f
  BY FileSets DEF PageInv, SharedInv, PageTyped, published
<1>2. calls[c].stage \in {"files", "page", "worker", "done", "failed", "gone"}
  <2>1. calls[c] \in CallSet /\ f \in Files \ (CoreSet \cup RepairSet)
    BY <1>1, FileSets
  <2>2. calls[c].stage \in PageStages
    BY <2>1 DEF CallSet
  <2> QED BY <2>1, <2>2 DEF PageInv, CallInv, NothingElse, At, PageStages
<1> DEFINE d == DirOf[other]
<1>3. PICK o : o = OwnerFor(d, c)
  OBVIOUS
<1>4. d \in DirSet /\ LoadManifest(d, c)
  BY <1>1, FilesAssumption
<1> DEFINE t == Task("manifest", o, None, None)
           s == Task("ok", None, None, None)
<1>5. tasks' = [tasks EXCEPT ![c][f] = s, ![c][other] = t]
  BY <1>3 DEF WaitFor
<1> HIDE DEF d
<1>6. /\ current' \in [DirSet -> Calls \cup {None}]
      /\ promised' \in [Calls -> [DirSet -> PromiseSet \cup {None}]]
      /\ NextPromises
      /\ o \in Calls /\ GoodPromise(promised[o][d])'
      /\ \A e \in Calls \ {c} : promised'[e] = promised[e]
  BY <1>1, <1>3, <1>4, LoadManifestMade
<1>7. /\ t \in TaskSet /\ t.at = "manifest" /\ t.owner = o
      /\ s \in TaskSet /\ s.at = "ok"
  <2>1. None \in Version
    BY DEF Version
  <2> QED BY <1>6, <2>1, TaskWait, TaskOk
<1> HIDE DEF t, s
<1>8. /\ tasks' \in [Calls -> [Files -> TaskSet \cup {None}]]
      /\ tasks'[c][f] = s /\ tasks'[c][other] = t
      /\ \A g \in Files \ {f, other} : tasks'[c][g] = tasks[c][g]
      /\ \A e \in Calls \ {c} : tasks'[e] = tasks[e]
  BY <1>1, <1>5, <1>7
<1>9. GoodTask(tasks[c][f], f)' /\ GoodTask(tasks[c][other], other)'
  <2>1. GoodTask(tasks[c][f], f)'
    BY <1>7, <1>8 DEF GoodTask
  <2>2. GoodTask(tasks[c][other], other)'
    BY <1>6, <1>7, <1>8 DEF GoodTask, d
  <2> QED BY <2>1, <2>2
<1>10. NextTyped /\ NextTasks
  <2>1. NextTyped
    BY <1>1, <1>6, <1>8 DEF NextTyped, SharedInv, PageTyped
  <2>2. \A g \in Files : tasks'[c][g] = tasks[c][g] \/ GoodTask(tasks[c][g], g)'
    BY <1>8, <1>9
  <2>3. NextTasks
    BY <1>8, <2>2 DEF NextTasks
  <2> QED BY <2>1, <2>3
<1>11. SharedInv' /\ Moves
  BY <1>1, <1>6, <1>10, SharedStays
<1>12. CallInv(c)'
  BY <1>2, QuietCall
<1>13. OnlyCall(c) /\ FreshFor(c) /\ FailsFor(c)
  BY <1>6, <1>8 DEF OnlyCall, FreshFor, FailsFor, At
<1> QED BY <1>11, <1>12, <1>13, OthersStay

LEMMA ReceiveStep ==
    ASSUME PageInv, NEW c \in Calls, NEW f \in Files, Receive(c, f), UNCHANGED pageVars
    PROVE  PageGoal
<1> DEFINE old == tasks[c][f]
           other == IF f \in DetailSet THEN Fallback[f] ELSE None
<1>1. /\ old # None /\ old.at = "fetch"
      /\ UNCHANGED <<store, faults, published, calls, core, coreLoad>>
      /\ tasks \in [Calls -> [Files -> TaskSet \cup {None}]] /\ store \in [Files -> Records \cup {None}]
      /\ faults \in Nat /\ calls \in [Calls -> CallSet] /\ disk \in Contents
  BY DEF Receive, pageVars, PageInv, SharedInv, PageTyped, PublishedTyped
<1>2. old \in TaskSet /\ Reaches(disk[f], old.label)
  BY <1>1 DEF PageInv, SharedInv, TasksGood, GoodTask
<1>3. old.label \in Version /\ disk[f] \in Version /\ None \in Version /\ disk' = disk
  BY <1>1, <1>2, ContentsAt DEF TaskSet, Version, published
<1>4. faults' \in Nat /\ faults' >= faults /\ old.at # "ok"
  BY <1>1
<1>5. CASE disk[f] # None
  <2> DEFINE t == Task("put", None, old.label, disk[f])
  <2>1. tasks' = [tasks EXCEPT ![c][f] = t] /\ UNCHANGED <<current, promised>>
    BY <1>5 DEF Receive
  <2>2. t \in TaskSet /\ t.at = "put" /\ t.label = old.label /\ t.version = disk[f]
    <3> QED BY <1>3, TaskPut
  <2> HIDE DEF t
  <2>3. tasks'[c][f] = t
    BY <1>1, <2>1
  <2>4. GoodTask(tasks[c][f], f)'
    BY <1>2, <1>3, <2>2, <2>3 DEF GoodTask
  <2>5. AskedTask(c, f) => AskedTask(c, f)'
    BY <1>1, <2>2, <2>3, <2>4 DEF AskedTask
  <2> QED BY <1>1, <1>4, <2>1, <2>2, <2>4, <2>5, TaskMoves
<1>6. CASE disk[f] = None /\ other # None
  <2>1. f \in DetailSet /\ other \in CoreSet
    BY <1>6, SyncAssumption
  <2>2. /\ tasks' = [tasks EXCEPT ![c][f] = Task("ok", None, None, None),
                                  ![c][other] = WaitFor(DirOf[other], c)]
        /\ LoadManifest(DirOf[other], c)
    BY <1>6 DEF Receive
  <2> HIDE DEF other
  <2> QED BY <1>1, <2>1, <2>2, FallbackStep
<1>7. CASE disk[f] = None /\ other = None
  <2> DEFINE at == IF f \in RepairSet THEN "ok" ELSE "bad"
             t == Task(at, None, None, None)
  <2>1. tasks' = [tasks EXCEPT ![c][f] = t] /\ UNCHANGED <<current, promised>>
    BY <1>7 DEF Receive
  <2>2. t \in TaskSet /\ t.at = at
    <3> QED BY <1>3, TaskOk, TaskBad
  <2> HIDE DEF t
  <2>3. tasks'[c][f] = t
    BY <1>1, <2>1
  <2>4. GoodTask(tasks[c][f], f)'
    BY <2>2, <2>3 DEF GoodTask
  <2>5. f \notin CoreSet
    BY <1>7 DEF PageInv, SharedInv, CoreThere
  <2>6. ASSUME At(c, "core") PROVE AskedTask(c, f)'
    <3>1. f \in RepairSet
      BY <1>1, <2>5, <2>6 DEF PageInv, CallInv, NothingElse
    <3> QED BY <2>2, <2>3, <2>4, <2>5, <3>1 DEF AskedTask
  <2> QED BY <1>1, <1>4, <2>1, <2>2, <2>4, <2>6, TaskMoves
<1> QED BY <1>5, <1>6, <1>7

-----------------------------------------------------------------------------
(* A page beside a mirror that keeps its promise.                          *)

MirrorMoves == (PutFiles \/ List) /\ UNCHANGED <<syncVars, pageVars>>

LEMMA MirrorMovesStep ==
    ASSUME PageInv, MirrorMoves
    PROVE  PageGoal
<1>1. /\ store' = store /\ current' = current /\ promised' = promised /\ tasks' = tasks
      /\ faults' = faults /\ calls' = calls /\ coreLoad' = coreLoad
      /\ disk \in Contents /\ manifests \in [DirSet -> Contents \cup {None}] /\ faults \in Nat
  BY DEF MirrorMoves, syncVars, pageVars, PageInv, SharedInv, PageTyped, PublishedTyped
<1>2. /\ disk' \in Contents /\ manifests' \in [DirSet -> Contents \cup {None}]
      /\ \A f \in Files : Reaches(disk'[f], disk[f])
  BY <1>1, ContentsAt, ReachesSelf DEF MirrorMoves, PutFiles, List
<1>3. Honest'
  <2> SUFFICES ASSUME NEW d \in DirSet, NEW f \in Files
               PROVE  Reaches(disk'[f], Listing(manifests'[d])[f])
    BY DEF Honest
  <2>1. CASE PutFiles
    <3>1. manifests' = manifests /\ Reaches(disk[f], Listing(manifests[d])[f])
      BY <2>1 DEF PutFiles, PageInv, SharedInv, Honest
    <3>2. Listing(manifests[d])[f] \in Version
      BY <1>1, ListingTyped
    <3> QED BY <1>1, <1>2, <3>1, <3>2, DiskOn
  <2>2. CASE List
    BY <2>2 DEF List
  <2> QED BY <2>1, <2>2 DEF MirrorMoves
<1>4. Moves
  <2>1. \A f \in CoreSet : RootList[f] \in Version /\ RootList'[f] \in Version
    BY <1>1, <1>2, ListingTyped, FileSets, Sequences DEF RootList
  <2>2. \A f \in CoreSet : Reaches(RootList'[f], RootList[f])
    <3>1. CASE PutFiles
      <4>1. RootList' = RootList
        BY <3>1 DEF PutFiles, RootList
      <4> QED BY <2>1, <4>1, ReachesSelf
    <3>2. CASE List
      BY <3>2 DEF List, RootList
    <3> QED BY <3>1, <3>2 DEF MirrorMoves
  <2>3. \A c \in Calls, d \in DirSet : GoodPromise(promised[c][d]) => GoodPromise(promised[c][d])'
    BY <1>1, <1>2, PromiseStays
  <2> QED BY <1>1, <1>2, <2>1, <2>2, <2>3 DEF Moves
<1>5. PageTyped'
  BY <1>1, <1>2 DEF PageInv, SharedInv, PageTyped, PublishedTyped
<1>6. CoreThere'
  BY <1>2, FileSets DEF PageInv, SharedInv, CoreThere, Reaches
<1>7. PromisesGood'
  BY <1>1, <1>4 DEF PageInv, SharedInv, PromisesGood, Moves
<1>8. CurrentGood'
  <2> SUFFICES ASSUME NEW d \in DirSet, current[d] # None
               PROVE  GoodPromise(promised[current[d]][d])'
    BY <1>1 DEF CurrentGood
  <2>1. current[d] \in Calls /\ GoodPromise(promised[current[d]][d])
    BY DEF PageInv, SharedInv, CurrentGood, PageTyped
  <2>2. PICK o \in Calls : o = current[d]
    BY <2>1
  <2>3. GoodPromise(promised[o][d])'
    BY <1>4, <2>1, <2>2 DEF Moves
  <2> QED BY <1>1, <2>2, <2>3
<1>9. TasksGood'
  <2> SUFFICES ASSUME NEW c \in Calls, NEW f \in Files, tasks'[c][f] # None
               PROVE  GoodTask(tasks[c][f], f)'
    BY DEF TasksGood
  <2> QED BY <1>1, <1>4, TaskStays DEF PageInv, SharedInv, TasksGood
<1>10. SharedInv'
  BY <1>3, <1>5, <1>6, <1>7, <1>8, <1>9 DEF SharedInv
<1> QED BY <1>1, <1>4, <1>10, CallsStay

LEMMA PageStep ==
    ASSUME PageInv, PageNext \/ MirrorMoves
    PROVE  PageGoal
<1>1. ASSUME NEW c \in Calls, CallStep(c) PROVE PageGoal
  BY <1>1, ClearStoreStep, ForgetStep, RootKnownStep, NextFileStep, CoreKnownStep, CoreFailsStep,
     JoinedStep, FilesKnownStep, FilesFailStep, AnswerStep DEF CallStep
<1>2. ASSUME NEW c \in Calls, Requests(c) PROVE PageGoal
  BY <1>2, ReceiveManifestStep, LearnLabelStep, ReceiveStep, PutStep DEF Requests, SyncStep
<1>3. ASSUME NEW c \in Calls, SyncFails(c) /\ UNCHANGED pageVars PROVE PageGoal
  BY <1>3, LoseManifestStep, LoseFileStep DEF SyncFails
<1> QED BY <1>1, <1>2, <1>3, BeginStep, LoadModuleStep, WorkerFailsStep, ReloadStep, MirrorMovesStep
        DEF PageNext

LEMMA PageStutters ==
    ASSUME PageInv, UNCHANGED vars
    PROVE  PageGoal
<1>1. /\ UNCHANGED published /\ UNCHANGED <<calls, tasks, promised>>
      /\ store' = store /\ current' = current /\ faults' = faults /\ coreLoad' = coreLoad
      /\ faults \in Nat
  BY DEF vars, syncVars, pageVars, PageInv, SharedInv, PageTyped
<1>2. NextTyped /\ NextPromises /\ NextTasks
  BY <1>1 DEF NextTyped, NextPromises, NextTasks, PageInv, SharedInv, PageTyped
<1>3. SharedInv' /\ Moves
  BY <1>1, <1>2, SharedStays DEF PageInv
<1> QED BY <1>1, <1>3, CallsStay

-----------------------------------------------------------------------------
(* Beginnings.                                                             *)

LEMMA PageStarts ==
    ASSUME PublishedTyped, Honest, CoreThere, InitPage,
           NEW records \in [Files -> Records \cup {None}], InitSyncWith(records)
    PROVE  PageInv
<1>1. /\ store = records /\ current = NoPromises /\ promised = [c \in Calls |-> NoPromises]
      /\ tasks = [c \in Calls |-> NoTasks] /\ faults = 0
      /\ calls = [c \in Calls |-> NoCall] /\ coreLoad = None
  BY DEF InitSyncWith, InitPage
<1>2. NoCall \in CallSet /\ NoCall.stage = "idle"
  <2>1. None \in Kinds \cup {None} /\ {} \in SUBSET Files /\ "idle" \in PageStages
    BY DEF PageStages
  <2> QED BY <2>1, CallMade DEF NoCall
<1>3. /\ \A c \in Calls, f \in Files : tasks[c][f] = None
      /\ \A c \in Calls, d \in DirSet : promised[c][d] = None
      /\ \A d \in DirSet : current[d] = None
      /\ tasks \in [Calls -> [Files -> TaskSet \cup {None}]]
      /\ promised \in [Calls -> [DirSet -> PromiseSet \cup {None}]]
      /\ current \in [DirSet -> Calls \cup {None}]
  BY <1>1 DEF NoTasks, NoPromises
<1>4. SharedInv
  BY <1>1, <1>2, <1>3 DEF SharedInv, PageTyped, PromisesGood, CurrentGood, TasksGood
<1>5. ASSUME NEW c \in Calls PROVE CallInv(c)
  <2>1. calls[c].stage = "idle"
    BY <1>1, <1>2
  <2> QED BY <1>3, <2>1 DEF CallInv, NothingElse, Rooted, DueListed, CoreAsked, At
<1> QED BY <1>4, <1>5 DEF PageInv

(* The steps of the mirror that the page part of the runs takes. *)
LEMMA SmallPut ==
    ASSUME PublishedTyped, NEW f \in CoreSet, PutFile(f)
    PROVE  PutFiles
<1>0. disk \in Contents /\ f \in Files /\ None \notin Nat
  BY FileSets DEF PublishedTyped
<1>1. disk[f] \in Nat
  BY <1>0, ContentsAt DEF PutFile, Version
<1> DEFINE v == disk[f] + 1
<1>2. v \in Version /\ Reaches(v, disk[f])
  BY <1>0, <1>1 DEF Version, Reaches
<1>3. disk' = With(disk, f, v) /\ UNCHANGED manifests
  BY DEF PutFile, With
<1> HIDE DEF v
<1>4. disk' \in Contents /\ disk'[f] = v /\ \A g \in Files \ {f} : disk'[g] = disk[g]
  BY <1>0, <1>2, <1>3, ContentsExcept
<1>5. \A g \in Files : Reaches(disk'[g], disk[g])
  BY <1>0, <1>2, <1>4, ContentsAt, ReachesSelf
<1> QED BY <1>3, <1>4, <1>5 DEF PutFiles

LEMMA SmallList ==
    ASSUME PublishedTyped, Honest, NEW d \in DirSet, ListDir(d)
    PROVE  List
<1>0. disk \in Contents /\ manifests \in [DirSet -> Contents \cup {None}] /\ None \notin Nat
  BY FileSets DEF PublishedTyped
<1> DEFINE listed == [g \in Files |-> IF DirOf[g] = d \/ (d = Root /\ g \in CoreSet) THEN disk[g] ELSE None]
<1>1. manifests' = [manifests EXCEPT ![d] = listed] /\ UNCHANGED disk
  BY DEF ListDir
<1>2. listed \in Contents
  BY <1>0, ContentsAt DEF Contents, Version
<1>3. \A g \in Files : Reaches(disk[g], listed[g])
  BY <1>0, ContentsAt, ReachesSelf, ReachesNone
<1>4. d = Root => \A g \in CoreSet : listed[g] = disk[g]
  BY FileSets
<1> HIDE DEF listed
<1>5. /\ manifests' \in [DirSet -> Contents \cup {None}] /\ manifests'[d] = listed
      /\ \A e \in DirSet \ {d} : manifests'[e] = manifests[e]
  BY <1>0, <1>1, <1>2
<1>6. ASSUME NEW e \in DirSet, NEW g \in Files PROVE Reaches(disk[g], Listing(manifests'[e])[g])
  <2>1. CASE e = d
    BY <1>2, <1>3, <1>5, <2>1, ListingTyped
  <2>2. CASE e # d
    BY <1>5, <2>2 DEF Honest
  <2> QED BY <2>1, <2>2
<1>7. ASSUME NEW g \in CoreSet PROVE Reaches(Listing(manifests'[Root])[g], Listing(manifests[Root])[g])
  <2>1. g \in Files /\ Root \in DirSet
    BY FileSets, Sequences
  <2>2. CASE d = Root
    <3>1. Listing(manifests'[Root]) = listed
      BY <1>2, <1>5, <2>2, ListingTyped
    <3> QED BY <1>4, <2>1, <2>2, <3>1 DEF Honest
  <2>3. CASE d # Root
    <3>1. manifests'[Root] = manifests[Root]
      BY <1>5, <2>1, <2>3
    <3>2. Listing(manifests[Root])[g] \in Version
      BY <1>0, <2>1, ListingTyped
    <3> QED BY <3>1, <3>2, ReachesSelf
  <2> QED BY <2>2, <2>3
<1> QED BY <1>1, <1>5, <1>6, <1>7 DEF List

LEMMA PageLeavesMirror == ASSUME PageNext PROVE UNCHANGED published
<1>1. ASSUME NEW c \in Calls, CallStep(c) PROVE UNCHANGED published
  <2>1. ClearStore(c) \/ Forget(c) \/ RootKnown(c) \/ NextFile(c) \/ CoreKnown(c) => UNCHANGED published
    BY DEF ClearStore, Forget, RootKnown, NextFile, CoreKnown
  <2>2. CoreFails(c) \/ Joined(c) \/ FilesKnown(c) \/ FilesFail(c) \/ Answer(c) => UNCHANGED published
    BY DEF CoreFails, Joined, FilesKnown, FilesFail, Answer
  <2> QED BY <1>1, <2>1, <2>2 DEF CallStep
<1>2. ASSUME NEW c \in Calls, SyncStep(c) \/ SyncFails(c) PROVE UNCHANGED published
  BY <1>2 DEF SyncStep, ReceiveManifest, LearnLabel, Receive, Put, SyncFails, LoseManifest, LoseFile
<1>3. ASSUME NEW c \in Calls, NEW kind \in Kinds, NEW wanted \in Wants[kind], Begin(c, kind, wanted)
      PROVE  UNCHANGED published
  BY <1>3 DEF Begin
<1>4. ASSUME NEW place \in {"page", "worker"}, LoadModule(place) PROVE UNCHANGED published
  BY <1>4 DEF LoadModule
<1>5. WorkerFails \/ Reload => UNCHANGED published
  BY DEF WorkerFails, Reload
<1> QED BY <1>1, <1>2, <1>3, <1>4, <1>5 DEF PageNext, Requests

MCInv ==
    /\ part \in {"mirror", "page"}
    /\ part = "mirror" => MirrorInv
    /\ part = "page" => PageInv /\ run = Idle

LEMMA MCStarts == MCInit => MCInv /\ (part = "mirror" => InitPublished)
<1> SUFFICES ASSUME MCInit PROVE MCInv /\ (part = "mirror" => InitPublished)
  OBVIOUS
<1>1. run = Idle /\ upstream = [f \in SourceFiles |-> 1] /\ part \in {"mirror", "page"} /\ InitPage
  BY DEF MCInit
<1>2. CASE part = "mirror"
  <2>1. InitPublished
    BY <1>2 DEF MCInit
  <2> QED BY <1>1, <1>2, <2>1, MirrorStarts DEF MCInv
<1>3. CASE part = "page"
  <2> DEFINE records == [f \in Files |-> IF f \in CoreSet THEN [version |-> 1, label |-> 1] ELSE None]
  <2>1. /\ InitSyncWith(records)
        /\ \E missing \in {RepairSet, {f \in DetailSet : Fallback[f] # None}} :
              disk = [f \in Files |-> IF f \in missing THEN None ELSE 1]
        /\ manifests = [d \in DirSet |->
              [f \in Files |-> IF DirOf[f] = d \/ (d = Root /\ f \in CoreSet) THEN disk[f] ELSE None]]
    BY <1>3 DEF MCInit
  <2>2. records \in [Files -> Records \cup {None}]
    <3>1. [version |-> 1, label |-> 1] \in Records
      BY DEF Records, Version, Reaches
    <3> QED BY <3>1
  <2> HIDE DEF records
  <2>3. disk \in Contents /\ CoreThere
    <3>1. PICK missing \in {RepairSet, {f \in DetailSet : Fallback[f] # None}} :
             disk = [f \in Files |-> IF f \in missing THEN None ELSE 1]
      BY <2>1
    <3>2. missing \cap CoreSet = {}
      BY FileSets
    <3> QED BY <3>1, <3>2, FileSets DEF Contents, CoreThere
  <2>4. ASSUME NEW d \in DirSet
        PROVE  /\ manifests[d] \in Contents
               /\ \A f \in Files : Reaches(disk[f], manifests[d][f])
    <3>1. \A f \in Files : disk[f] \in Version /\ Reaches(disk[f], disk[f])
      BY <2>3, ContentsAt, ReachesSelf
    <3> QED BY <2>1, <3>1, ReachesNone DEF Contents, Version
  <2>5. PublishedTyped
    BY <2>1, <2>3, <2>4 DEF PublishedTyped
  <2>6. Honest
    BY <2>4, ListingTyped DEF Honest
  <2>7. PageInv
    BY <1>1, <2>1, <2>2, <2>3, <2>5, <2>6, PageStarts
  <2> QED BY <1>1, <1>3, <2>7 DEF MCInv
<1> QED BY <1>1, <1>2, <1>3

LEMMA MCStep ==
    ASSUME MCInv, [MirrorPart \/ PagePart]_allVars
    PROVE  /\ MCInv' /\ [PutFiles \/ List]_published
           /\ \A c \in Calls : FreshFor(c) /\ FailsFor(c)
<1>1. CASE MirrorPart
  <2>1. MirrorNext /\ part = "mirror" /\ part' = part /\ UNCHANGED calls
    BY <1>1 DEF MirrorPart, pageVars
  <2>2. MirrorInv' /\ [PutFiles \/ List]_published
    BY <2>1, MirrorStep DEF MCInv
  <2>3. \A c \in Calls : FreshFor(c) /\ FailsFor(c)
    BY <2>1 DEF FreshFor, FailsFor, At
  <2> QED BY <2>1, <2>2, <2>3 DEF MCInv
<1>2. CASE PagePart
  <2>1. /\ part = "page" /\ part' = part /\ run = Idle /\ run' = run /\ PageInv
        /\ PageNext \/ ( /\ (\E f \in CoreSet : PutFile(f)) \/ (\E d \in DirSet : ListDir(d))
                         /\ UNCHANGED <<syncVars, pageVars>> )
    BY <1>2 DEF PagePart, MCInv
  <2>2. CASE PageNext
    <3>1. PageGoal
      BY <2>1, <2>2, PageStep
    <3>2. UNCHANGED published
      BY <2>2, PageLeavesMirror
    <3> QED BY <2>1, <3>1, <3>2 DEF MCInv, PageGoal
  <2>3. CASE /\ (\E f \in CoreSet : PutFile(f)) \/ (\E d \in DirSet : ListDir(d))
             /\ UNCHANGED <<syncVars, pageVars>>
    <3>1. PublishedTyped /\ Honest
      BY <2>1 DEF PageInv, SharedInv, PageTyped
    <3>2. PutFiles \/ List
      BY <2>3, <3>1, SmallPut, SmallList
    <3>3. PageGoal
      BY <2>1, <2>3, <3>2, PageStep DEF MirrorMoves
    <3> QED BY <2>1, <3>2, <3>3 DEF MCInv, PageGoal
  <2> QED BY <2>1, <2>2, <2>3
<1>3. CASE UNCHANGED allVars
  <2>1. /\ UNCHANGED <<upstream, disk, manifests, run, surprises>> /\ UNCHANGED vars
        /\ UNCHANGED calls /\ part' = part /\ UNCHANGED published
    BY <1>3 DEF allVars, vars, published, pageVars
  <2>2. CASE part = "mirror"
    <3>1. MirrorInv' /\ UNCHANGED published
      BY <2>1, <2>2, MirrorStutters DEF MCInv, mirrorVars
    <3>2. \A c \in Calls : FreshFor(c) /\ FailsFor(c)
      BY <2>1 DEF FreshFor, FailsFor, At
    <3> QED BY <2>1, <2>2, <3>1, <3>2 DEF MCInv
  <2>3. CASE part = "page"
    <3>1. PageGoal
      BY <2>1, <2>3, PageStutters DEF MCInv
    <3> QED BY <2>1, <2>3, <3>1 DEF MCInv, PageGoal
  <2> QED BY <2>2, <2>3 DEF MCInv
<1> QED BY <1>1, <1>2, <1>3

-----------------------------------------------------------------------------
(* A run that wrote the manifest of the root lists every main file in the   *)
(* version the source had when it started, or a newer one                   *)
(* (sync_bestdori): no chunk of downloads is passed over.                   *)
THEOREM MirrorPublishes == MirrorSpec => []RunPublishes
<1>1. InitMirror => MirrorInv
  BY MirrorStarts DEF InitMirror
<1>2. MirrorInv /\ [MirrorNext]_mirrorVars => MirrorInv'
  BY MirrorStep, MirrorStutters
<1>3. MirrorInv => RunPublishes
  BY Publishes
<1> QED BY <1>1, <1>2, <1>3, PTL DEF MirrorSpec

(* The same beside pages that read the mirror (tools/sync-bestdori).        *)
THEOREM PublishedInRuns == MCSpec => []RunPublishes
<1>1. MCInit => MCInv
  BY MCStarts
<1>2. MCInv /\ [MirrorPart \/ PagePart]_allVars => MCInv'
  BY MCStep
<1>3. MCInv => RunPublishes
  BY Publishes, IdleTyped DEF MCInv, RunPublishes
<1> QED BY <1>1, <1>2, <1>3, PTL DEF MCSpec

(* In both parts of the runs, all that the mirror does is to put newer      *)
(* files in place, and to list what is there and nothing older in the root. *)
THEOREM PromiseKept == MCSpec => MirrorPromise
<1>1. MCInit => MCInv /\ (part = "mirror" => InitPublished)
  BY MCStarts
<1>2. MCInv /\ [MirrorPart \/ PagePart]_allVars => MCInv' /\ [PutFiles \/ List]_published
  BY MCStep
<1> QED BY <1>1, <1>2, PTL DEF MCSpec, MirrorPromise

(* So do the pages: what they show is new enough, and they do not fail for *)
(* failures of the past, in the runs that put a page beside the mirror      *)
(* (ensureCore, refreshManifest).                                          *)
THEOREM FreshInRuns == MCSpec => RefreshHolds
<1>1. MCInit => MCInv
  BY MCStarts
<1>2. MCInv /\ [MirrorPart \/ PagePart]_allVars =>
         MCInv' /\ (\A c \in Calls : FreshFor(c)) /\ (\A c \in Calls : FailsFor(c))
  BY MCStep
<1> QED BY <1>1, <1>2, PTL DEF MCSpec, RefreshHolds, FreshCore, NoOldFailure, FreshFor, FailsFor

(* A page beside any mirror that keeps the promise: whichever records it    *)
(* finds, if each of them reaches its label and the main files are there.   *)
PageStart ==
    /\ PublishedTyped /\ Honest /\ CoreThere /\ InitPage
    /\ \E records \in [Files -> Records \cup {None}] : InitSyncWith(records)

PageSpec == PageStart /\ [][PageNext \/ MirrorMoves]_vars

LEMMA PageSafe == PageInv /\ [PageNext \/ MirrorMoves]_vars => PageGoal
BY PageStep, PageStutters

(* Whoever asks for the manifest again gets main files at least as new as   *)
(* those listed when it asked (ensureCore, syncCore), however the mirror    *)
(* moves on meanwhile and whatever other calls of the page do.              *)
THEOREM PageFresh == PageSpec => FreshCore
<1>1. PageStart => PageInv
  BY PageStarts DEF PageStart
<1>2. PageInv /\ [PageNext \/ MirrorMoves]_vars => PageInv'
  BY PageSafe DEF PageGoal
<1>3. PageInv /\ [PageNext \/ MirrorMoves]_vars => \A c \in Calls : FreshFor(c)
  BY PageSafe DEF PageGoal
<1> QED BY <1>1, <1>2, <1>3, PTL DEF PageSpec, FreshCore, FreshFor

(* Whoever asks for the manifest again fails only for a request that failed *)
(* since (refreshManifest): beside any mirror that keeps the promise.       *)
THEOREM PageForgetsFailures == PageSpec => NoOldFailure
<1>1. PageStart => PageInv
  BY PageStarts DEF PageStart
<1>2. PageInv /\ [PageNext \/ MirrorMoves]_vars => PageInv'
  BY PageSafe DEF PageGoal
<1>3. PageInv /\ [PageNext \/ MirrorMoves]_vars => \A c \in Calls : FailsFor(c)
  BY PageSafe DEF PageGoal
<1> QED BY <1>1, <1>2, <1>3, PTL DEF PageSpec, NoOldFailure, FailsFor

(* Asking for the manifest again brings a page up to what it lists and does *)
(* not fail for what failed before (ensureCore, refreshManifest), beside    *)
(* any mirror that keeps the promise.                                      *)
THEOREM PageRefreshes == PageSpec => RefreshHolds
BY PageFresh, PageForgetsFailures DEF RefreshHolds
=============================================================================
