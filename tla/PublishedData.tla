----------------------------- MODULE PublishedData -----------------------------
(***************************************************************************)
(* What a mirror of the game data promises to the pages that read it       *)
(* (docs/web-static.md:200-222 and 337): files are put in place before     *)
(* they are listed, and what the root lists only gets newer.               *)
(*                                                                         *)
(* Files are versions: a hash tells them apart, and later ones are greater. *)
(* A directory holds a manifest, or none.                                  *)
(***************************************************************************)
EXTENDS Integers, Sequences, FiniteSets

CONSTANTS
    Core,          \* the main files, in order (MAIN_FILES)
    Details,       \* the details a full run asks for, in order
    Charts,        \* those the chart meta is made from
    Meta,          \* the chart meta (SCORE_RANGE_CHART_META_PATH)
    Repairs,       \* corrections kept beside the tool, in order (REPAIR_FILES)
    Root,          \* the directory of the mirror
    DirOf,         \* the directory of each file
    Dirs,          \* all directories, sorted; the root comes first
    Last,          \* the last version of each file
    None

ElementsOf(s) == {s[i] : i \in DOMAIN s}

CoreSet == ElementsOf(Core)
DetailSet == ElementsOf(Details)
RepairSet == ElementsOf(Repairs)
SourceFiles == CoreSet \cup DetailSet \cup RepairSet
Files == SourceFiles \cup {Meta}
DirSet == ElementsOf(Dirs)

(* What a directory, or a manifest, holds of each file. *)
Contents == [Files -> Nat \cup {None}]

ASSUME FilesAssumption ==
    /\ Core \in Seq(CoreSet) /\ Details \in Seq(DetailSet) /\ Repairs \in Seq(RepairSet)
    /\ Dirs \in Seq(DirSet) /\ Dirs # <<>> /\ Dirs[1] = Root
    /\ Meta \notin SourceFiles /\ Charts \subseteq DetailSet /\ Charts # {}
    /\ CoreSet \cap DetailSet = {} /\ (CoreSet \cup DetailSet) \cap RepairSet = {}
    /\ DirOf \in [Files -> DirSet]
    /\ None \notin Nat /\ None \notin Contents
    /\ Last \in [SourceFiles -> Nat \ {0}]

VARIABLES
    disk,        \* the version of each file of the mirror, or None
    manifests    \* what the manifest of each directory lists, or None without one

published == <<disk, manifests>>

-----------------------------------------------------------------------------

NoFiles == [f \in Files |-> None]

(* Version v reaches what is expected; nothing may be. *)
Reaches(v, expected) == expected = None \/ (v # None /\ v >= expected)

(* What a directory lists. *)
Listing(m) == IF m = None THEN NoFiles ELSE m

InitPublished ==
    /\ disk = NoFiles
    /\ manifests = [d \in DirSet |-> None]

(* Files get newer; nothing is listed meanwhile. *)
PutFiles ==
    /\ disk' \in Contents
    /\ \A f \in Files : Reaches(disk'[f], disk[f])
    /\ UNCHANGED manifests

(* Manifests change: none lists what is not there, and that of the root     *)
(* lists nothing older than before.                                        *)
List ==
    /\ manifests' \in [DirSet -> Contents \cup {None}]
    /\ \A d \in DirSet, f \in Files : Reaches(disk[f], Listing(manifests'[d])[f])
    /\ \A f \in CoreSet : Reaches(Listing(manifests'[Root])[f], Listing(manifests[Root])[f])
    /\ UNCHANGED disk

PublishedSpec == InitPublished /\ [][PutFiles \/ List]_published

(* The smallest of these steps: a file gets its next version, a directory   *)
(* lists what it holds, the root the main files as well.                    *)
PutFile(f) ==
    /\ f \in SourceFiles /\ disk[f] # None /\ disk[f] < Last[f]
    /\ disk' = [disk EXCEPT ![f] = @ + 1]
    /\ UNCHANGED manifests

ListDir(d) ==
    /\ manifests' = [manifests EXCEPT ![d] =
            [f \in Files |-> IF DirOf[f] = d \/ (d = Root /\ f \in CoreSet) THEN disk[f] ELSE None]]
    /\ UNCHANGED disk

=============================================================================
