-------------------------------- MODULE Mirror --------------------------------
(***************************************************************************)
(* The tool that keeps a mirror of the game data for web pages             *)
(* (tools/sync-bestdori), started by the server again and again.           *)
(*                                                                         *)
(* A run downloads the main files and the details it is asked for, makes   *)
(* the chart meta for the score range search from the charts, and then     *)
(* writes a manifest into every directory: the main files are listed in    *)
(* that of the root as well.  A file is written under another name and     *)
(* renamed, so that readers find the old one or the new one.               *)
(*                                                                         *)
(* Files are versions; a hash and an etag tell versions apart, and those   *)
(* of the source only go up.  One run is under way at a time.              *)
(***************************************************************************)
EXTENDS PublishedData

CONSTANTS
    Concurrency,   \* downloads at a time
    Retries,       \* further attempts at a download
    MaxSurprises   \* bound on failed requests, killed runs and runs by hand

ASSUME MirrorAssumption ==
    /\ Concurrency \in Nat \ {0} /\ Retries \in Nat /\ MaxSurprises \in Nat

VARIABLES
    upstream,    \* the version of each file at the source
    run,         \* the run under way
    surprises    \* failed requests, killed runs and runs by hand so far

mirrorVars == <<upstream, disk, manifests, run, surprises>>

-----------------------------------------------------------------------------
(* What a run works with.                                                  *)

(* Mutant of Combined: that of the directory counts.                       *)
CombinedDirectoryFirst ==
    LET list(d) == Listing(manifests[d])
    IN  [f \in Files |-> IF list(DirOf[f])[f] # None THEN list(DirOf[f])[f] ELSE list(Root)[f]]

(* read_existing_manifest: all manifests together; that of the root counts. *)
Combined ==
    LET list(d) == Listing(manifests[d])
    IN  [f \in Files |-> IF list(Root)[f] # None THEN list(Root)[f] ELSE list(DirOf[f])[f]]

Idle == [stage |-> "idle", asked |-> <<>>, chunk |-> 0, tries |-> [f \in Files |-> 0],
         failed |-> {}, entries |-> NoFiles, previous |-> NoFiles, todo |-> 0, since |-> NoFiles]

(* The downloads of a stage (main_jobs; event_jobs, chart_jobs) and those of *)
(* its chunk that are under way.                                            *)
Jobs == IF run.stage = "core" THEN Core ELSE IF run.stage = "details" THEN run.asked ELSE <<>>

ChunkJobs ==
    {Jobs[i] : i \in {j \in DOMAIN Jobs : (j - 1) \div Concurrency = run.chunk}}

Waiting == {f \in ChunkJobs : run.entries[f] = None /\ f \notin run.failed}

(* Mutant of Kept: no file that is there is asked for again.               *)
KeptAlways(f) == disk[f] # None

(* A detail that is there is not asked for again (check_updates).          *)
Kept(f) == f \in DetailSet /\ disk[f] # None

(* Mutant of NotModified: the version is not compared.                     *)
NotModifiedWhenThere(f) == run.previous[f] # None /\ disk[f] # None

(* fetch_remote: the source answers that the version of the manifest is     *)
(* still the current one.                                                  *)
NotModified(f) == run.previous[f] # None /\ disk[f] # None /\ run.previous[f] = upstream[f]

(* The version of a chart meta is that of its charts together: as many as   *)
(* they have had.                                                          *)
MetaFrom(present) == Cardinality(UNION {{c} \X (1 .. present[c]) : c \in Charts})

-----------------------------------------------------------------------------
(* Init and the steps of a run.                                            *)

InitMirror ==
    /\ upstream = [f \in SourceFiles |-> 1]
    /\ InitPublished
    /\ run = Idle
    /\ surprises = 0

(* sync_bestdori, with or without details. *)
StartRun(asked) ==
    /\ run.stage = "idle"
    /\ run' = [Idle EXCEPT !.stage = "core", !.asked = asked, !.previous = Combined,
                           !.since = [f \in Files |-> IF f \in CoreSet THEN upstream[f] ELSE None]]
    /\ UNCHANGED <<upstream, disk, manifests, surprises>>

(* generate_score_range_chart_meta_only: what was listed stays listed. *)
StartMetaRun ==
    /\ run.stage = "idle" /\ surprises < MaxSurprises
    /\ \A f \in CoreSet \cup Charts : disk[f] # None
    /\ run' = [Idle EXCEPT !.stage = "meta", !.asked = Details, !.entries = Combined]
    /\ surprises' = surprises + 1
    /\ UNCHANGED <<upstream, disk, manifests>>

(* sync_remote_job: the entry of a file that is kept is taken from the      *)
(* manifest, or from the file when it is not listed                         *)
(* (manifest_file_for_existing).                                           *)
Download(f) ==
    /\ f \in Waiting
    /\ IF Kept(f)
       THEN /\ run' = [run EXCEPT !.entries[f] = IF run.previous[f] # None THEN run.previous[f] ELSE disk[f]]
            /\ UNCHANGED disk
       ELSE IF NotModified(f)
       THEN /\ run' = [run EXCEPT !.entries[f] = run.previous[f]]
            /\ UNCHANGED disk
       ELSE /\ disk' = [disk EXCEPT ![f] = upstream[f]]
            /\ run' = [run EXCEPT !.entries[f] = upstream[f]]
    /\ UNCHANGED <<upstream, manifests, surprises>>

(* fetch_remote_with_retries: a request fails; the last attempt fails the   *)
(* download.                                                               *)
DownloadFails(f) ==
    /\ f \in Waiting /\ ~ Kept(f) /\ surprises < MaxSurprises
    /\ surprises' = surprises + 1
    /\ run' = IF run.tries[f] < Retries
              THEN [run EXCEPT !.tries[f] = @ + 1]
              ELSE [run EXCEPT !.failed = @ \cup {f}]
    /\ UNCHANGED <<upstream, disk, manifests>>

(* sync_remote_jobs, when all downloads of a chunk have ended: one that     *)
(* failed ends the run before anything is listed.                           *)
EndChunk ==
    /\ run.stage \in {"core", "details"} /\ Waiting = {}
    /\ run' = IF run.failed # {} THEN Idle
              ELSE IF (run.chunk + 1) * Concurrency < Len(Jobs) THEN [run EXCEPT !.chunk = @ + 1]
              ELSE [run EXCEPT !.stage = IF run.stage = "core" THEN "repairs" ELSE "meta", !.chunk = 0]
    /\ UNCHANGED <<upstream, disk, manifests, surprises>>

(* sync_repair_files. *)
CopyRepairs ==
    /\ run.stage = "repairs"
    /\ disk' = [f \in Files |-> IF f \in RepairSet THEN upstream[f] ELSE disk[f]]
    /\ run' = [run EXCEPT !.stage = "details",
                          !.entries = [f \in Files |-> IF f \in RepairSet THEN upstream[f] ELSE @[f]]]
    /\ UNCHANGED <<upstream, manifests, surprises>>

(* generate_score_range_chart_meta, or the entry of a meta that is there.   *)
MakeMeta ==
    /\ run.stage = "meta"
    /\ disk' = IF run.asked # <<>> THEN [disk EXCEPT ![Meta] = MetaFrom(disk)] ELSE disk
    /\ run' = [run EXCEPT !.stage = "manifests", !.entries[Meta] = disk'[Meta], !.todo = 1]
    /\ UNCHANGED <<upstream, manifests, surprises>>

(* The files listed in a manifest: those of the directory, in the root the  *)
(* main files as well.                                                      *)
ListedIn(d) == {f \in Files : run.entries[f] # None /\ (DirOf[f] = d \/ (d = Root /\ f \in CoreSet))}

(* write_split_manifests: a directory after the other, the root first.     *)
WriteManifest ==
    /\ run.stage = "manifests" /\ run.todo \in DOMAIN Dirs
    /\ LET d == Dirs[run.todo]
           listed == ListedIn(d)
       IN  manifests' = IF listed = {} /\ d # Root THEN manifests
                        ELSE [manifests EXCEPT ![d] =
                                [f \in Files |-> IF f \in listed THEN run.entries[f] ELSE None]]
    /\ run' = [run EXCEPT !.todo = @ + 1]
    /\ UNCHANGED <<upstream, disk, surprises>>

(* remove_stale_manifests *)
RemoveStale ==
    /\ run.stage = "manifests" /\ run.todo > Len(Dirs)
    /\ manifests' = [d \in DirSet |-> IF ListedIn(d) = {} /\ d # Root THEN None ELSE manifests[d]]
    /\ run' = Idle
    /\ UNCHANGED <<upstream, disk, surprises>>

KillRun ==
    /\ run.stage # "idle" /\ surprises < MaxSurprises
    /\ run' = Idle /\ surprises' = surprises + 1
    /\ UNCHANGED <<upstream, disk, manifests>>

(* A file changes at the source. *)
Release(f) ==
    /\ upstream[f] < Last[f]
    /\ upstream' = [upstream EXCEPT ![f] = @ + 1]
    /\ UNCHANGED <<disk, manifests, run, surprises>>

RunStep ==
    \/ \E f \in Files : Download(f)
    \/ EndChunk \/ CopyRepairs \/ MakeMeta \/ WriteManifest \/ RemoveStale

MirrorNext ==
    \/ \E asked \in {<<>>, Details} : StartRun(asked)
    \/ StartMetaRun
    \/ RunStep
    \/ \E f \in Files : DownloadFails(f)
    \/ KillRun
    \/ \E f \in SourceFiles : Release(f)

MirrorSpec ==
    /\ InitMirror /\ [][MirrorNext]_mirrorVars
    /\ WF_mirrorVars(\E asked \in {<<>>, Details} : StartRun(asked)) /\ WF_mirrorVars(RunStep)

-----------------------------------------------------------------------------
(* Properties.                                                             *)

(* The tool keeps what PublishedData promises: no manifest ever lists a     *)
(* version that the file of the mirror has not reached, not even while a    *)
(* run is under way or after one was killed, and the root lists no older    *)
(* version than before.                                                    *)
ImplementsPublished == PublishedSpec

(* A run that wrote the manifest of the root lists every main file, at      *)
(* least in the version the source had when the run started.                *)
RunPublishes ==
    \A f \in CoreSet :
        run.stage = "manifests" /\ run.todo > 1 /\ run.since[f] # None =>
            manifests[Root][f] # None /\ manifests[Root][f] >= run.since[f]

(* Once the source rests, the mirror comes to list what it has: killed and  *)
(* failed runs leave nothing behind that later runs would not repair.       *)
CatchesUp ==
    <>[](manifests[Root] # None /\ \A f \in CoreSet : manifests[Root][f] = upstream[f])

=============================================================================
