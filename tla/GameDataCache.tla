---------------------------- MODULE GameDataCache ----------------------------
(***************************************************************************)
(* The native game-data cache of the desktop client:                       *)
(* BestdoriCachedFilesystemCalculationInputBuilder of                      *)
(* crates/data/src/cache.rs, called by DesktopCalculator::Remote of        *)
(* crates/desktop/src/lib.rs, against a mirror that                        *)
(* tools/sync-bestdori updates.                                            *)
(*                                                                         *)
(* A file is its version; 0 is a file that is not there.  Commands run on  *)
(* threads of their own and share the directory and the calculator in      *)
(* memory, which only a mutex around loading, calculating and dropping it  *)
(* protects.  An action is one request, one file written or one use of the *)
(* calculator.                                                             *)
(***************************************************************************)
EXTENDS Integers, Sequences

CONSTANTS Required,      \* REQUIRED_CORE_FILES, in order
          Repair,        \* OPTIONAL_REPAIR_FILES, bundled as EMBEDDED_FIX_FILES
          Details,       \* event, card and chart files, in one directory
          Threads,       \* threads that run commands
          None,          \* no calculator is loaded
          StartDuring,   \* <<k, l>>: an impatient user starts k while l runs
          Changing,      \* files that the mirror replaces by newer ones
          MaxVersion     \* bound on the versions the mirror publishes

Elements(s) == {s[i] : i \in DOMAIN s}
Core == Required \o Repair
CoreFiles == Elements(Required) \cup Elements(Repair)
Files == CoreFiles \cup Elements(Details)
Versions == 0..MaxVersion
Bundled == 1            \* the version of a repair file the client ships

Kinds == {"sync", "refresh", "all", "detail", "calculate", "clear"}

ASSUME CacheAssumption ==
    /\ Required \in Seq(Elements(Required))
    /\ Repair \in Seq(Elements(Repair)) /\ Details \in Seq(Elements(Details))
    /\ CoreFiles \cap Elements(Details) = {}
    /\ Elements(Required) \cap Elements(Repair) = {}
    /\ None \notin [CoreFiles -> Versions]
    /\ Changing \subseteq Files
    /\ StartDuring \subseteq Kinds \X Kinds
    /\ MaxVersion \in Nat \ {0}

VARIABLES source,    \* StaticMirror or BestdoriApi
          patient,   \* the user starts a command only when no other runs
          mirror,    \* the files the mirror serves
          listed,    \* what its manifests say of them; 0: not listed
          files,     \* the files in the cache directory
          manifest,  \* what the manifests in the cache directory say of them
          loaded,    \* the core files the calculator in memory was made from
          op,        \* the command each thread runs
          lost       \* a command changed files after loading and then failed

vars == <<source, patient, mirror, listed, files, manifest, loaded, op, lost>>

Dirs == {"root", "details"}
FilesOf(dir) == IF dir = "root" THEN CoreFiles ELSE Elements(Details)

Unlisted == [f \in Files |-> 0]
Idle == [at |-> "idle", kind |-> "sync", dir |-> "none", remote |-> Unlisted,
         local |-> Unlisted, todo |-> <<>>, extra |-> <<>>, data |-> 0,
         changed |-> FALSE, fixed |-> FALSE]

Command ==
    [at : {"idle", "fix", "manifest", "local", "files", "write", "clear",
           "compute", "remove"},
     kind : Kinds, dir : Dirs \cup {"none"},
     remote : [Files -> Versions], local : [Files -> Versions],
     todo : Seq(Files), extra : Seq(Files), data : Versions,
     changed : BOOLEAN, fixed : BOOLEAN]

TypeOK ==
    /\ source \in {"mirror", "api"} /\ patient \in BOOLEAN
    /\ mirror \in [Files -> Versions] /\ listed \in [Files -> Versions]
    /\ files \in [Files -> Versions] /\ manifest \in [Files -> Versions]
    /\ loaded \in [CoreFiles -> Versions] \cup {None}
    /\ op \in [Threads -> Command]
    /\ lost \in BOOLEAN

Init ==
    /\ source \in {"mirror", "api"} /\ patient \in BOOLEAN
    /\ mirror = [f \in Files |-> 1]
    /\ listed \in {Unlisted, mirror}
    /\ files = Unlisted /\ manifest = Unlisted
    /\ loaded = None
    /\ op = [t \in Threads |-> Idle]
    /\ lost = FALSE

-----------------------------------------------------------------------------
(* The mirror: sync-bestdori replaces the files one by one and then the     *)
(* manifests.  A run lists all core files and the details it was asked for. *)

Publish(f) ==
    /\ f \in Changing /\ mirror[f] < MaxVersion
    /\ mirror' = [mirror EXCEPT ![f] = @ + 1]
    /\ UNCHANGED <<source, patient, listed, files, manifest, loaded, op, lost>>

PublishManifest(dir, asked) ==
    /\ listed' = [f \in Files |->
                    CASE f \notin FilesOf(dir) -> listed[f]
                      [] f \in FilesOf(dir) /\ f \in CoreFiles \cup asked -> mirror[f]
                      [] OTHER -> 0]
    /\ UNCHANGED <<source, patient, mirror, files, manifest, loaded, op, lost>>

-----------------------------------------------------------------------------
(* Commands *)

Quiet == \A t \in Threads : op[t].at = "idle"

\* sync_core_files and sync_core_files_from_bestdori.
EnterCore(o) ==
    [o EXCEPT !.dir = "root",
              !.at = IF source = "mirror" THEN "manifest" ELSE "files",
              !.todo = IF source = "mirror" THEN Core ELSE Required]

\* A detail file is synchronised with the manifest of its directory, except
\* by sync_all and from the API.
EnterDetail(o) ==
    [o EXCEPT !.dir = "details",
              !.at = IF source = "mirror" /\ o.kind # "all" THEN "manifest"
                                                            ELSE "files",
              !.todo = <<Head(o.extra)>>,
              !.extra = Tail(o.extra)]

Enter(o) ==
    CASE o.kind = "calculate" -> [o EXCEPT !.at = "fix"]
      [] o.kind = "clear"     -> [o EXCEPT !.at = "remove"]
      [] o.kind = "detail"    -> EnterDetail(o)
      [] OTHER                -> EnterCore(o)

Begin(t, kind, extra) ==
    /\ op[t].at = "idle"
    /\ \A u \in Threads : op[u].at # "idle" =>
                            ~patient /\ <<kind, op[u].kind>> \in StartDuring
    /\ op' = [op EXCEPT ![t] = Enter([Idle EXCEPT !.kind = kind, !.extra = extra])]
    /\ UNCHANGED <<source, patient, mirror, listed, files, manifest, loaded, lost>>

WithManifest(o) == source = "mirror" /\ (o.dir = "root" \/ o.kind # "all")

\* fetch_manifest_path: no manifest is an empty one.
GetManifest(t) ==
    /\ op[t].at = "manifest"
    /\ op' = [op EXCEPT
         ![t].remote = [f \in Files |-> IF f \in FilesOf(op[t].dir)
                                          THEN listed[f] ELSE op[t].remote[f]],
         ![t].at = "local"]
    /\ UNCHANGED <<source, patient, mirror, listed, files, manifest, loaded, lost>>

ReadManifest(t) ==
    /\ op[t].at = "local"
    /\ op' = [op EXCEPT
         ![t].local = [f \in Files |-> IF f \in FilesOf(op[t].dir)
                                         THEN manifest[f] ELSE 0],
         ![t].at = "files"]
    /\ UNCHANGED <<source, patient, mirror, listed, files, manifest, loaded, lost>>

\* A refresh fetches the required files again when no manifest tells whether
\* they changed.
Forced(o, f) ==
    /\ o.kind = "refresh" /\ f \in Elements(Required)
    /\ source = "mirror" => \A g \in CoreFiles : o.remote[g] = 0

\* needs_update
NeedsUpdateIfListed(o, f) ==
    o.remote[f] # 0 /\ o.local[f] # 0 /\ o.local[f] # o.remote[f]
NeedsUpdate(o, f) == o.remote[f] # 0 /\ o.local[f] # o.remote[f]

WantedIfMissing(o, f) ==
    /\ f \in Elements(Repair) => o.remote[f] # 0
    /\ files[f] = 0 \/ Forced(o, f)
Wanted(o, f) ==
    /\ f \in Elements(Repair) => o.remote[f] # 0
    /\ \/ files[f] = 0
       \/ Forced(o, f)
       \/ WithManifest(o) /\ NeedsUpdate(o, f)

SkipFile(t) ==
    /\ op[t].at = "files" /\ op[t].todo # <<>>
    /\ ~Wanted(op[t], Head(op[t].todo))
    /\ op' = [op EXCEPT ![t].todo = Tail(@)]
    /\ UNCHANGED <<source, patient, mirror, listed, files, manifest, loaded, lost>>

GetFile(t) ==
    /\ op[t].at = "files" /\ op[t].todo # <<>>
    /\ Wanted(op[t], Head(op[t].todo))
    /\ op' = [op EXCEPT ![t].data = mirror[Head(op[t].todo)], ![t].at = "write"]
    /\ UNCHANGED <<source, patient, mirror, listed, files, manifest, loaded, lost>>

WriteLastCounts(t) ==
    /\ op[t].at = "write"
    /\ files' = [files EXCEPT ![Head(op[t].todo)] = op[t].data]
    /\ op' = [op EXCEPT ![t].at = "files", ![t].changed = (Len(op[t].todo) = 1),
                        ![t].todo = Tail(@), ![t].data = 0]
    /\ UNCHANGED <<source, patient, mirror, listed, manifest, loaded, lost>>

\* write_file: a temporary file and a rename.
WriteFile(t) ==
    /\ op[t].at = "write"
    /\ files' = [files EXCEPT ![Head(op[t].todo)] = op[t].data]
    /\ op' = [op EXCEPT ![t].at = "files", ![t].changed = TRUE,
                        ![t].todo = Tail(@), ![t].data = 0]
    /\ UNCHANGED <<source, patient, mirror, listed, manifest, loaded, lost>>

\* The fetched manifest of the directory replaces the stored one.
RecordedManifest(o) ==
    [f \in Files |-> IF WithManifest(o) /\ f \in FilesOf(o.dir)
                       THEN o.remote[f] ELSE manifest[f]]

DirectoryDone(t) ==
    /\ op[t].at = "files" /\ op[t].todo = <<>>
    /\ manifest' = RecordedManifest(op[t])
    /\ op' = [op EXCEPT ![t] =
                LET o == [@ EXCEPT !.local = Unlisted] IN
                IF o.extra # <<>> THEN EnterDetail(o) ELSE [o EXCEPT !.at = "clear"]]
    /\ UNCHANGED <<source, patient, mirror, listed, files, loaded, lost>>

\* ensure_embedded_fix_files
EnsureFixFiles(t) ==
    /\ op[t].at = "fix"
    /\ LET missing == {f \in Elements(Repair) : files[f] = 0} IN
         /\ files' = [f \in Files |-> IF f \in missing THEN Bundled ELSE files[f]]
         /\ op' = [op EXCEPT ![t].at = "clear", ![t].fixed = TRUE,
                             ![t].changed = (missing # {})]
    /\ UNCHANGED <<source, patient, mirror, listed, manifest, loaded, lost>>

\* clear_loaded_calculator, when the step before it changed a file.
AfterClear(o) ==
    CASE o.kind = "calculate" /\ o.dir = "none" -> EnterCore([o EXCEPT !.changed = FALSE])
      [] o.kind = "calculate" /\ o.dir # "none" ->
           [o EXCEPT !.at = "compute", !.changed = FALSE]
      [] o.kind \in {"sync", "refresh", "all"} /\ ~o.fixed ->
           [o EXCEPT !.at = "fix", !.changed = FALSE]
      [] OTHER -> Idle

ClearLoaded(t) ==
    /\ op[t].at = "clear"
    /\ loaded' = IF op[t].changed THEN None ELSE loaded
    /\ lost' = (lost /\ ~op[t].changed)
    /\ op' = [op EXCEPT ![t] = AfterClear(@)]
    /\ UNCHANGED <<source, patient, mirror, listed, files, manifest>>

\* calculate_from_cache and its three siblings.
Loaded == IF loaded = None THEN [f \in CoreFiles |-> files[f]] ELSE loaded

Compute(t) ==
    /\ op[t].at = "compute"
    /\ \A f \in Elements(Required) : Loaded[f] # 0
    /\ loaded' = Loaded
    /\ op' = [op EXCEPT ![t] = Idle]
    /\ UNCHANGED <<source, patient, mirror, listed, files, manifest, lost>>

\* DesktopCalculator::clear_game_cache
RemoveAll(t) ==
    /\ op[t].at = "remove"
    /\ files' = Unlisted /\ manifest' = Unlisted
    /\ op' = [op EXCEPT ![t].at = "clear", ![t].changed = TRUE]
    /\ UNCHANGED <<source, patient, mirror, listed, loaded, lost>>

-----------------------------------------------------------------------------
(* Failures: a request, a read or a write fails and the command returns the *)
(* error at once; or the program is closed.                                 *)

Fails(t) ==
    /\ op[t].at \in {"fix", "manifest", "local", "files", "write"}
    /\ lost' = (lost \/ op[t].changed)
    /\ op' = [op EXCEPT ![t] = Idle]
    /\ UNCHANGED <<source, patient, mirror, listed, files, manifest, loaded>>

\* A core file is missing when the calculator is loaded.
LoadFails(t) ==
    /\ op[t].at = "compute"
    /\ \E f \in Elements(Required) : Loaded[f] = 0
    /\ op' = [op EXCEPT ![t] = Idle]
    /\ UNCHANGED <<source, patient, mirror, listed, files, manifest, loaded, lost>>

RemoveFails(t) ==
    /\ op[t].at = "remove"
    /\ \E removed \in SUBSET Files :
         files' = [f \in Files |-> IF f \in removed THEN 0 ELSE files[f]]
    /\ \E dirs \in SUBSET Dirs :
         manifest' = [f \in Files |->
                        IF \E dir \in dirs : f \in FilesOf(dir) THEN 0
                                                                ELSE manifest[f]]
    /\ lost' = TRUE
    /\ op' = [op EXCEPT ![t] = Idle]
    /\ UNCHANGED <<source, patient, mirror, listed, loaded>>

Restart ==
    /\ loaded' = None /\ lost' = FALSE
    /\ op' = [t \in Threads |-> Idle]
    /\ UNCHANGED <<source, patient, mirror, listed, files, manifest>>

Start(t) ==
    \/ \E kind \in {"sync", "refresh", "clear"} : Begin(t, kind, <<>>)
    \/ Begin(t, "all", Details)
    \/ \E f \in Elements(Details) :
         Begin(t, "detail", <<f>>) \/ Begin(t, "calculate", <<f>>)

Step(t) ==
    \/ GetManifest(t) \/ ReadManifest(t) \/ SkipFile(t) \/ GetFile(t)
    \/ WriteFile(t) \/ DirectoryDone(t) \/ EnsureFixFiles(t)
    \/ ClearLoaded(t) \/ Compute(t) \/ RemoveAll(t)

Next ==
    \/ \E t \in Threads : Start(t) \/ Step(t) \/ Fails(t) \/ LoadFails(t) \/ RemoveFails(t)
    \/ Restart
    \/ \E f \in Files : Publish(f)
    \/ \E dir \in Dirs, asked \in SUBSET Elements(Details) : PublishManifest(dir, asked)

Spec == Init /\ [][Next]_vars

-----------------------------------------------------------------------------
(* Properties *)

\* The calculator in memory was made from the core files on disk, unless a
\* command is about to drop it or one failed before it could.
LoadedMatchesDisk ==
    loaded # None /\ ~lost /\ (\A t \in Threads : ~op[t].changed)
      => \A f \in CoreFiles : loaded[f] = files[f]

\* No required file is older than the stored manifest says, or it would never
\* be fetched again.
ManifestHonest ==
    patient /\ Quiet => \A f \in Elements(Required) : files[f] # 0 => files[f] >= manifest[f]

\* What is in memory, on disk and in the manifest agree, whichever command was cut
\* off.
CacheHonest == LoadedMatchesDisk /\ ManifestHonest

\* A calculation that nothing disturbed uses core files at least as new as the
\* manifest it fetched.
CalculatesWithListed ==
    [][\A t \in Threads : Compute(t) /\ patient /\ ~lost
         => \A f \in Elements(Required) : loaded'[f] >= op[t].remote[f]]_vars
=============================================================================
