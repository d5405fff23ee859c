---------------------------- MODULE AccountImport -----------------------------
(***************************************************************************)
(* Imports of game accounts (crates/bangdream-account, and the handlers of *)
(* the server that call it).                                               *)
(*                                                                         *)
(* A region imports one account at a time: a request that finds the        *)
(* region busy is refused, and the permit goes with the thread that does   *)
(* the work, since the client may leave before it ends.                    *)
(*                                                                         *)
(* The Chinese servers only talk to the current client version.  Which one *)
(* that is is kept in a file of defaults; when the game refuses it, it is  *)
(* looked up in the official package, tried, and stored.  Only then is the *)
(* password sent.  The Japanese import has a fixed version and no login.   *)
(*                                                                         *)
(* Left out: what the requests contain and how they are encrypted, and how *)
(* a profile is read from the answer.                                      *)
(***************************************************************************)
EXTENDS Integers, FiniteSets

CONSTANTS Imports,      \* the requests
          LastVersion,  \* bound on the client versions that the game has
          Embedded,     \* the version in default-client-version.json
          NoStored,       \* there is no file of defaults,
          Unreadable    \* or one that does not hold a version

ClientVersions == 1..LastVersion

ASSUME ImportAssumption ==
    /\ LastVersion \in Nat /\ Embedded \in ClientVersions
    /\ NoStored \notin Int /\ Unreadable \notin Int /\ NoStored # Unreadable

Regions == {"cn", "jp"}

VARIABLES imports,   \* of each request: region, stage, the version it uses, whether
                     \* the client waits, and how often the password was sent
          busy,      \* CN_IMPORT_BUSY and JP_IMPORT_BUSY
          defaults,  \* the file of defaults
          current,   \* the version that the game accepts
          verified   \* the versions it has accepted from an import (auxiliary)

importVars == <<imports, busy, defaults, current, verified>>

(* The steps between the grant of the permit and its return. *)
CredentialStages == {"sdkLogin", "gameLogin"}
WorkerStages ==
    {"load", "preflight", "discover", "recheck", "save", "suite"} \cup CredentialStages
ImportStages == {"none", "asked", "ended"} \cup WorkerStages

NotAsked == [region |-> "cn", stage |-> "none", version |-> 0, waits |-> FALSE, sent |-> 0]

ImportInit ==
    /\ imports = [r \in Imports |-> NotAsked]
    /\ busy = [g \in Regions |-> FALSE]
    /\ current \in ClientVersions /\ Embedded <= current
    /\ defaults \in 1..current \cup {NoStored, Unreadable}
    /\ verified = {}

StageIs(r, stage) == imports[r].stage = stage
InHand(r) == imports[r].stage \in WorkerStages
GotoStage(r, stage) == imports' = [imports EXCEPT ![r].stage = stage]

Ask(r, region) ==
    /\ StageIs(r, "none")
    /\ imports' = [imports EXCEPT ![r] =
            [NotAsked EXCEPT !.region = region, !.stage = "asked", !.waits = TRUE]]
    /\ UNCHANGED <<busy, defaults, current, verified>>

(* The body does not parse, or its fields are not valid. *)
Refuse(r) ==
    /\ StageIs(r, "asked") /\ GotoStage(r, "ended")
    /\ UNCHANGED <<busy, defaults, current, verified>>

(* try_acquire, before the work is handed to a thread. *)
Admit(r) ==
    LET region == imports[r].region
    IN  /\ StageIs(r, "asked")
        /\ IF busy[region]
           THEN GotoStage(r, "ended") /\ UNCHANGED busy
           ELSE /\ GotoStage(r, IF region = "cn" THEN "load" ELSE "preflight")
                /\ busy' = [busy EXCEPT ![region] = TRUE]
        /\ UNCHANGED <<defaults, current, verified>>

(* The work is over, well or not; a panic ends it as well. *)
EndImport(r) ==
    /\ InHand(r) /\ GotoStage(r, "ended")
    /\ busy' = [busy EXCEPT ![imports[r].region] = FALSE]
    /\ UNCHANGED <<defaults, current, verified>>

\* Mutant of Leave: the permit belongs to the request.
LeaveReleases(r) ==
    /\ imports[r].waits /\ ~StageIs(r, "ended")
    /\ imports' = [imports EXCEPT ![r].waits = FALSE,
                                  ![r].stage = IF @ = "asked" THEN "ended" ELSE @]
    /\ busy' = [busy EXCEPT ![imports[r].region] = @ /\ ~InHand(r)]
    /\ UNCHANGED <<defaults, current, verified>>

(* The client goes away: what runs for it goes on. *)
Leave(r) ==
    /\ imports[r].waits /\ ~StageIs(r, "ended")
    /\ imports' = [imports EXCEPT ![r].waits = FALSE,
                                  ![r].stage = IF @ = "asked" THEN "ended" ELSE @]
    /\ UNCHANGED <<busy, defaults, current, verified>>

LoadDefaults(r) ==
    /\ StageIs(r, "load")
    /\ IF defaults = Unreadable
       THEN GotoStage(r, "discover")
       ELSE imports' = [imports EXCEPT ![r].stage = "preflight",
                            ![r].version = IF defaults = NoStored THEN Embedded ELSE defaults]
    /\ UNCHANGED <<busy, defaults, current, verified>>

(* application_versions: the game answers with the version it accepts. *)
Accepted(r) == imports[r].version = current /\ verified' = verified \cup {current}

Preflight(r) ==
    /\ StageIs(r, "preflight")
    /\ \/ imports[r].region = "jp" /\ GotoStage(r, "suite") /\ UNCHANGED verified
       \/ imports[r].region = "cn" /\ Accepted(r) /\ GotoStage(r, "sdkLogin")
       \/ imports[r].region = "cn" /\ GotoStage(r, "discover") /\ UNCHANGED verified
    /\ UNCHANGED <<busy, defaults, current>>

(* What the manifest of an official package may say, ahead of the game or   *)
(* behind it.                                                              *)
InPackage == ClientVersions

Discover(r) ==
    /\ StageIs(r, "discover")
    /\ \E version \in InPackage :
           imports' = [imports EXCEPT ![r].stage = "recheck", ![r].version = version]
    /\ UNCHANGED <<busy, defaults, current, verified>>

\* Mutant of Recheck: what the package says is stored as it is.
RecheckTrusts(r) ==
    /\ StageIs(r, "recheck") /\ GotoStage(r, "save")
    /\ UNCHANGED <<busy, defaults, current, verified>>

Recheck(r) ==
    /\ StageIs(r, "recheck") /\ Accepted(r) /\ GotoStage(r, "save")
    /\ UNCHANGED <<busy, defaults, current>>

(* A temporary file, renamed when it is complete. *)
StoreVersion(r) ==
    /\ StageIs(r, "save") /\ GotoStage(r, "sdkLogin")
    /\ defaults' = imports[r].version
    /\ UNCHANGED <<busy, current, verified>>

(* The key for the password is fetched, then the password is sent. *)
SdkLogin(r) ==
    /\ StageIs(r, "sdkLogin")
    /\ imports' = [imports EXCEPT ![r].stage = "gameLogin", ![r].sent = @ + 1]
    /\ UNCHANGED <<busy, defaults, current, verified>>

GameLogin(r) ==
    /\ StageIs(r, "gameLogin") /\ GotoStage(r, "suite")
    /\ UNCHANGED <<busy, defaults, current, verified>>

(* The game moves on to another client version. *)
NewVersion ==
    /\ current < LastVersion /\ current' = current + 1
    /\ UNCHANGED <<imports, busy, defaults, verified>>

(* The process is stopped and started: only the file stays. *)
RestartServer ==
    /\ imports' = [r \in Imports |->
            IF StageIs(r, "none") THEN imports[r]
            ELSE [imports[r] EXCEPT !.stage = "ended", !.waits = FALSE]]
    /\ busy' = [g \in Regions |-> FALSE]
    /\ UNCHANGED <<defaults, current, verified>>

ImportStep(r) ==
    \/ \E region \in Regions : Ask(r, region)
    \/ Refuse(r) \/ Admit(r) \/ EndImport(r) \/ Leave(r)
    \/ LoadDefaults(r) \/ Preflight(r) \/ Discover(r) \/ Recheck(r) \/ StoreVersion(r)
    \/ SdkLogin(r) \/ GameLogin(r)

ImportNext == NewVersion \/ RestartServer \/ \E r \in Imports : ImportStep(r)

ImportSpec == ImportInit /\ [][ImportNext]_importVars
-----------------------------------------------------------------------------
ImportTypeOK ==
    /\ imports \in [Imports -> [region : Regions, stage : ImportStages, version : Nat,
                                waits : BOOLEAN, sent : Nat]]
    /\ busy \in [Regions -> BOOLEAN]
    /\ current \in ClientVersions
    /\ defaults \in ClientVersions \cup {NoStored, Unreadable}
    /\ verified \subseteq ClientVersions

UsesCredentials(r) == imports[r].region = "cn" /\ imports[r].stage \in CredentialStages

(* No two imports of a region overlap, clients that leave included; a       *)
(* password is sent at most once for a request, and only while the version  *)
(* it is sent with is one that the game accepted and the next import would  *)
(* start from.                                                              *)
CredentialsKept ==
    /\ \A r, s \in Imports :
           InHand(r) /\ InHand(s) /\ imports[r].region = imports[s].region => r = s
    /\ \A r \in Imports :
           /\ imports[r].sent <= 1
           /\ UsesCredentials(r) =>
                /\ imports[r].version \in verified
                /\ imports[r].version = (IF defaults = NoStored THEN Embedded ELSE defaults)

(* The file of defaults is only replaced by a version that the game has     *)
(* accepted, and never by an older one.                                     *)
DefaultsMoveOn ==
    [][defaults' # defaults =>
            /\ defaults' \in verified
            /\ defaults \in ClientVersions => defaults < defaults']_importVars

=============================================================================
