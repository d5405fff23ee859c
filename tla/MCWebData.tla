------------------------------- MODULE MCWebData -------------------------------
(***************************************************************************)
(* Instances of Mirror and of WebRuntime over the same files.  The part of *)
(* a behaviour that runs the tool checks that it keeps what PublishedData  *)
(* promises; the part that runs a page has this promise in place of the    *)
(* tool.                                                                   *)
(***************************************************************************)
EXTENDS Mirror, WebRuntime

VARIABLE part    \* "mirror" or "page"

CoreDef == <<"cards", "events">>
DetailsDef == <<"event", "chart">>
RepairsDef == <<"fix">>

DirOfDef ==
    [f \in {"cards", "events", "event", "chart", "meta", "fix"} |->
        CASE f = "cards" -> "api/cards"
          [] f \in {"event", "events"} -> "api/events"
          [] f = "chart" -> "api/charts"
          [] f = "meta" -> "api"
          [] OTHER -> ""]

DirsDef == <<"", "api", "api/cards", "api/charts", "api/events">>

LastDef == [f \in SourceFiles |-> IF f \in {"events", "chart"} THEN 2 ELSE 1]

FallbackDef == [f \in DetailSet |-> IF f = "event" THEN "events" ELSE None]

WantsDef ==
    [kind \in Kinds |->
        CASE kind \in {"load", "clear"} -> {{}}
          [] kind = "choose" -> {{"event"}}
          [] kind = "calculate" -> {{"chart"}}
          [] kind = "scoreRange" -> {{"meta"}}]

MCInit ==
    /\ part \in {"mirror", "page"}
    /\ run = Idle /\ surprises = 0 /\ upstream = [f \in SourceFiles |-> 1]
    /\ InitPage
    /\ \/ part = "mirror" /\ InitPublished /\ InitSync
       \* a page that was open before finds a mirror that lacks the corrections, or
       \* the details of events
       \/ /\ part = "page" /\ InitSyncWith([f \in Files |->
                IF f \in CoreSet THEN [version |-> 1, label |-> 1] ELSE None])
          /\ \E missing \in {RepairSet, {f \in DetailSet : Fallback[f] # None}} :
                disk = [f \in Files |-> IF f \in missing THEN None ELSE 1]
          /\ manifests = [d \in DirSet |->
                [f \in Files |-> IF DirOf[f] = d \/ (d = Root /\ f \in CoreSet) THEN disk[f] ELSE None]]

MirrorPart == part = "mirror" /\ MirrorNext /\ UNCHANGED <<part, syncVars, pageVars>>

(* Events are chosen where the details of events are missing, and           *)
(* calculations made where they are there.                                 *)
Apart(c) ==
    /\ calls'[c].kind = "choose" => disk["event"] = None
    /\ calls'[c].kind \in Calculations => disk["event"] # None

PagePart ==
    /\ part = "page"
    /\ \/ PageNext
       \/ /\ (\E f \in CoreSet : PutFile(f)) \/ (\E d \in DirSet : ListDir(d))
          /\ UNCHANGED <<syncVars, pageVars>>
    /\ \A c \in Calls : Apart(c)
    /\ UNCHANGED <<part, upstream, run, surprises>>

allVars == <<vars, upstream, run, surprises, part>>

MirrorProgress == MirrorPart /\ ((\E asked \in {<<>>, Details} : StartRun(asked)) \/ RunStep)
PageProgress == PagePart /\ Progress

MCSpec ==
    /\ MCInit /\ [][MirrorPart \/ PagePart]_allVars
    /\ WF_allVars(MirrorProgress \/ PageProgress)

MirrorPromise == (part = "mirror" => InitPublished) /\ [][PutFiles \/ List]_published

MirrorCatchesUp == part = "mirror" => CatchesUp

=============================================================================
