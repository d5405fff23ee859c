------------------------------ MODULE HttpServer ------------------------------
(***************************************************************************)
(* The HTTP server (apps/server): how it starts, how it keeps the game     *)
(* data up to date, what it answers, and how it stops.                     *)
(*                                                                         *)
(* At start the settings say whether the game data is synchronised.  If so *)
(* a synchronisation runs to its end before anything else, and a thread    *)
(* repeats it from time to time.  Then three calculators read the files,   *)
(* once and for all, unless they use a cache of their own (GameDataCache). *)
(*                                                                         *)
(* Feedback is sent by mail, a few times in a window for each client.  A   *)
(* handler takes the time, then the lock under which the attempts are      *)
(* kept: attempts may be recorded in another order than their times.       *)
(*                                                                         *)
(* Left out: what requests and answers contain, and the options that say   *)
(* what a synchronisation fetches.  Restarts are left out too.             *)
(***************************************************************************)
EXTENDS Integers, FiniteSets, Sequences

CONSTANTS Starts,        \* the ways to start the server (see StartType)
          Workers,       \* requests that are handled at a time
          Clients,       \* the clients that the limiter tells apart
          Attempts,         \* attempts of a client in a window,
          Window,        \* and the length of the window
          DataFiles,     \* how many files a calculator reads
          LastTick,      \* bound on the time
          LastData,      \* bound on the versions of the game data
          LastRound,     \* bound on the synchronisations
          NotSet         \* a setting that is not given; no file, no request

ASSUME ServerAssumption ==
    /\ Attempts \in Nat \ {0} /\ Window \in Nat \ {0} /\ DataFiles \in Nat
    /\ NotSet \notin Int /\ NotSet \notin BOOLEAN

-----------------------------------------------------------------------------
(* The settings of the synchronisation: arguments, a file named by them or *)
(* by the environment, and the environment.  Options: "event" stands for   *)
(* the names of what to fetch, "limits" for valid numbers of connections   *)
(* and attempts, "zero" for a zero there, "extra" for arguments handed on, *)
(* "blank" for an empty one, "command" for the program, "bad" for text     *)
(* that does not parse, "garbled" for a whole file that does not.            *)
Options == {"event", "limits", "zero", "extra", "blank", "command", "bad", "garbled"}

Settings == [enabled : BOOLEAN \cup {NotSet}, interval : Nat \cup {NotSet},
             options : SUBSET Options]

Programs == {"explicit", "local", "path", "cargo"}

StartType ==
    [cli : Settings, file : Settings \cup {NotSet}, env : Settings,
     programs : SUBSET Programs,               \* that can be found
     data : {"files", "mirror", "none"},       \* where calculators read
     players : BOOLEAN,                        \* the database of profiles is named
     mail : BOOLEAN, calculations : BOOLEAN]   \* SMTP is set up; /v1 is on

ASSUME StartAssumption == Starts \subseteq StartType

(* has_sync_scope, file_has_sync_scope *)
HasScope(settings) ==
    settings # NotSet /\ settings.options \ {"command"} # {}

OfFile(start, field) == IF start.file = NotSet THEN NotSet ELSE start.file[field]

Or(a, b) == IF a = NotSet THEN b ELSE a

Interval(start) ==
    Or(Or(start.cli.interval, OfFile(start, "interval")), start.env.interval)

SyncEnabled(start) ==
    \/ Or(Or(Or(start.cli.enabled, OfFile(start, "enabled")), start.env.enabled), FALSE)
    \/ HasScope(start.cli)
    \/ /\ OfFile(start, "enabled") = NotSet
       /\ HasScope(start.file) \/ Interval(start) # NotSet

OptionsOf(settings) == IF settings = NotSet THEN {} ELSE settings.options

(* game_data_sync_config_from_args fails.  An option of the arguments hides *)
(* that of the file.                                                        *)
BadSettings(start) ==
    LET file == OptionsOf(start.file)
        given == start.cli.options \cap {"limits", "zero"}
        numbers == IF given # {} THEN given ELSE file
    IN  \/ "bad" \in start.cli.options \/ "garbled" \in file
        \/ SyncEnabled(start) /\ ("zero" \in numbers \/ "blank" \in start.cli.options \cup file)
        \/ SyncEnabled(start) /\ "bad" \in file

Periodic(start) == SyncEnabled(start) /\ Interval(start) # 0

ExplicitProgram(start) ==
    "command" \in start.cli.options \cup OptionsOf(start.file) \cup start.env.options

-----------------------------------------------------------------------------
VARIABLES start,      \* how the server was started (never changes)
          phase,      \* of the main thread
          round,      \* the synchronisation that runs: the program that is tried or
                      \* runs, the data it found, and the programs that ran
          rounds,     \* how many there were
          released,   \* the game data there is
          onDisk,     \* the game data in the directory
          promised,   \* the game data the first synchronisation found, once it has
                      \* gone well (auxiliary)
          filesRead,     \* of each calculator the version of every file it read
          tick,       \* the clock
          requests,   \* the requests in the server: route, client, stage, time
          attempts,   \* of each client the times the limiter keeps
          admitted    \* of each client all attempts: time, and when it was recorded
                      \* (auxiliary)

roundVars == <<round, rounds, onDisk, promised>>
mailVars == <<attempts, admitted>>
serverVars == <<start, phase, roundVars, released, filesRead, tick, requests, mailVars>>

Calculators == 1..3    \* maximizer, score range searcher, points searcher, in this order

Phases == {"start", "sync", "load", "serving", "draining", "stopped", "failed"}

Routes == {"feedback", "player", "config", "candidates", "fetch"}
CalculationRoutes == {"player", "config", "candidates"}

NoRound == [stage |-> "none", found |-> 0, ran |-> {}]

NoRequest == [route |-> "none", client |-> NotSet, stage |-> "none", time |-> 0, code |-> 0]

ServerInit ==
    /\ start \in Starts
    /\ phase = "start"
    /\ round = NoRound /\ rounds = 0
    /\ released = 1 /\ onDisk \in 0..1 /\ promised = 0
    /\ filesRead = [c \in Calculators |-> <<>>]
    /\ tick = 0
    /\ requests = [w \in Workers |-> NoRequest]
    /\ attempts = [c \in Clients |-> <<>>] /\ admitted = [c \in Clients |-> <<>>]

EnterPhase(p) == phase' = p

-----------------------------------------------------------------------------
(* Starting, and the synchronisations.                                     *)

BeginRound ==
    /\ round' = [NoRound EXCEPT !.stage = IF ExplicitProgram(start) THEN "explicit" ELSE "local"]
    /\ rounds' = rounds + 1
    /\ UNCHANGED <<onDisk, promised>>

\* Mutant of Configure: the first synchronisation is left to the thread.
ConfigureInBackground ==
    /\ phase = "start" /\ ~BadSettings(start) /\ EnterPhase("load")
    /\ IF SyncEnabled(start) THEN BeginRound ELSE UNCHANGED roundVars
    /\ UNCHANGED <<start, released, filesRead, tick, requests, mailVars>>

Configure ==
    /\ phase = "start"
    /\ \/ BadSettings(start) /\ EnterPhase("failed") /\ UNCHANGED roundVars
       \/ ~BadSettings(start) /\ ~SyncEnabled(start) /\ EnterPhase("load") /\ UNCHANGED roundVars
       \/ ~BadSettings(start) /\ SyncEnabled(start) /\ EnterPhase("sync") /\ BeginRound
    /\ UNCHANGED <<start, released, filesRead, tick, requests, mailVars>>

(* The first synchronisation holds up the start, whatever comes of it.     *)
RoundOver(well) ==
    /\ round' = NoRound
    /\ phase' = IF phase = "sync" THEN "load" ELSE phase
    /\ promised' = IF rounds = 1 /\ well THEN round.found ELSE promised

(* Without a program given, the one beside the server is tried, then the    *)
(* one on the path, then cargo; only a program that is not found is         *)
(* replaced by the next.                                                    *)
TryProgram ==
    /\ round.stage \in Programs
    /\ \/ /\ round.stage \in start.programs
          /\ round' = [stage |-> "running", found |-> released,
                       ran |-> round.ran \cup {round.stage}]
          /\ UNCHANGED <<phase, promised>>
       \/ /\ round.stage \in {"local", "path"} \ start.programs
          /\ round' = [round EXCEPT !.stage = IF @ = "local" THEN "path" ELSE "cargo"]
          /\ UNCHANGED <<phase, promised>>
       \/ \* it cannot be run, or there is no other
          round.stage \in start.programs \cup {"explicit", "cargo"} /\ RoundOver(FALSE)
    /\ UNCHANGED <<start, rounds, onDisk, released, filesRead, tick, requests, mailVars>>

ProgramEnds ==
    /\ round.stage = "running"
    /\ \/ onDisk' = round.found /\ RoundOver(TRUE)
       \/ onDisk' \in {onDisk, round.found} /\ RoundOver(FALSE)
    /\ UNCHANGED <<start, rounds, released, filesRead, tick, requests, mailVars>>

(* The thread that repeats the synchronisation. *)
PeriodicRound ==
    /\ phase \in {"load", "serving", "draining"} /\ Periodic(start)
    /\ round = NoRound /\ rounds < LastRound
    /\ BeginRound
    /\ UNCHANGED <<start, phase, released, filesRead, tick, requests, mailVars>>

NewData ==
    /\ released < LastData /\ released' = released + 1
    /\ UNCHANGED <<start, phase, roundVars, filesRead, tick, requests, mailVars>>

Read(c) == Len(filesRead[c]) = DataFiles

LoadFile(c) ==
    /\ phase = "load" /\ start.data = "files" /\ onDisk > 0
    /\ ~Read(c) /\ \A d \in Calculators : d < c => Read(d)
    /\ filesRead' = [filesRead EXCEPT ![c] = Append(@, onDisk)]
    /\ UNCHANGED <<start, phase, roundVars, released, tick, requests, mailVars>>

Serve ==
    /\ phase = "load" /\ EnterPhase("serving")
    /\ (start.data = "files" => \A c \in Calculators : Read(c))
    /\ UNCHANGED <<start, roundVars, released, filesRead, tick, requests, mailVars>>

(* A file, the database, the mail settings or the address are not usable. *)
StartFails ==
    /\ phase = "load" /\ EnterPhase("failed")
    /\ UNCHANGED <<start, roundVars, released, filesRead, tick, requests, mailVars>>

-----------------------------------------------------------------------------
(* Requests.                                                               *)

Handled(w, stage) == requests[w].stage = stage
Reply(w, code) ==
    requests' = [requests EXCEPT ![w] = [NoRequest EXCEPT !.stage = "answered", !.code = code]]
Continue(w, stage) == requests' = [requests EXCEPT ![w].stage = stage]

Accept(w, route, client) ==
    /\ phase = "serving" /\ Handled(w, "none")
    /\ requests' = [requests EXCEPT ![w] =
            [NoRequest EXCEPT !.route = route, !.client = client, !.stage = "received"]]
    /\ UNCHANGED <<start, phase, roundVars, released, filesRead, tick, mailVars>>

Respond(w) ==
    /\ Handled(w, "answered")
    /\ requests' = [requests EXCEPT ![w] = NoRequest]
    /\ UNCHANGED <<start, phase, roundVars, released, filesRead, tick, mailVars>>

(* There is what the route needs. *)
Configured(route) ==
    /\ route \in {"player", "config"} => start.data # "none"
    /\ route = "player" => start.players

(* Anything but feedback: calculations, and what is fetched for a page. *)
Dispatch(w) ==
    LET route == requests[w].route
        open == route \in CalculationRoutes => start.calculations
    IN  /\ Handled(w, "received") /\ route # "feedback"
        /\ \/ ~open /\ Reply(w, 404)
           \/ open /\ ~Configured(route) /\ Reply(w, 503)
           \/ open /\ route \in {"candidates", "fetch"} /\ Reply(w, 400)
           \/ open /\ route = "candidates" /\ Reply(w, 200)
           \/ open /\ route # "candidates" /\ Configured(route) /\ Continue(w, "work")
        /\ UNCHANGED <<start, phase, roundVars, released, filesRead, tick, mailVars>>

(* data_error_response; BAD_GATEWAY for what was to be fetched. *)
Codes(route) == IF route = "fetch" THEN {200, 502} ELSE {200, 400, 404, 503}

WorkEnds(w) ==
    /\ Handled(w, "work")
    /\ \E code \in Codes(requests[w].route) : Reply(w, code)
    /\ UNCHANGED <<start, phase, roundVars, released, filesRead, tick, mailVars>>

(* FeedbackRequest::validate refuses it; or it fills in the hidden field,   *)
(* and is told that all is well.                                           *)
TurnAway(w) == \E code \in {200, 400} : Reply(w, code)

(* Feedback up to the limiter, which takes the time first. *)
CheckFeedback(w) ==
    /\ Handled(w, "received") /\ requests[w].route = "feedback"
    /\ \/ TurnAway(w)
       \/ ~start.mail /\ Reply(w, 503)
       \/ /\ start.mail
          /\ requests' = [requests EXCEPT ![w].stage = "admit", ![w].time = tick]
    /\ UNCHANGED <<start, phase, roundVars, released, filesRead, tick, mailVars>>

\* Mutant of Outdated: the window is a tick too short.
OutdatedEarly(times, n, cutoff) ==
    /\ \A i \in 1..n : times[i] <= cutoff + 1
    /\ n < Len(times) => times[n + 1] > cutoff + 1

(* The first n of times are dropped, as those that are too old. *)
Outdated(times, n, cutoff) ==
    /\ \A i \in 1..n : times[i] <= cutoff
    /\ n < Len(times) => times[n + 1] > cutoff

(* FeedbackRateLimiter::check, with the lock held. *)
AdmitFeedback(w) ==
    LET c == requests[w].client
        time == requests[w].time
    IN  /\ Handled(w, "admit")
        /\ \E n \in 0..Len(attempts[c]) :
               LET kept == SubSeq(attempts[c], n + 1, Len(attempts[c]))
               IN  /\ Outdated(attempts[c], n, time - Window)
                   /\ IF Len(kept) >= Attempts
                      THEN /\ attempts' = [attempts EXCEPT ![c] = kept]
                           /\ Reply(w, 429) /\ UNCHANGED admitted
                      ELSE /\ attempts' = [attempts EXCEPT ![c] = Append(kept, time)]
                           /\ admitted' = [admitted EXCEPT ![c] =
                                  Append(@, [time |-> time, recorded |-> tick])]
                           /\ Continue(w, "send")
        /\ UNCHANGED <<start, phase, roundVars, released, filesRead, tick>>

(* The mail is handed over or not; the attempt counts either way. *)
SendFeedback(w) ==
    /\ Handled(w, "send")
    /\ \E code \in {200, 502} : Reply(w, code)
    /\ UNCHANGED <<start, phase, roundVars, released, filesRead, tick, mailVars>>

Tick ==
    /\ phase = "serving" /\ tick < LastTick /\ tick' = tick + 1
    /\ UNCHANGED <<start, phase, roundVars, released, filesRead, requests, mailVars>>

(* A signal.  A server that serves finishes its requests first. *)
Interrupt ==
    /\ phase \in {"start", "sync", "load", "serving"}
    /\ EnterPhase(IF phase = "serving" THEN "draining" ELSE "stopped")
    /\ UNCHANGED <<start, roundVars, released, filesRead, tick, requests, mailVars>>

Drained ==
    /\ phase = "draining" /\ \A w \in Workers : Handled(w, "none")
    /\ EnterPhase("stopped")
    /\ UNCHANGED <<start, roundVars, released, filesRead, tick, requests, mailVars>>

HandlerStep(w) ==
    \/ Dispatch(w) \/ WorkEnds(w)
    \/ CheckFeedback(w) \/ AdmitFeedback(w) \/ SendFeedback(w)
    \/ Respond(w)

RoundStep == TryProgram \/ ProgramEnds

Living == phase \notin {"stopped", "failed"}

ServerNext ==
    /\ Living
    /\ \/ Configure \/ RoundStep \/ PeriodicRound \/ NewData
       \/ (\E c \in Calculators : LoadFile(c)) \/ Serve \/ StartFails
       \/ (\E w \in Workers, route \in Routes, client \in Clients : Accept(w, route, client))
       \/ (\E w \in Workers : HandlerStep(w))
       \/ Tick \/ Interrupt \/ Drained

ServerSpec == ServerInit /\ [][ServerNext]_serverVars
-----------------------------------------------------------------------------
ServerTypeOK ==
    /\ start \in Starts /\ phase \in Phases
    /\ round \in [stage : Programs \cup {"none", "running"}, found : Nat, ran : SUBSET Programs]
    /\ rounds \in Nat /\ released \in Nat /\ onDisk \in Nat /\ promised \in Nat
    /\ filesRead \in [Calculators -> Seq(Nat)]
    /\ tick \in Nat
    /\ requests \in [Workers -> [route : Routes \cup {"none"}, client : Clients \cup {NotSet},
                        stage : {"none", "received", "admit", "send", "work", "answered"},
                        time : Nat, code : {0, 200, 400, 404, 429, 502, 503}]]
    /\ attempts \in [Clients -> Seq(Nat)]
    /\ admitted \in [Clients -> Seq([time : Nat, recorded : Nat])]

(* Of more attempts of a client than fit in a window the last is recorded   *)
(* a window after the first was made, in whatever order their handlers come *)
(* to the lock.                                                             *)
RateHolds ==
    \A c \in Clients : \A i \in 1..Len(admitted[c]) :
        i + Attempts <= Len(admitted[c]) =>
            admitted[c][i].time + Window <= admitted[c][i + Attempts].recorded

(* No calculator has read a file that is older than what the first          *)
(* synchronisation found, if that went well, however many follow it.        *)
LoadsSynchronised ==
    \A c \in Calculators : \A i \in 1..Len(filesRead[c]) : filesRead[c][i] >= promised

=============================================================================
