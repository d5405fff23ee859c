------------------------------ MODULE MCDesktop ------------------------------
(***************************************************************************)
(* The native programs on small instances: the two stores of the desktop   *)
(* client, the HTTP server, and its imports of accounts.  They share       *)
(* nothing: no command touches both stores, which hold different mutexes,  *)
(* and an import uses no game data.  So a behaviour here is one of a       *)
(* single part, and `part` says of which.                                  *)
(***************************************************************************)
EXTENDS LocalStore, GameDataCache, HttpServer, AccountImport, TLC

\* The files of a small mirror.
OneRequired == <<"cards">>
TwoRequired == <<"cards", "songs">>
OneRepair == <<"cardsFix">>
NoFile == <<>>
OneDetail == <<"event1">>
TwoDetails == <<"event1", "event2">>

\* Pairs of commands that overlap.
Overlapping == {<<"calculate", "sync">>, <<"clear", "calculate">>}

Cards == {"cards"}
Symmetry == Permutations(Threads)

\* The ways to start the server.  Three of them answer requests, one with a database
\* and a mirror and one without calculations, one sends feedback, and the others
\* synchronise, with every way to ask for it, to find the program, and to be refused.
Unset == [enabled |-> NotSet, interval |-> NotSet, options |-> {}]
Plain == [cli |-> Unset, file |-> NotSet, env |-> Unset, programs |-> {}, data |-> "none",
          players |-> FALSE, mail |-> FALSE, calculations |-> TRUE]
Enabled(options) == [Unset EXCEPT !.enabled = TRUE, !.options = options]
FromFiles(found) == [Plain EXCEPT !.data = "files", !.programs = found]

StartsDef ==
    {Plain, [Plain EXCEPT !.data = "mirror", !.players = TRUE],
     [Plain EXCEPT !.calculations = FALSE], [Plain EXCEPT !.mail = TRUE],
     [FromFiles({"explicit"}) EXCEPT !.env = Enabled({"command"})],
     [FromFiles({"local", "path"}) EXCEPT !.cli = [Unset EXCEPT !.options = {"event"}]],
     [FromFiles({"path"}) EXCEPT !.file = [Unset EXCEPT !.options = {"limits"}, !.interval = 0]],
     [FromFiles({"cargo"}) EXCEPT !.env = [Unset EXCEPT !.interval = 1]],
     [FromFiles({}) EXCEPT !.file = [Unset EXCEPT !.enabled = FALSE], !.env = Enabled({})],
     [FromFiles({}) EXCEPT !.file = Enabled({"zero"})]}

VARIABLE part    \* "profiles", "data", "server" or "import"
allVars == <<localVars, vars, serverVars, importVars, part>>

MCInit ==
    /\ part \in {"profiles", "data", "server", "import"}
    /\ LocalInit /\ Init /\ ServerInit /\ ImportInit
    /\ part # "data" => source = "mirror" /\ ~patient /\ listed = Unlisted
    /\ part # "profiles" => reliable
    /\ part # "server" => start = Plain /\ onDisk = 0
    /\ part # "import" => current = Embedded /\ defaults = NoStored

ProfilesPart == part = "profiles" /\ LocalNext /\ UNCHANGED <<vars, serverVars, importVars, part>>
DataPart == part = "data" /\ Next /\ UNCHANGED <<localVars, serverVars, importVars, part>>
ImportPart == part = "import" /\ ImportNext /\ UNCHANGED <<localVars, vars, serverVars, part>>

\* Only a server that synchronises gets new data, and no requests beside it; time
\* matters to feedback.
ServerPart ==
    /\ part = "server"
    /\ ServerNext \/ (~Living /\ UNCHANGED serverVars)
    /\ IF SyncEnabled(start) THEN UNCHANGED requests ELSE UNCHANGED released
    /\ IF start.mail
       THEN \A w \in Workers : requests'[w].route \in {"feedback", "none"}
       ELSE UNCHANGED tick
    /\ UNCHANGED <<localVars, vars, importVars, part>>

MCSpec == MCInit /\ [][ProfilesPart \/ DataPart \/ ServerPart \/ ImportPart]_allVars

DesktopSymmetry == Symmetry \cup Permutations(Ids \ {Default})
=============================================================================
