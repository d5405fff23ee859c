------------------------------ MODULE MCScores ------------------------------
(***************************************************************************)
(* Small charts around the frames at which a queue forms and dissolves,    *)
(* for the scorer of manual play and the search for the best order, and    *)
(* charts around the ends of the timing intervals, for the counts of Auto  *)
(* play, and the requests of the score range search, which scores teams    *)
(* with such counts.  The three share nothing; `part` says which one a     *)
(* behaviour is of, and the others rest in one of their initial states.    *)
(***************************************************************************)
EXTENDS QueueStates, AutoTimeline, MCScoreRange

Three == 1 .. 3
D == {3, 10}
L == 10

(* Two plain skills and one that rises to the cap after nine judgements.   *)
SomeSkills ==
    <<[up |-> 120, rateup |-> FALSE], [up |-> 200, rateup |-> FALSE], [up |-> 291, rateup |-> TRUE]>>

(* Gaps between the skills.  A skill of 10 frames queues a trigger 57      *)
(* frames after its own and not 58, a queued one of them 58 and not 59; a  *)
(* skill of 3 frames 50 and not 51; at 8 a skill of 10 is still active.    *)
FirstGaps == {57, 58}
SecondGaps == {50, 58, 59}
ThirdGaps == {8, 51, 300}

(* A chart of four skills, the last one the captain's, and of notes at and *)
(* after every trigger: at the ends of 3 and 10 frames, at the starts of   *)
(* skills queued behind them and at the ends of those.  `before` tells     *)
(* whether a note of the same frame comes before the skill or after it.    *)
(* Without notes before the last trigger, skills that end at different     *)
(* times cover the same judgements.                                        *)
Offsets == {1, 4, 5, 11, 12, 51, 52, 55, 56, 58, 59, 62, 63, 69, 70}

ChartOf(g, before, first) ==
    LET f == <<20, 20 + g[1], 20 + g[1] + g[2], 20 + g[1] + g[2] + g[3]>>
        triggered == {f[k] : k \in 1 .. 4}
        frames == triggered \cup {f[k] + o : k \in first .. 4, o \in Offsets}
        note(x) == <<[frame |-> x, skill |-> FALSE]>>
        skill(x) == <<[frame |-> x, skill |-> TRUE]>>
        at(x) == IF x \notin triggered THEN note(x)
                 ELSE IF before THEN note(x) \o skill(x) ELSE skill(x) \o note(x)
        RECURSIVE From(_)
        From(rest) == IF rest = {} THEN <<>>
                      ELSE LET x == CHOOSE x \in rest : \A y \in rest : x <= y
                           IN  at(x) \o From(rest \ {x})
    IN  From(frames)

SomeCharts ==
    {ChartOf(g, v[1], v[2]) : g \in FirstGaps \X SecondGaps \X ThirdGaps,
                              v \in {<<FALSE, 1>>, <<TRUE, 4>>}}

(* The combo changes at the 21st and 51st judgement; some charts have a    *)
(* fever around a trigger, some are the second song of a medley.           *)
SomeSettings ==
    {[combo |-> 0, medley |-> FALSE, fever |-> {}],
     [combo |-> 7, medley |-> FALSE, fever |-> 60 .. 90],
     [combo |-> 690, medley |-> TRUE, fever |-> {}]}

-----------------------------------------------------------------------------
(* Auto: a note before the trigger, some after it, one around the end of a *)
(* skill and a second skill around the gap at which it waits; every phase  *)
(* inside a frame.  A skill of 12 frames covers 48 ticks, its end is       *)
(* certain up to 50 ticks and from 57 ticks on, the second waits for sure  *)
(* up to 232 ticks and never after 240.                                    *)
AutoChart(lag, gap, offset) ==
    LET first == 20 + lag
        second == first + gap
        node(t) == [time |-> t, skill |-> FALSE]
        trigger(t) == [time |-> t, skill |-> TRUE]
    IN  <<node(first), trigger(first), node(first + 1), node(first + 20), node(first + 48 + offset),
          node(second), trigger(second), node(second + 9), node(second + 48 + offset),
          node(second + 72 + offset)>>

SomeAutoCharts ==
    {AutoChart(lag, gap, offset) : lag \in 0 .. 3, gap \in 229 .. 243, offset \in 0 .. 11}

SomeFrames == {12, 13}

SomeAutoSkills == [up : {120, 298}, rateup : BOOLEAN]

-----------------------------------------------------------------------------
VARIABLE part    \* "manual", "auto" or "range"
allVars == <<queueVars, autoVars, rangeVars, part>>

NoQueue ==
    /\ chart = ChartOf(<<57, 50, 8>>, TRUE, 4) /\ team = [card \in Cards |-> 3]
    /\ setting = CHOOSE s \in SomeSettings : TRUE
    /\ Init /\ NothingPrepared

FirstAuto ==
    /\ nodes = AutoChart(0, 240, 11) /\ lasts = 12 /\ shared = [up |-> 120, rateup |-> FALSE]
    /\ AutoStart

FirstRequest == in = Cases[1] /\ RangeStart

MCInit ==
    \/ part = "manual" /\ QueueInit /\ FirstAuto /\ FirstRequest
    \/ part = "auto" /\ NoQueue /\ AutoInit /\ FirstRequest
    \/ part = "range" /\ NoQueue /\ FirstAuto /\ RangeInit

ManualPart == part = "manual" /\ QueueNext /\ UNCHANGED <<autoVars, rangeVars, part>>
AutoPart == part = "auto" /\ AutoNext /\ UNCHANGED <<queueVars, rangeVars, part>>
RangePart == part = "range" /\ RangeNext /\ UNCHANGED <<queueVars, autoVars, part>>

MCSpec == MCInit /\ [][ManualPart \/ AutoPart \/ RangePart]_allVars
=============================================================================
