---------------------------- MODULE AutoTimeline ----------------------------
(***************************************************************************)
(* The counts of judgements that the score range search scores teams with  *)
(* (crates/core, model/chart.rs and score_range/model.rs).                 *)
(*                                                                         *)
(* The game plays Auto at 60 to 120 frames a second and triggers skills    *)
(* somewhere inside a frame.  So the last judgement of a skill is not      *)
(* certain: its end lies in an interval (skill_end_interval), and so does  *)
(* the gap below which the next skill waits (skill_queue_gap_interval).    *)
(* An Auto score is settled with the upper ends of the first and the lower *)
(* ends of the second intervals (EnvelopeSkillScheduler).  The search has  *)
(* no time for a chart: it counts once, on the ideal 60 FPS timeline, how  *)
(* many judgements each of the six skills covers when all are equally      *)
(* long, and leaves out the durations for which something lies inside the  *)
(* intervals.                                                              *)
(*                                                                         *)
(* Times are in ticks, four to a frame of 60 FPS, so that there are        *)
(* triggers inside a frame; the tolerance of the comparisons (EPS) is a    *)
(* quarter of a tick.  One action does a step of both walks: they meet the *)
(* same judgements and share no state.                                     *)
(***************************************************************************)
EXTENDS Integers, Sequences, FiniteSetsExt, Functions

CONSTANTS AutoCharts,    \* charts in the order of Auto: notes before skills
          SkillFrames,   \* durations, in frames
          AutoSkills,    \* what a skill adds, in half percents, and whether it rises
          AutoFirst      \* the score of a judgement without a skill

AutoNode == [time : Nat, skill : BOOLEAN]

(* In the order of time. *)
Ordered(c) == \A m, n \in DOMAIN c : m < n => c[m].time <= c[n].time

ASSUME AutoAssumption ==
    /\ AutoCharts \subseteq Seq(AutoNode)
    /\ \A c \in AutoCharts : Ordered(c)
    /\ SkillFrames \subseteq Nat
    /\ AutoSkills \subseteq [up : Nat, rateup : BOOLEAN]
    /\ AutoFirst \in Nat \ {0}

VARIABLES
    nodes,      \* the chart
    lasts,      \* the duration of every skill, in frames
    shared,     \* the skill of every card
    place,      \* the judgement to be played next
    ideal,      \* Ideal60SkillScheduler: until which frame a trigger waits, and for which
    envelope,   \* EnvelopeSkillScheduler: until when it must wait, may wait, its end
    counted,    \* the events of the counting walk, the skill in effect, the counts
    played      \* the same of the scorer, and the score so far

autoVars == <<nodes, lasts, shared, place, ideal, envelope, counted, played>>

Ticks(frames) == 4 * frames

SkillCount == Cardinality({n \in DOMAIN nodes : nodes[n].skill})

-----------------------------------------------------------------------------
(* The two schedulers.                                                     *)

(* The end of a skill after its start, and the gap that makes the next     *)
(* skill wait: for sure up to the lower end, perhaps up to the upper one.  *)
EndInterval == [lower |-> Ticks(lasts) + 2, upper |-> Ticks(lasts) + 8]

QueueGapNarrow == [lower |-> Ticks(lasts) + 180 + 4, upper |-> Ticks(lasts) + 180 + 8]

QueueGap == [lower |-> Ticks(lasts) + 180 + 4, upper |-> Ticks(lasts) + 180 + 12]

Max2(x, y) == IF x >= y THEN x ELSE y

(* What EnvelopeSkillScheduler schedules for a trigger.                    *)
EnvelopeWindow(trigger) ==
    LET start == IF trigger <= envelope.must THEN Max2(trigger, envelope.end + 180) ELSE trigger
    IN  [start |-> start, end |-> start + EndInterval.upper, risk |-> trigger <= envelope.may]

EnvelopeAfter(w) ==
    [must |-> w.start + QueueGap.lower, may |-> w.start + QueueGap.upper, end |-> w.end]

JudgementFrame(time) == (time + 3) \div 4

(* What Ideal60SkillScheduler schedules: the start event of a skill that   *)
(* waits lies one frame before its first frame.                            *)
IdealWindow(trigger) ==
    LET frame == JudgementFrame(trigger)
        waits == frame <= ideal.until
        first == IF waits THEN ideal.next ELSE frame + 1
    IN  [start |-> IF waits THEN Ticks(first - 1) ELSE trigger, end |-> Ticks(first + lasts)]

IdealAfter(w) ==
    LET end == w.end \div 4 IN [until |-> end + 46, next |-> end + 48]

-----------------------------------------------------------------------------
(* Both walks keep a queue of events [time, active]: a skill starts or, 0, *)
(* none is in effect any more.                                             *)
AutoDue(events) ==
    Cardinality({k \in DOMAIN events : \A j \in 1 .. k : events[j].time < nodes[place].time})

InEffect(walk) ==
    IF AutoDue(walk.events) = 0 THEN walk.active ELSE walk.events[AutoDue(walk.events)].active

Remaining(walk) == SubSeq(walk.events, AutoDue(walk.events) + 1, Len(walk.events))

Triggered(walk, w, number) ==
    LET delayed == w.start > nodes[place].time
    IN  [events |-> Remaining(walk)
                    \o (IF delayed THEN <<[time |-> w.start, active |-> number]>> ELSE <<>>)
                    \o <<[time |-> w.end, active |-> 0]>>,
         active |-> IF delayed THEN InEffect(walk) ELSE number]

(* The multiplier of the k-th judgement that a skill covers, half percents *)
(* over one; a rising skill is capped at 300.                              *)
Added(k) ==
    shared.up + IF shared.rateup /\ shared.up <= 300 THEN Min({k, 300 - shared.up}) ELSE 0

Settled(added) == (AutoFirst * (200 + added)) \div 200

AutoStart ==
    /\ place = 1
    /\ ideal = [until |-> -1, next |-> 0]
    /\ envelope = [must |-> -1, may |-> -1, end |-> 0]
    /\ counted = [events |-> <<>>, active |-> 0, inactive |-> 0,
                  counts |-> [a \in 1 .. SkillCount |-> 0], starts |-> <<>>, queueRisk |-> FALSE]
    /\ played = [events |-> <<>>, active |-> 0, rise |-> 0, score |-> 0]

AutoInit ==
    /\ nodes \in AutoCharts
    /\ lasts \in SkillFrames
    /\ shared \in AutoSkills
    /\ AutoStart

Number == Len(counted.starts) + 1

(* A judgement is counted for the skill in effect, and scored under the    *)
(* one that is in effect on the other timeline.                            *)
CountNow ==
    LET a == InEffect(counted)
    IN  IF a = 0 THEN [counted EXCEPT !.inactive = @ + 1] ELSE [counted EXCEPT !.counts[a] = @ + 1]

RiseOf == IF InEffect(played) = played.active THEN played.rise + 1 ELSE 1

ScoreNow ==
    [played EXCEPT !.score = @ + Settled(IF InEffect(played) = 0 THEN 0 ELSE Added(RiseOf)),
                   !.rise = RiseOf]

PlayNote ==
    /\ place \in DOMAIN nodes /\ ~nodes[place].skill
    /\ counted' = [CountNow EXCEPT !.events = Remaining(counted), !.active = InEffect(counted)]
    /\ played' = [ScoreNow EXCEPT !.events = Remaining(played), !.active = InEffect(played)]
    /\ place' = place + 1
    /\ UNCHANGED <<nodes, lasts, shared, ideal, envelope>>

(* A skill: the judgement that triggers it is not yet under it.            *)
PlaySkill ==
    LET time == nodes[place].time
        i == IdealWindow(time)
        e == EnvelopeWindow(time)
        c == Triggered(counted, i, Number)
        p == Triggered(played, e, Number)
    IN  /\ place \in DOMAIN nodes /\ nodes[place].skill
        /\ counted' = [CountNow EXCEPT !.events = c.events, !.active = c.active,
                                       !.starts = Append(@, e.start),
                                       !.queueRisk = @ \/ e.risk]
        /\ played' = [ScoreNow EXCEPT !.events = p.events, !.active = p.active,
                                      !.rise = IF p.active = Number THEN 0 ELSE @]
        /\ ideal' = IdealAfter(i)
        /\ envelope' = EnvelopeAfter(e)
        /\ place' = place + 1
        /\ UNCHANGED <<nodes, lasts, shared>>

AutoNext == PlayNote \/ PlaySkill

AutoSpec == AutoInit /\ [][AutoNext]_autoVars

-----------------------------------------------------------------------------
(* A judgement lies where it depends on the frame rate whether a skill     *)
(* still covers it: the first one from the lower end on is not after the   *)
(* upper one (has_skill_tail_risk_at).                                     *)
TailRiskAt(start) ==
    LET later == {n \in DOMAIN nodes : nodes[n].time >= start + EndInterval.lower}
    IN  later # {} /\ nodes[Min(later)].time <= start + EndInterval.upper

TailRisk == \E k \in DOMAIN counted.starts : TailRiskAt(counted.starts[k])

(* is_safe_for_duration: the search keeps such durations only.             *)
Safe == ~TailRisk /\ ~counted.queueRisk

(* The score from the counts: judgements of one multiplier are rounded     *)
(* once and multiplied; a rising skill starts anew in every window         *)
(* (from_score_range_counts, checked_score).                               *)
CountScoreOnce ==
    counted.inactive * Settled(0)
    + IF shared.rateup
      THEN MapThenSumSet(LAMBDA k : Settled(Added(k)), 1 .. FoldFunction(+, 0, counted.counts))
      ELSE FoldFunction(+, 0, counted.counts) * Settled(shared.up)

CountScore ==
    counted.inactive * Settled(0)
    + IF shared.rateup
      THEN FoldFunction(+, 0, [a \in DOMAIN counted.counts |->
               MapThenSumSet(LAMBDA k : Settled(Added(k)), 1 .. counted.counts[a])])
      ELSE FoldFunction(+, 0, counted.counts) * Settled(shared.up)

(* The score range search scores what is played (score_range/model.rs,     *)
(* is_safe_for_duration and compressed_score against get_score of an Auto  *)
(* chart): for a duration without risk, the counts of the 60 FPS timeline  *)
(* give the score that the scorer settles judgement by judgement on the    *)
(* timeline of the intervals, though the two put starts and ends at other  *)
(* times; and every judgement is counted once.                             *)
RangeScoresExact ==
    place = Len(nodes) + 1 =>
        /\ counted.inactive + FoldFunction(+, 0, counted.counts) = Len(nodes)
        /\ Safe => CountScore = played.score
=============================================================================
