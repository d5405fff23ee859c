------------------------------ MODULE SkillQueue ------------------------------
(***************************************************************************)
(* The skills of one song on the ideal 60 FPS timeline (crates/core,       *)
(* model/chart.rs and model/chart/queue.rs).  A chart is a sequence of     *)
(* judgements; the ones marked as skills trigger the team's skills, one    *)
(* after another.  A skill that is triggered while its predecessor is      *)
(* active, or finishing, waits: it is queued and starts when the           *)
(* predecessor is over.  Which judgements a skill covers therefore depends *)
(* on all the skills before it.                                            *)
(*                                                                         *)
(* The scorer walks the judgements with a queue of start and end events.   *)
(* The searches cannot afford that for every order of the cards: they ask  *)
(* skill_queue_kind how far the dependence reaches when every skill is as  *)
(* long as the team's longest one, and then use windows that depend on the *)
(* skill alone ("none"), or on the skill and its predecessor ("single").   *)
(*                                                                         *)
(* Times are judgement frames: ceil(60 * seconds) of the code.  The code   *)
(* plays the chart twice, once in skill_queue_kind with the longest        *)
(* duration and once in the scorer; both walks meet the same skills in the *)
(* same order and share no state, so one action of this module does a      *)
(* step of both.                                                           *)
(***************************************************************************)
EXTENDS Integers, Sequences, FiniteSets

CONSTANTS Charts,     \* the charts looked at
          Cards,      \* the cards of a team
          Durations,  \* the durations of the skills, in frames
          Limit       \* 8.0 seconds in frames: the longest duration there is

Judgement == [frame : Nat, skill : BOOLEAN]

(* The judgements are sorted; the ones of the same frame keep the order of *)
(* sort_nodes.                                                             *)
ASSUME ChartsAssumption ==
    Charts \subseteq {c \in Seq(Judgement) :
                        \A m, n \in DOMAIN c : m <= n => c[m].frame <= c[n].frame}

ASSUME DurationsAssumption ==
    /\ Durations \subseteq Nat
    /\ Limit \in Nat
    /\ \A d \in Durations : d <= Limit

VARIABLES
    chart,     \* the judgements of the song
    team,      \* the duration of every card's skill
    top,       \* the longest of them
    i,         \* the judgement to be played next
    order,     \* the cards whose skills were triggered
    triggers,  \* the judgements that triggered them (skill_node_indices)
    windows,   \* the windows that the scheduler gave them
    sched,     \* the scheduler of the actual skills
    events,    \* starts and ends that are still to come
    active,    \* the activation that is in effect, 0 for none
    longest,   \* the scheduler of skill_queue_kind
    previousQueued,  \* whether that one queued its last skill
    kind       \* the result of skill_queue_kind so far

timeline == <<i, order, triggers, windows, sched, events, active>>
bound == <<longest, previousQueued, kind>>
vars == <<chart, team, top, timeline, bound>>

-----------------------------------------------------------------------------
(* The scheduler: until which frame a trigger is queued, and when a queued *)
(* skill starts.                                                           *)

Scheduler == [until : Int, next : Int]

Fresh == [until |-> -1, next |-> 0]

Queued(s, trigger) == trigger <= s.until

ScheduleAtOnce(s, trigger, duration) ==
    [event |-> trigger, end |-> trigger + 1 + duration]

(* A skill is active from its start frame to its end frame.  The event     *)
(* that starts it lies one frame boundary earlier, at the trigger itself   *)
(* when it need not wait.                                                  *)
Schedule(s, trigger, duration) ==
    LET start == IF Queued(s, trigger) THEN s.next ELSE trigger + 1
    IN  [event |-> IF Queued(s, trigger) THEN start - 1 ELSE trigger,
         end   |-> start + duration]

(* The state after a skill was scheduled: 45 frames of finishing and the   *)
(* frames of the transitions around them.                                  *)
After(w) == [until |-> w.end + 46, next |-> w.end + 48]

-----------------------------------------------------------------------------
(* The judgements of chart c a scheduled skill covers: from + 1 .. to.     *)

(* The number of judgements up to a frame (partition_point).               *)
UpTo(c, frame) == Cardinality({n \in DOMAIN c : c[n].frame <= frame})

WindowRangeLate(c, n, w) ==
    [from |-> IF w.event > c[n].frame THEN UpTo(c, w.event + 1) ELSE n,
     to   |-> UpTo(c, w.end)]

(* The skill that judgement n triggers covers the judgements after n at    *)
(* once, those of the same frame included, unless it is delayed.           *)
WindowRange(c, n, w) ==
    [from |-> IF w.event > c[n].frame THEN UpTo(c, w.event) ELSE n,
     to   |-> UpTo(c, w.end)]

(* The window of a skill that need not wait (compile_exact_skill_window).  *)
OrdinaryWindow(c, n, duration) ==
    WindowRange(c, n, Schedule(Fresh, c[n].frame, duration))

(* The window behind a predecessor that did not wait, triggered by m.      *)
PredecessorWindow(c, m, before, n, duration) ==
    WindowRange(c, n, Schedule(After(Schedule(Fresh, c[m].frame, before)),
                               c[n].frame, duration))

-----------------------------------------------------------------------------
(* What the chart tells before any team is known.                          *)

(* Neighbouring skills that the longest possible duration would queue.     *)
MayQueueShort(c, m, n) == c[n].frame - c[m].frame <= Limit + 46

MayQueue(c, m, n) == c[n].frame - c[m].frame <= Limit + 47

Neighbours(c, m, n) ==
    /\ m < n /\ c[m].skill /\ c[n].skill
    /\ \A k \in DOMAIN c : m < k /\ k < n => ~c[k].skill

(* The chart carries a warning.                                            *)
Warned(c) == \E m, n \in DOMAIN c : Neighbours(c, m, n) /\ MayQueue(c, m, n)

(* The longest duration of the team (`fold(0.0, f64::max)`).               *)
IsLongest(d) == \A card \in Cards : team[card] <= d

-----------------------------------------------------------------------------
Init ==
    /\ chart \in Charts
    /\ team \in [Cards -> Durations]
    /\ top \in {team[card] : card \in Cards} /\ IsLongest(top)
    /\ i = 1
    /\ order = <<>> /\ triggers = <<>> /\ windows = <<>> /\ events = <<>>
    /\ sched = Fresh /\ longest = Fresh
    /\ active = 0
    /\ previousQueued = FALSE
    /\ kind = "none"

(* The events at the head of the queue that lie before the judgement are   *)
(* applied; the last one of them stays in effect.                          *)
Due == Cardinality({k \in DOMAIN events :
                      \A j \in 1 .. k : events[j].frame < chart[i].frame})

ActiveNow == IF Due = 0 THEN active ELSE events[Due].active

EventsLeft == SubSeq(events, Due + 1, Len(events))


(* The number of the skill that is triggered next.                         *)
Activation == Len(order) + 1

(* A judgement without a skill.                                            *)
Play ==
    /\ i \in DOMAIN chart /\ ~chart[i].skill
    /\ active' = ActiveNow
    /\ events' = EventsLeft
    /\ i' = i + 1
    /\ UNCHANGED <<chart, team, top, order, triggers, windows, sched, bound>>

(* The bound of a skill that came behind a queue (skill_queue_kind keeps   *)
(* one scheduler through the whole chart).                                 *)
LatestRelease == After(Schedule(longest, chart[i].frame, top))

(* skill_queue_kind for the same judgement: it leaves the loop at the      *)
(* first chain, and does not start it without a warning.                   *)
Bound ==
    LET queued == Queued(longest, chart[i].frame)
    IN  /\ longest' = LatestRelease
        /\ previousQueued' = queued
        /\ kind' = IF ~Warned(chart) THEN "none"
                   ELSE IF kind = "chain" \/ (queued /\ previousQueued) THEN "chain"
                   ELSE IF queued THEN "single" ELSE kind

(* A judgement that triggers the skill of a card: it is itself still       *)
(* played under the skill that was in effect before.  A delayed skill      *)
(* queues its start, any skill queues its end.                             *)
Trigger(card) ==
    LET w == Schedule(sched, chart[i].frame, team[card])
        delayed == w.event > chart[i].frame
    IN  /\ i \in DOMAIN chart /\ chart[i].skill
        /\ order' = Append(order, card)
        /\ triggers' = Append(triggers, i)
        /\ windows' = Append(windows, WindowRange(chart, i, w))
        /\ sched' = After(w)
        /\ active' = IF delayed THEN ActiveNow ELSE Activation
        /\ events' = EventsLeft
                     \o (IF delayed THEN <<[frame |-> w.event, active |-> Activation]>> ELSE <<>>)
                     \o <<[frame |-> w.end, active |-> 0]>>
        /\ Bound
        /\ i' = i + 1
        /\ UNCHANGED <<chart, team, top>>

(* Five cards play in some order, and the sixth skill is the captain's,    *)
(* one of the five.                                                        *)
MayTrigger(card) ==
    \/ Len(order) >= Cardinality(Cards)
    \/ \A a \in DOMAIN order : order[a] # card

Next == Play \/ \E card \in Cards : MayTrigger(card) /\ Trigger(card)

Spec == Init /\ [][Next]_vars

-----------------------------------------------------------------------------
Coverage == [from : Nat, to : Nat]
Event == [frame : Int, active : 0 .. Len(order)]

(* The types of the variables (chart.rs, Ideal60SkillScheduler, queue.rs   *)
(* SkillQueueKind); an event is for an activation that was triggered.      *)
TypeOK ==
    /\ chart \in Seq(Judgement)
    /\ team \in [Cards -> Durations]
    /\ top \in Durations
    /\ i \in Nat \ {0}
    /\ order \in Seq(Cards)
    /\ triggers \in Seq(Nat) /\ Len(triggers) = Len(order)
    /\ windows \in Seq(Coverage) /\ Len(windows) = Len(order)
    /\ sched \in Scheduler /\ longest \in Scheduler
    /\ events \in Seq(Event)
    /\ active \in 0 .. Len(order)
    /\ previousQueued \in BOOLEAN
    /\ kind \in {"none", "single", "chain"}

(* queue.rs, skill_queue_kind: "Longest duration gives the latest          *)
(* reachable release at every trigger."  Whatever skills came before, the  *)
(* queue is released no later than if all of them were the longest.        *)
LongestIsLatest ==
    /\ sched.until <= longest.until
    /\ sched.next <= longest.next

(* The window that the searches use for activation a: its own without      *)
(* queues, else the one behind its predecessor (predecessor_skill_score_-  *)
(* matrix, conditional_skill_window).                                      *)
SearchWindow(a) ==
    IF kind = "none" \/ a = 1
    THEN OrdinaryWindow(chart, triggers[a], team[order[a]])
    ELSE PredecessorWindow(chart, triggers[a - 1], team[order[a - 1]],
                           triggers[a], team[order[a]])

(* skill_queue_kind tells the truth: unless it reports a chain, the window *)
(* that depends on the skill and its predecessor alone is the window of    *)
(* the full timeline, for every order of the cards and every captain; and  *)
(* without a queue the window depends on the skill alone.                  *)
KindExact ==
    kind # "chain" => \A a \in DOMAIN windows : windows[a] = SearchWindow(a)

(* The scorer and the windows agree (native_score_notes against            *)
(* scheduled_window_range): the judgement that was just played was played  *)
(* under the skill whose window holds it, and under none if no window      *)
(* does.  A queue of events that releases late or early, or a window that  *)
(* is off by one, breaks it.                                               *)
Covering(n) == {a \in DOMAIN windows : windows[a].from < n /\ n <= windows[a].to}

TimelineMatchesWindows ==
    i \in DOMAIN chart => Covering(i) = IF ActiveNow = 0 THEN {} ELSE {ActiveNow}

(* Windows do not overlap, in the order of their activations: scores can   *)
(* be added up window by window (PredecessorSkillScoreMatrix::score,       *)
(* StateSkillScores::score).                                               *)
WindowsDisjoint ==
    \A a, b \in DOMAIN windows : a < b => windows[a].to <= windows[b].from
=============================================================================
