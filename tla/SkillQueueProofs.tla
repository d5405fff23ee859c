--------------------------- MODULE SkillQueueProofs ---------------------------
(***************************************************************************)
(* For every chart, team and set of durations: the types, that the longest *)
(* duration gives the latest release, that the kind of queue says how far  *)
(* a window depends on earlier skills, and that windows do not overlap.    *)
(***************************************************************************)
EXTENDS QueueStates, FiniteSetTheorems, SequenceTheorems, WellFoundedInduction, TLAPS

(* ---- Charts and windows ------------------------------------------------ *)

LEMMA ChartFacts ==
    ASSUME NEW c \in Charts
    PROVE  /\ c \in Seq(Judgement) /\ Len(c) \in Nat /\ DOMAIN c = 1 .. Len(c)
           /\ \A n \in DOMAIN c : c[n].frame \in Nat /\ c[n].skill \in BOOLEAN
           /\ \A m, n \in DOMAIN c : m <= n => c[m].frame <= c[n].frame
<1>1. c \in Seq(Judgement) /\ \A m, n \in DOMAIN c : m <= n => c[m].frame <= c[n].frame
  BY ChartsAssumption
<1>2. Len(c) \in Nat /\ DOMAIN c = 1 .. Len(c) /\ \A n \in DOMAIN c : c[n] \in Judgement
  BY <1>1
<1> QED BY <1>1, <1>2 DEF Judgement

LEMMA UpToSets ==
    ASSUME NEW c \in Charts, NEW f \in Int
    PROVE  /\ UpTo(c, f) \in Nat
           /\ IsFiniteSet({n \in DOMAIN c : c[n].frame <= f})
<1>1. DOMAIN c = 1 .. Len(c) /\ Len(c) \in Nat
  BY ChartFacts
<1>2. IsFiniteSet(DOMAIN c)
  BY <1>1, FS_Interval
<1>3. IsFiniteSet({n \in DOMAIN c : c[n].frame <= f})
  BY <1>2, FS_Subset
<1> QED BY <1>3, FS_CardinalityType DEF UpTo

LEMMA UpToMonotone ==
    ASSUME NEW c \in Charts, NEW f \in Int, NEW g \in Int, f <= g
    PROVE  UpTo(c, f) <= UpTo(c, g)
<1>1. \A n \in DOMAIN c : c[n].frame \in Nat
  BY ChartFacts
<1>2. {n \in DOMAIN c : c[n].frame <= f} \in SUBSET {n \in DOMAIN c : c[n].frame <= g}
  BY <1>1
<1> QED BY <1>2, UpToSets, FS_Subset DEF UpTo

(* The judgements up to a frame are a prefix of the chart.                 *)
LEMMA UpToReaches ==
    ASSUME NEW c \in Charts, NEW n \in DOMAIN c, NEW f \in Int, c[n].frame <= f
    PROVE  n <= UpTo(c, f)
<1>1. n \in Nat /\ 1 .. n \subseteq DOMAIN c
  BY ChartFacts
<1>2. \A m \in 1 .. n : c[m].frame \in Nat /\ c[m].frame <= c[n].frame
  BY <1>1, ChartFacts
<1>3. 1 .. n \in SUBSET {m \in DOMAIN c : c[m].frame <= f}
  BY <1>1, <1>2, ChartFacts
<1>4. Cardinality(1 .. n) <= UpTo(c, f)
  BY <1>3, UpToSets, FS_Subset DEF UpTo
<1> QED BY <1>1, <1>4, FS_Interval, ChartFacts

LEMMA UpToStops ==
    ASSUME NEW c \in Charts, NEW n \in DOMAIN c, NEW f \in Int, f < c[n].frame
    PROVE  UpTo(c, f) <= n
<1>1. n \in Nat /\ DOMAIN c = 1 .. Len(c) /\ Len(c) \in Nat
  BY ChartFacts
<1>2. \A m \in DOMAIN c : c[m].frame <= f => m \in 1 .. n
  BY <1>1, ChartFacts
<1>3. {m \in DOMAIN c : c[m].frame <= f} \in SUBSET (1 .. n)
  BY <1>2
<1>4. IsFiniteSet(1 .. n)
  BY <1>1, FS_Interval
<1>5. UpTo(c, f) <= Cardinality(1 .. n)
  BY <1>3, <1>4, FS_Subset DEF UpTo
<1> QED BY <1>1, <1>5, FS_Interval

LEMMA ScheduleFacts ==
    ASSUME NEW s \in Scheduler, NEW t \in Nat, NEW d \in Nat
    PROVE  LET w == Schedule(s, t, d)
           IN  /\ w.event \in Int /\ w.end \in Int
               /\ After(w) \in Scheduler
               /\ After(w).until = w.end + 46 /\ After(w).next = w.end + 48
               /\ t <= s.until => w.event = s.next - 1 /\ w.end = s.next + d
               /\ ~(t <= s.until) => w.event = t /\ w.end = t + 1 + d
  BY DEF Scheduler, Schedule, Queued, After

LEMMA FreshFacts == Fresh \in Scheduler /\ Fresh.until = -1
  BY DEF Fresh, Scheduler

LEMMA ScheduleEnd ==
    ASSUME NEW s \in Scheduler, NEW t \in Nat, NEW d \in Nat
    PROVE  /\ Schedule(s, t, d).end \in Int
           /\ t <= s.until => Schedule(s, t, d).end = s.next + d
           /\ ~(t <= s.until) => Schedule(s, t, d).end = t + 1 + d
  BY DEF Scheduler, Schedule, Queued

LEMMA AfterFields ==
    ASSUME NEW w
    PROVE  After(w).until = w.end + 46 /\ After(w).next = w.end + 48
  BY DEF After

(* A first skill starts at once.                                           *)
LEMMA FreshSchedule ==
    ASSUME NEW t \in Nat, NEW d \in Nat
    PROVE  /\ Schedule(Fresh, t, d).end = t + 1 + d
           /\ After(Schedule(Fresh, t, d)).until = t + 1 + d + 46
  BY DEF Schedule, Queued, Fresh, After

LEMMA WindowType ==
    ASSUME NEW c \in Charts, NEW n \in DOMAIN c, NEW s \in Scheduler, NEW d \in Nat
    PROVE  WindowRange(c, n, Schedule(s, c[n].frame, d)) \in Coverage
<1>1. c[n].frame \in Nat /\ n \in Nat
  BY ChartFacts
<1> DEFINE w == Schedule(s, c[n].frame, d)
<1>2. w.event \in Int /\ w.end \in Int
  BY <1>1, ScheduleFacts
<1>3. UpTo(c, w.event) \in Nat /\ UpTo(c, w.end) \in Nat
  BY <1>2, UpToSets
<1> QED BY <1>1, <1>3 DEF WindowRange, Coverage

(* A skill that need not wait is scheduled the same whatever came before.  *)
LEMMA UnqueuedAlike ==
    ASSUME NEW s \in Scheduler, NEW t \in Nat, NEW d \in Nat, ~(t <= s.until)
    PROVE  Schedule(s, t, d) = Schedule(Fresh, t, d)
  BY DEF Scheduler, Schedule, Queued, Fresh

(* ---- The inductive invariant ------------------------------------------- *)

Inputs ==
    /\ chart \in Charts
    /\ team \in [Cards -> Durations]
    /\ top \in Durations
    /\ \A card \in Cards : team[card] <= top

Progress ==
    /\ i \in Nat \ {0}
    /\ order \in Seq(Cards)
    /\ triggers \in Seq(Nat) /\ Len(triggers) = Len(order)
    /\ windows \in Seq(Coverage) /\ Len(windows) = Len(order)

SchedulerTypes ==
    /\ sched \in Scheduler /\ longest \in Scheduler
    /\ previousQueued \in BOOLEAN
    /\ kind \in {"none", "single", "chain"}

(* The last trigger is a skill of the chart, and no other followed it.     *)
LastTrigger ==
    Len(order) > 0 =>
        LET m == triggers[Len(order)]
        IN  /\ m \in DOMAIN chart /\ m < i /\ chart[m].skill
            /\ \A k \in DOMAIN chart : m < k /\ k < i => ~chart[k].skill

(* How the two schedulers hang together.                                   *)
Releases ==
    /\ Len(order) = 0 => sched = Fresh /\ longest = Fresh /\ ~previousQueued
    /\ Len(order) > 0 => /\ sched.next = sched.until + 2
                         /\ longest.next = longest.until + 2
    /\ LongestIsLatest

(* If the longest skill did not wait, no skill did.                        *)
LastSkill ==
    Len(order) > 0 =>
        LET t == chart[triggers[Len(order)]].frame
            d == team[order[Len(order)]]
        IN  /\ sched.until >= t + d + 47
            /\ ~previousQueued => /\ longest = After(Schedule(Fresh, t, top))
                                  /\ sched = After(Schedule(Fresh, t, d))

KindFacts ==
    /\ kind = "none" => ~previousQueued
    /\ ~Warned(chart) => kind = "none"

(* What the kind says of every window so far.                              *)
Pair(a) == PredecessorWindow(chart, triggers[a - 1], team[order[a - 1]],
                             triggers[a], team[order[a]])

Ordinary(a) == OrdinaryWindow(chart, triggers[a], team[order[a]])

WindowsKnown ==
    \A a \in DOMAIN windows :
        /\ a = 1 \/ kind = "none" => windows[a] = Ordinary(a)
        /\ a > 1 /\ kind # "chain" => windows[a] = Pair(a)

(* Windows end by the end of the last skill.                               *)
WindowsEnd ==
    /\ Len(order) > 0 => \A a \in DOMAIN windows : windows[a].to <= UpTo(chart, sched.until - 46)
    /\ WindowsDisjoint

IInv == /\ Inputs /\ Progress /\ SchedulerTypes
        /\ LastTrigger /\ Releases /\ LastSkill /\ KindFacts
        /\ WindowsKnown /\ WindowsEnd

(* ---- A skill is triggered ---------------------------------------------- *)

LEMMA TriggerTypes ==
    ASSUME Inputs, Progress, SchedulerTypes, NEW card \in Cards, Trigger(card)
    PROVE  Inputs' /\ Progress' /\ SchedulerTypes'
<1> DEFINE t == chart[i].frame
           w == Schedule(sched, t, team[card])
<1>1. /\ i \in DOMAIN chart /\ t \in Nat /\ team[card] \in Nat /\ top \in Nat
      /\ chart \in Charts
  BY ChartFacts, DurationsAssumption DEF Inputs, Trigger
<1>2. Inputs'
  BY DEF Trigger, Inputs
<1>3. w.event \in Int /\ w.end \in Int /\ After(w) \in Scheduler
  BY <1>1, ScheduleFacts DEF SchedulerTypes
<1>4. After(Schedule(longest, t, top)) \in Scheduler
  BY <1>1, ScheduleFacts DEF SchedulerTypes
<1>5. WindowRange(chart, i, w) \in Coverage
  BY <1>1, WindowType DEF SchedulerTypes
<1>6. Progress'
  <2>1. order' = Append(order, card) /\ triggers' = Append(triggers, i)
        /\ windows' = Append(windows, WindowRange(chart, i, w)) /\ i' = i + 1
    BY DEF Trigger
  <2>2. order' \in Seq(Cards) /\ Len(order') = Len(order) + 1
    BY <2>1, AppendProperties DEF Progress
  <2>3. triggers' \in Seq(Nat) /\ Len(triggers') = Len(triggers) + 1
    BY <2>1, AppendProperties DEF Progress
  <2>4. windows' \in Seq(Coverage) /\ Len(windows') = Len(windows) + 1
    BY <2>1, <1>5, AppendProperties DEF Progress
  <2> QED BY <2>1, <2>2, <2>3, <2>4 DEF Progress
<1>7. SchedulerTypes'
  BY <1>3, <1>4 DEF Trigger, Bound, LatestRelease, SchedulerTypes, Queued
<1> QED BY <1>2, <1>6, <1>7

(* What the step appends, and that it keeps what was there.                *)
LEMMA Appended ==
    ASSUME Inputs, Progress, SchedulerTypes, NEW card \in Cards, Trigger(card)
    PROVE  LET w == Schedule(sched, chart[i].frame, team[card])
           IN  /\ Len(order) \in Nat /\ Len(order') = Len(order) + 1
               /\ order'[Len(order) + 1] = card /\ triggers'[Len(order) + 1] = i
               /\ DOMAIN windows = 1 .. Len(order) /\ DOMAIN windows' = 1 .. (Len(order) + 1)
               /\ windows'[Len(order) + 1] = WindowRange(chart, i, w)
               /\ \A a \in 1 .. Len(order) : /\ windows'[a] = windows[a]
                                            /\ order'[a] = order[a]
                                            /\ triggers'[a] = triggers[a]
               /\ sched' = After(w)
               /\ longest' = After(Schedule(longest, chart[i].frame, top))
               /\ chart' = chart /\ team' = team /\ top' = top /\ i' = i + 1
               /\ i \in DOMAIN chart /\ chart[i].skill
<1> DEFINE w == Schedule(sched, chart[i].frame, team[card])
<1>1. order' = Append(order, card) /\ triggers' = Append(triggers, i)
      /\ windows' = Append(windows, WindowRange(chart, i, w)) /\ i' = i + 1
      /\ sched' = After(w) /\ longest' = After(Schedule(longest, chart[i].frame, top))
      /\ chart' = chart /\ team' = team /\ top' = top
      /\ i \in DOMAIN chart /\ chart[i].skill
  BY DEF Trigger, Bound, LatestRelease
<1>2. chart \in Charts /\ team[card] \in Nat
  BY DurationsAssumption DEF Inputs
<1>3. WindowRange(chart, i, w) \in Coverage
  BY <1>1, <1>2, WindowType DEF SchedulerTypes
<1>4. /\ Len(order') = Len(order) + 1 /\ order'[Len(order) + 1] = card
      /\ \A a \in 1 .. Len(order) : order'[a] = order[a]
  BY <1>1, AppendProperties DEF Progress
<1>5. /\ triggers'[Len(order) + 1] = i
      /\ \A a \in 1 .. Len(order) : triggers'[a] = triggers[a]
  BY <1>1, AppendProperties DEF Progress
<1>6. /\ windows'[Len(order) + 1] = WindowRange(chart, i, w)
      /\ windows' \in Seq(Coverage) /\ Len(windows') = Len(order) + 1
      /\ \A a \in 1 .. Len(order) : windows'[a] = windows[a]
  BY <1>1, <1>3, AppendProperties DEF Progress
<1>7. Len(order) \in Nat /\ DOMAIN windows = 1 .. Len(order)
  BY DEF Progress
<1>8. DOMAIN windows' = 1 .. (Len(order) + 1)
  BY <1>6, <1>7
<1> QED BY <1>1, <1>4, <1>5, <1>6, <1>7, <1>8

(* The numbers of the step.                                                *)
LEMMA TriggerNumbers ==
    ASSUME Inputs, Progress, SchedulerTypes, NEW card \in Cards, Trigger(card)
    PROVE  /\ chart \in Charts /\ chart[i].frame \in Nat /\ i \in Nat
           /\ team[card] \in Nat /\ top \in Nat /\ team[card] <= top /\ top <= Limit
           /\ Limit \in Nat
           /\ sched.until \in Int /\ sched.next \in Int
           /\ longest.until \in Int /\ longest.next \in Int
<1>1. chart \in Charts /\ i \in DOMAIN chart
  BY DEF Inputs, Trigger
<1>2. chart[i].frame \in Nat /\ i \in Nat
  BY <1>1, ChartFacts DEF Progress
<1>3. team[card] \in Durations /\ top \in Durations /\ team[card] <= top
  BY DEF Inputs
<1>4. team[card] \in Nat /\ top \in Nat /\ top <= Limit /\ Limit \in Nat
  BY <1>3, DurationsAssumption
<1> QED BY <1>1, <1>2, <1>3, <1>4 DEF SchedulerTypes, Scheduler

LEMMA TriggerReleases ==
    ASSUME Inputs, Progress, SchedulerTypes, Releases, NEW card \in Cards, Trigger(card)
    PROVE  Releases'
<1> DEFINE t == chart[i].frame
           w == Schedule(sched, t, team[card])
           l == Schedule(longest, t, top)
<1>0. /\ sched \in Scheduler /\ longest \in Scheduler
      /\ t \in Nat /\ team[card] \in Nat /\ top \in Nat
  BY TriggerNumbers DEF SchedulerTypes
<1>1. sched' = After(w) /\ longest' = After(l) /\ Len(order') = Len(order) + 1
      /\ Len(order) \in Nat
  BY Appended
<1>2. /\ w.end \in Int /\ sched'.until = w.end + 46 /\ sched'.next = w.end + 48
      /\ t <= sched.until => w.end = sched.next + team[card]
      /\ ~(t <= sched.until) => w.end = t + 1 + team[card]
  <2>1. /\ w.end \in Int
        /\ t <= sched.until => w.end = sched.next + team[card]
        /\ ~(t <= sched.until) => w.end = t + 1 + team[card]
    BY <1>0, ScheduleEnd
  <2> QED BY <1>1, <2>1, AfterFields
<1>3. /\ l.end \in Int /\ longest'.until = l.end + 46 /\ longest'.next = l.end + 48
      /\ t <= longest.until => l.end = longest.next + top
      /\ ~(t <= longest.until) => l.end = t + 1 + top
  <2>1. /\ l.end \in Int
        /\ t <= longest.until => l.end = longest.next + top
        /\ ~(t <= longest.until) => l.end = t + 1 + top
    BY <1>0, ScheduleEnd
  <2> QED BY <1>1, <2>1, AfterFields
<1>4. sched.until <= longest.until /\ sched.next <= longest.next
  BY DEF Releases, LongestIsLatest
<1>5. t <= longest.until => longest.next = longest.until + 2
  BY TriggerNumbers, <1>1, FreshFacts DEF Releases
<1>6. w.end <= l.end
  <2>1. CASE t <= sched.until
    BY <2>1, <1>2, <1>3, <1>4, TriggerNumbers
  <2>2. CASE ~(t <= sched.until) /\ t <= longest.until
    BY <2>2, <1>2, <1>3, <1>5, TriggerNumbers
  <2>3. CASE ~(t <= longest.until)
    BY <2>3, <1>2, <1>3, <1>4, TriggerNumbers
  <2> QED BY <2>1, <2>2, <2>3
<1>7. LongestIsLatest'
  BY <1>2, <1>3, <1>6 DEF LongestIsLatest
<1>8. sched'.next = sched'.until + 2 /\ longest'.next = longest'.until + 2
  BY <1>2, <1>3
<1> QED BY <1>1, <1>7, <1>8 DEF Releases

LEMMA TriggerLast ==
    ASSUME Inputs, Progress, SchedulerTypes, NEW card \in Cards, Trigger(card)
    PROVE  LastTrigger'
<1>1. triggers'[Len(order')] = i /\ chart' = chart /\ i' = i + 1
      /\ i \in DOMAIN chart /\ chart[i].skill
  BY Appended
<1>2. i \in Nat /\ \A k \in DOMAIN chart : k \in Nat
  BY TriggerNumbers, ChartFacts
<1> QED BY <1>1, <1>2 DEF LastTrigger

LEMMA TriggerLastSkill ==
    ASSUME Inputs, Progress, SchedulerTypes, Releases, NEW card \in Cards, Trigger(card)
    PROVE  LastSkill'
<1> DEFINE t == chart[i].frame
           w == Schedule(sched, t, team[card])
           l == Schedule(longest, t, top)
<1>0. /\ sched \in Scheduler /\ longest \in Scheduler
      /\ t \in Nat /\ team[card] \in Nat /\ top \in Nat
  BY TriggerNumbers DEF SchedulerTypes
<1>1. /\ sched' = After(w) /\ longest' = After(l)
      /\ triggers'[Len(order')] = i /\ order'[Len(order')] = card
      /\ chart' = chart /\ team' = team /\ top' = top
      /\ Len(order) \in Nat
  BY Appended
<1>2. /\ w.end \in Int /\ sched'.until = w.end + 46
      /\ t <= sched.until => w.end = sched.next + team[card]
      /\ ~(t <= sched.until) => w.end = t + 1 + team[card]
  <2>1. /\ w.end \in Int
        /\ t <= sched.until => w.end = sched.next + team[card]
        /\ ~(t <= sched.until) => w.end = t + 1 + team[card]
    BY <1>0, ScheduleEnd
  <2> QED BY <1>1, <2>1, AfterFields
<1>3. t <= sched.until => sched.next = sched.until + 2
  BY TriggerNumbers, <1>1, FreshFacts DEF Releases
<1>4. sched'.until >= t + team[card] + 47
  BY <1>2, <1>3, TriggerNumbers
<1>5. ASSUME ~previousQueued'
      PROVE  /\ longest' = After(Schedule(Fresh, t, top))
             /\ sched' = After(Schedule(Fresh, t, team[card]))
  <2>1. ~(t <= longest.until)
    BY <1>5 DEF Trigger, Bound, Queued
  <2>2. ~(t <= sched.until)
    BY <2>1, TriggerNumbers DEF Releases, LongestIsLatest
  <2>3. l = Schedule(Fresh, t, top)
    BY <2>1, TriggerNumbers, UnqueuedAlike DEF SchedulerTypes
  <2>4. w = Schedule(Fresh, t, team[card])
    BY <2>2, TriggerNumbers, UnqueuedAlike DEF SchedulerTypes
  <2> QED BY <1>1, <2>3, <2>4
<1> QED BY <1>1, <1>4, <1>5 DEF LastSkill

(* Without a warning no skill waits, however long it is.                   *)
LEMMA UnwarnedUnqueued ==
    ASSUME Inputs, Progress, SchedulerTypes, LastTrigger, Releases, LastSkill, KindFacts,
           NEW card \in Cards, Trigger(card), ~Warned(chart)
    PROVE  ~(chart[i].frame <= longest.until)
<1> DEFINE m == triggers[Len(order)]
<1>1. CASE Len(order) = 0
  BY <1>1, TriggerNumbers, FreshFacts DEF Releases
<1>2. CASE Len(order) > 0
  <2>1. ~previousQueued
    BY DEF KindFacts
  <2>2. m \in DOMAIN chart /\ Neighbours(chart, m, i)
    BY <1>2, Appended DEF LastTrigger, Neighbours
  <2>3. chart[m].frame \in Nat
    BY <2>2, TriggerNumbers, ChartFacts
  <2>4. ~(chart[i].frame - chart[m].frame <= Limit + 47)
    BY <2>2, Appended DEF Warned, MayQueue
  <2>5. longest = After(Schedule(Fresh, chart[m].frame, top))
    BY <1>2, <2>1 DEF LastSkill
  <2>6. longest.until = chart[m].frame + 1 + top + 46
    <3>1. top \in Nat
      BY TriggerNumbers
    <3> DEFINE f == chart[m].frame
    <3>2. f \in Nat /\ longest = After(Schedule(Fresh, f, top))
      BY <2>3, <2>5
    <3> HIDE DEF f
    <3>3. longest.until = f + 1 + top + 46
      BY <3>1, <3>2, FreshSchedule
    <3> QED BY <3>3 DEF f
  <2>7. /\ chart[i].frame \in Nat /\ top \in Nat /\ Limit \in Nat /\ top <= Limit
    BY TriggerNumbers
  <2> HIDE DEF m
  <2> QED BY <2>3, <2>4, <2>6, <2>7
<1> QED BY <1>1, <1>2, Appended

LEMMA TriggerKind ==
    ASSUME Inputs, Progress, SchedulerTypes, LastTrigger, Releases, LastSkill, KindFacts,
           NEW card \in Cards, Trigger(card)
    PROVE  KindFacts'
<1> DEFINE queued == Queued(longest, chart[i].frame)
<1>1. /\ previousQueued' = queued /\ chart' = chart
      /\ kind' = IF ~Warned(chart) THEN "none"
                 ELSE IF kind = "chain" \/ (queued /\ previousQueued) THEN "chain"
                 ELSE IF queued THEN "single" ELSE kind
  BY DEF Trigger, Bound
<1>2. ~Warned(chart) => ~queued
  BY UnwarnedUnqueued DEF Queued
<1>3. Warned(chart) /\ kind' = "none" => ~queued
  BY <1>1
<1>4. Warned(chart') = Warned(chart)
  BY <1>1
<1> QED BY <1>1, <1>2, <1>3, <1>4 DEF KindFacts

(* If the longest skill need not wait, the actual one need not either.     *)
LEMMA ActualUnqueued ==
    ASSUME Inputs, Progress, SchedulerTypes, Releases, NEW card \in Cards, Trigger(card),
           ~Queued(longest, chart[i].frame)
    PROVE  /\ ~(chart[i].frame <= sched.until)
           /\ Schedule(sched, chart[i].frame, team[card])
                = Schedule(Fresh, chart[i].frame, team[card])
<1>1. ~(chart[i].frame <= longest.until)
  BY DEF Queued
<1>2. ~(chart[i].frame <= sched.until)
  BY <1>1, TriggerNumbers DEF Releases, LongestIsLatest
<1> QED BY <1>2, TriggerNumbers, UnqueuedAlike DEF SchedulerTypes

(* The window of the new skill depends on its predecessor alone.           *)
LEMMA NewPair ==
    ASSUME Inputs, Progress, SchedulerTypes, LastTrigger, Releases, LastSkill, KindFacts,
           NEW card \in Cards, Trigger(card), Len(order) > 0, kind' # "chain"
    PROVE  WindowRange(chart, i, Schedule(sched, chart[i].frame, team[card]))
             = PredecessorWindow(chart, triggers[Len(order)], team[order[Len(order)]],
                                 i, team[card])
<1> DEFINE m == triggers[Len(order)]
           before == team[order[Len(order)]]
           past == After(Schedule(Fresh, chart[m].frame, before))
           t == chart[i].frame
<1>1. CASE ~previousQueued
  <2>1. sched = past
    BY <1>1 DEF LastSkill
  <2> QED BY <2>1 DEF PredecessorWindow
<1>2. CASE previousQueued
  <2>1. Warned(chart)
    BY <1>2 DEF KindFacts
  <2>2. ~Queued(longest, t)
    BY <1>2, <2>1 DEF Trigger, Bound
  <2>3. /\ ~(t <= sched.until)
        /\ Schedule(sched, t, team[card]) = Schedule(Fresh, t, team[card])
    BY <2>2, ActualUnqueued
  <2>4. m \in DOMAIN chart /\ chart[m].frame \in Nat
    BY TriggerNumbers, ChartFacts DEF LastTrigger
  <2>5. before \in Nat
    <3>1. order[Len(order)] \in Cards
      BY Appended DEF Progress
    <3> QED BY <3>1, DurationsAssumption DEF Inputs
  <2>6. past \in Scheduler /\ past.until = chart[m].frame + before + 47
    <3> DEFINE f == chart[m].frame
               first == Schedule(Fresh, f, before)
    <3>1. f \in Nat /\ past = After(first)
      BY <2>4
    <3> HIDE DEF f, before, past
    <3>2. Fresh \in Scheduler /\ before \in Nat
      BY <2>5, FreshFacts
    <3>3. After(first) \in Scheduler
      BY <3>1, <3>2, ScheduleFacts
    <3>4. After(first).until = f + 1 + before + 46
      BY <3>1, <3>2, FreshSchedule
    <3>5. past.until = f + before + 47
      BY <3>1, <3>2, <3>4
    <3> QED BY <3>1, <3>3, <3>5 DEF f
  <2>7. sched.until >= chart[m].frame + before + 47
    BY DEF LastSkill
  <2>8. ~(t <= past.until)
    BY <2>3, <2>4, <2>5, <2>6, <2>7, TriggerNumbers
  <2>9. Schedule(past, t, team[card]) = Schedule(Fresh, t, team[card])
    BY <2>6, <2>8, TriggerNumbers, UnqueuedAlike
  <2> QED BY <2>3, <2>9 DEF PredecessorWindow
<1> QED BY <1>1, <1>2 DEF SchedulerTypes

LEMMA TriggerWindows ==
    ASSUME Inputs, Progress, SchedulerTypes, LastTrigger, Releases, LastSkill, KindFacts,
           WindowsKnown, NEW card \in Cards, Trigger(card)
    PROVE  WindowsKnown'
<1>0. SUFFICES ASSUME NEW n \in Nat, n = Len(order) + 1
               PROVE  WindowsKnown'
  BY Appended
<1> DEFINE w == Schedule(sched, chart[i].frame, team[card])
<1>1. /\ n \in Nat /\ n > 0 /\ n - 1 = Len(order)
      /\ DOMAIN windows = 1 .. Len(order) /\ DOMAIN windows' = 1 .. n
      /\ order'[n] = card /\ triggers'[n] = i
      /\ windows'[n] = WindowRange(chart, i, w)
      /\ chart' = chart /\ team' = team
  BY <1>0, Appended
<1>2. \A a \in 1 .. Len(order) : windows'[a] = windows[a] /\ order'[a] = order[a]
                                  /\ triggers'[a] = triggers[a]
  BY Appended
<1>3. kind' = "none" => kind = "none" /\ ~Queued(longest, chart[i].frame)
  <2>1. KindFacts'
    BY TriggerKind
  <2>2. kind' = "none" => ~Queued(longest, chart[i].frame)
    BY <2>1 DEF KindFacts, Trigger, Bound
  <2> QED BY <2>2 DEF KindFacts, Trigger, Bound
<1>4. kind' # "chain" => kind # "chain"
  BY DEF KindFacts, Trigger, Bound
<1>5. ASSUME NEW a \in 1 .. Len(order), a = 1 \/ kind' = "none"
      PROVE  windows'[a] = Ordinary(a)'
  <2>1. windows[a] = Ordinary(a)
    BY <1>1, <1>3, <1>5 DEF WindowsKnown
  <2> QED BY <1>1, <1>2, <2>1 DEF Ordinary
<1>6. ASSUME NEW a \in 1 .. Len(order), a > 1, kind' # "chain"
      PROVE  windows'[a] = Pair(a)'
  <2>1. windows[a] = Pair(a)
    BY <1>1, <1>4, <1>6 DEF WindowsKnown
  <2>2. a - 1 \in 1 .. Len(order)
    BY <1>1, <1>6
  <2> QED BY <1>1, <1>2, <2>1, <2>2 DEF Pair
<1>7. ASSUME n = 1 \/ kind' = "none"
      PROVE  windows'[n] = Ordinary(n)'
  <2>1. w = Schedule(Fresh, chart[i].frame, team[card])
    <3>1. CASE kind' = "none"
      BY <3>1, <1>3, ActualUnqueued
    <3>2. CASE n = 1
      BY <3>2, <1>1 DEF Releases
    <3> QED BY <1>7, <3>1, <3>2
  <2> QED BY <1>1, <2>1 DEF Ordinary, OrdinaryWindow
<1>8. ASSUME n > 1, kind' # "chain"
      PROVE  windows'[n] = Pair(n)'
  <2>1. windows'[n] = PredecessorWindow(chart, triggers[Len(order)],
                                        team[order[Len(order)]], i, team[card])
    BY <1>1, <1>8, NewPair
  <2>2. order'[n - 1] = order[Len(order)] /\ triggers'[n - 1] = triggers[Len(order)]
    BY <1>1, <1>2, <1>8
  <2> QED BY <1>1, <2>1, <2>2 DEF Pair
<1>9. \A a \in 1 .. n : a \in 1 .. Len(order) \/ a = n
  BY <1>1
<1> QED BY <1>1, <1>5, <1>6, <1>7, <1>8, <1>9 DEF WindowsKnown

(* The new window starts where the earlier ones are over, and ends with    *)
(* the new skill.                                                          *)
LEMMA NewWindowBounds ==
    ASSUME Inputs, Progress, SchedulerTypes, Releases, NEW card \in Cards, Trigger(card)
    PROVE  LET w == WindowRange(chart, i, Schedule(sched, chart[i].frame, team[card]))
           IN  /\ Len(order) > 0 => UpTo(chart, sched.until - 46) <= w.from
               /\ w.from <= w.to /\ w.from \in Nat
               /\ w.to = UpTo(chart, sched'.until - 46) /\ w.to \in Nat
<1> DEFINE t == chart[i].frame
           s == Schedule(sched, t, team[card])
           w == WindowRange(chart, i, s)
<1>1. /\ chart \in Charts /\ i \in DOMAIN chart /\ i \in Nat
      /\ sched \in Scheduler /\ t \in Nat /\ team[card] \in Nat
      /\ sched.until \in Int /\ sched.next \in Int
  BY TriggerNumbers DEF SchedulerTypes, Trigger
<1>2. /\ s.event \in Int /\ s.end \in Int
      /\ t <= sched.until => s.event = sched.next - 1 /\ s.end = sched.next + team[card]
      /\ ~(t <= sched.until) => s.event = t /\ s.end = t + 1 + team[card]
  BY <1>1 DEF Scheduler, Schedule, Queued
<1>3. sched'.until - 46 = s.end
  <2>1. sched' = After(s)
    BY DEF Trigger
  <2> QED BY <1>2, <2>1 DEF After
<1>4. w \in Coverage /\ w.to = UpTo(chart, s.end)
  <2>1. w \in Coverage
    BY <1>1, WindowType
  <2> QED BY <2>1 DEF WindowRange
<1>5. CASE t <= sched.until
  <2>1. Len(order) > 0 /\ sched.next = sched.until + 2
    BY <1>1, <1>5, FreshFacts, Appended DEF Releases
  <2>2. s.event = sched.until + 1 /\ s.end = sched.until + 2 + team[card]
    BY <1>1, <1>2, <1>5, <2>1
  <2>3. w.from = UpTo(chart, s.event)
    BY <1>1, <1>2, <1>5, <2>2 DEF WindowRange
  <2>4. UpTo(chart, sched.until - 46) <= UpTo(chart, s.event)
    BY <1>1, <1>2, <2>2, UpToMonotone
  <2>5. UpTo(chart, s.event) <= UpTo(chart, s.end)
    BY <1>1, <1>2, <2>2, UpToMonotone
  <2> QED BY <1>3, <1>4, <2>3, <2>4, <2>5 DEF Coverage
<1>6. CASE ~(t <= sched.until)
  <2>1. s.event = t /\ s.end = t + 1 + team[card]
    BY <1>2, <1>6
  <2>2. w.from = i
    BY <1>1, <2>1 DEF WindowRange
  <2>3. UpTo(chart, sched.until - 46) <= i
    BY <1>1, <1>6, UpToStops
  <2>4. i <= UpTo(chart, s.end)
    BY <1>1, <1>2, <2>1, UpToReaches
  <2> QED BY <1>3, <1>4, <2>2, <2>3, <2>4 DEF Coverage
<1> QED BY <1>5, <1>6

LEMMA TriggerBehind ==
    ASSUME Inputs, Progress, SchedulerTypes, Releases, WindowsEnd,
           NEW card \in Cards, Trigger(card)
    PROVE  WindowsEnd'
<1>0. SUFFICES ASSUME NEW n \in Nat, n = Len(order) + 1
               PROVE  WindowsEnd'
  BY Appended
<1> DEFINE w == WindowRange(chart, i, Schedule(sched, chart[i].frame, team[card]))
           past == UpTo(chart, sched.until - 46)
<1>1. /\ DOMAIN windows = 1 .. Len(order) /\ DOMAIN windows' = 1 .. n
      /\ windows'[n] = w /\ chart' = chart /\ Len(order) \in Nat
      /\ \A a \in 1 .. Len(order) : windows'[a] = windows[a]
  BY <1>0, Appended
<1>2. /\ Len(order) > 0 => past <= w.from
      /\ w.from <= w.to /\ w.from \in Nat /\ w.to \in Nat
      /\ w.to = UpTo(chart, sched'.until - 46)
  BY NewWindowBounds
<1>3. past \in Nat
  <2>1. sched.until - 46 \in Int /\ chart \in Charts
    BY TriggerNumbers
  <2> QED BY <2>1, UpToSets
<1>4. ASSUME NEW a \in 1 .. Len(order)
      PROVE  windows'[a].to <= w.from /\ windows'[a].to \in Nat
  <2>1. windows[a].to <= past
    BY <1>1, <1>4 DEF WindowsEnd
  <2>2. windows[a] \in Coverage
    BY <1>1 DEF Progress
  <2>3. windows[a].to \in Nat
    BY <2>2 DEF Coverage
  <2> QED BY <1>1, <1>2, <1>3, <2>1, <2>3
<1>5. \A a \in 1 .. n : a \in 1 .. Len(order) \/ a = n
  BY <1>0, <1>1
<1>6. \A a \in DOMAIN windows' : windows'[a].to <= UpTo(chart, sched'.until - 46)
  <2> TAKE a \in DOMAIN windows'
  <2>1. CASE a = n
    BY <2>1, <1>1, <1>2
  <2>2. CASE a \in 1 .. Len(order)
    BY <2>2, <1>2, <1>4
  <2> QED BY <1>1, <1>5, <2>1, <2>2
<1>7. WindowsDisjoint'
  <2>1. SUFFICES ASSUME NEW a \in 1 .. n, NEW b \in 1 .. n, a < b
                 PROVE  windows'[a].to <= windows'[b].from
    BY <1>1 DEF WindowsDisjoint
  <2>2. a \in 1 .. Len(order)
    BY <1>0, <1>1, <2>1
  <2>3. CASE b = n
    BY <1>1, <1>4, <2>2, <2>3
  <2>4. CASE b \in 1 .. Len(order)
    BY <1>1, <2>1, <2>2, <2>4 DEF WindowsEnd, WindowsDisjoint
  <2> QED BY <1>5, <2>3, <2>4
<1> QED BY <1>1, <1>6, <1>7 DEF WindowsEnd

(* ---- A judgement without a skill --------------------------------------- *)

LEMMA PlayKeeps ==
    ASSUME IInv, Play
    PROVE  IInv'
<1>1. /\ i \in DOMAIN chart /\ ~chart[i].skill /\ i' = i + 1
      /\ chart' = chart /\ team' = team /\ top' = top /\ order' = order
      /\ triggers' = triggers /\ windows' = windows /\ sched' = sched
      /\ longest' = longest /\ previousQueued' = previousQueued /\ kind' = kind
  BY DEF Play, bound
<1>2. Inputs' /\ Progress' /\ SchedulerTypes'
  BY <1>1 DEF IInv, Inputs, Progress, SchedulerTypes
<1>3. Releases' /\ LastSkill' /\ KindFacts'
  BY <1>1 DEF IInv, Releases, LongestIsLatest, LastSkill, KindFacts
<1>4. WindowsKnown' /\ WindowsEnd'
  BY <1>1 DEF IInv, WindowsKnown, Pair, Ordinary, WindowsEnd, WindowsDisjoint
<1>5. LastTrigger'
  <2>1. i \in Nat /\ \A k \in DOMAIN chart : k \in Nat
    BY ChartFacts DEF IInv, Inputs, Progress
  <2>2. \A k \in DOMAIN chart : k < i + 1 => k < i \/ k = i
    BY <2>1
  <2>3. \A k \in DOMAIN chart : k < i => k < i + 1
    BY <2>1
  <2> QED BY <1>1, <2>1, <2>2, <2>3 DEF IInv, LastTrigger
<1> QED BY <1>2, <1>3, <1>4, <1>5 DEF IInv

LEMMA TriggerKeeps ==
    ASSUME IInv, NEW card \in Cards, Trigger(card)
    PROVE  IInv'
<1>1. Inputs' /\ Progress' /\ SchedulerTypes'
  BY TriggerTypes DEF IInv
<1>2. LastTrigger' /\ Releases' /\ LastSkill' /\ KindFacts'
  BY TriggerLast, TriggerReleases, TriggerLastSkill, TriggerKind DEF IInv
<1>3. WindowsKnown' /\ WindowsEnd'
  BY TriggerWindows, TriggerBehind DEF IInv
<1> QED BY <1>1, <1>2, <1>3 DEF IInv

LEMMA InitIInv == Init => IInv
<1> SUFFICES ASSUME Init PROVE IInv
  OBVIOUS
<1>1. order = <<>> /\ windows = <<>> /\ triggers = <<>> /\ Len(order) = 0 /\ DOMAIN windows = {}
  BY DEF Init
<1>2. Inputs
  BY DEF Init, Inputs, IsLongest
<1>6. order \in Seq(Cards) /\ triggers \in Seq(Nat) /\ windows \in Seq(Coverage)
  BY <1>1, EmptySeq
<1>7. Progress
  BY <1>1, <1>6 DEF Init, Progress
<1>3. Progress /\ SchedulerTypes
  BY <1>1, <1>7, FreshFacts DEF Init, SchedulerTypes
<1>5. LastTrigger /\ LastSkill /\ KindFacts
  BY <1>1 DEF Init, LastTrigger, LastSkill, KindFacts
<1>4. Releases /\ WindowsKnown /\ WindowsEnd
  BY <1>1, FreshFacts DEF Init, Releases, LongestIsLatest, WindowsKnown, WindowsEnd,
                          WindowsDisjoint, Scheduler
<1> QED BY <1>2, <1>3, <1>4, <1>5 DEF IInv

LEMMA InvKept ==
    ASSUME IInv, [Next]_vars
    PROVE  IInv'
<1>1. CASE Play
  BY <1>1, PlayKeeps
<1>2. ASSUME NEW card \in Cards, MayTrigger(card) /\ Trigger(card) PROVE IInv'
  BY <1>2, TriggerKeeps
<1>3. CASE UNCHANGED vars
  BY <1>3 DEF IInv, vars, timeline, bound, Inputs, Progress, SchedulerTypes, LastTrigger,
              Releases, LongestIsLatest, LastSkill, KindFacts, WindowsKnown, Pair, Ordinary,
              WindowsEnd, WindowsDisjoint
<1> QED BY <1>1, <1>2, <1>3 DEF Next

THEOREM Inductive == Spec => []IInv
<1>1. IInv /\ [Next]_vars => IInv'
  BY InvKept
<1> QED BY <1>1, InitIInv, PTL DEF Spec

(* ---- The queue of events ----------------------------------------------- *)

Named(n) == [frame : Int, active : 0 .. n]

Events == events \in Seq(Named(Len(order))) /\ active \in 0 .. Len(order)

(* What is left of the queue, and what is in effect, after the due events. *)
LEMMA DueFacts ==
    ASSUME Progress, Events, NEW n \in Nat, Len(order) <= n
    PROVE  EventsLeft \in Seq(Named(n)) /\ ActiveNow \in 0 .. n
<1>1. Len(events) \in Nat /\ DOMAIN events = 1 .. Len(events)
  BY DEF Events
<1>2. Len(order) \in Nat
  BY DEF Progress
<1>3. \A k \in 1 .. Len(events) : events[k] \in Named(n) /\ events[k].active \in 0 .. n
  <2>1. \A k \in 1 .. Len(events) : events[k] \in Named(Len(order))
    BY DEF Events
  <2> QED BY <1>2, <2>1 DEF Named
<1>4. Due \in 0 .. Len(events)
  <2>1. IsFiniteSet(1 .. Len(events)) /\ Cardinality(1 .. Len(events)) = Len(events)
    <3> DEFINE l == Len(events)
    <3>1. l \in Nat
      BY <1>1
    <3> HIDE DEF l
    <3>2. /\ IsFiniteSet(1 .. l)
          /\ Cardinality(1 .. l) = IF 1 > l THEN 0 ELSE l - 1 + 1
      BY <3>1, FS_Interval
    <3>3. Cardinality(1 .. l) = l
      BY <3>1, <3>2
    <3> QED BY <3>2, <3>3 DEF l
  <2> DEFINE D == {k \in DOMAIN events : \A j \in 1 .. k : events[j].frame < chart[i].frame}
  <2>2. D \in SUBSET (1 .. Len(events))
    BY <1>1
  <2> HIDE DEF D
  <2>3. IsFiniteSet(D) /\ Cardinality(D) <= Len(events)
    BY <2>1, <2>2, FS_Subset
  <2>4. Cardinality(D) \in Nat
    BY <2>3, FS_CardinalityType
  <2>5. Due = Cardinality(D)
    BY DEF Due, D
  <2> QED BY <1>1, <2>3, <2>4, <2>5
<1>5. EventsLeft \in Seq(Named(n))
  <2>1. Due + 1 \in Int /\ Len(events) \in Int
    BY <1>1, <1>4
  <2>2. \A k \in Due + 1 .. Len(events) : events[k] \in Named(n)
    BY <1>1, <1>3, <1>4
  <2> HIDE DEF Due
  <2>3. SubSeq(events, Due + 1, Len(events)) \in Seq(Named(n))
    BY <2>1, <2>2, SubSeqProperties
  <2> QED BY <2>3 DEF EventsLeft
<1>6. ActiveNow \in 0 .. n
  BY <1>1, <1>2, <1>3, <1>4 DEF ActiveNow, Events
<1> QED BY <1>5, <1>6

LEMMA EventsKept ==
    ASSUME IInv, Events, Next
    PROVE  Events'
<1>1. Len(order) \in Nat
  BY DEF IInv, Progress
<1>2. CASE Play
  <2>1. EventsLeft \in Seq(Named(Len(order))) /\ ActiveNow \in 0 .. Len(order)
    BY <1>1, DueFacts DEF IInv
  <2>2. events' = EventsLeft /\ active' = ActiveNow /\ order' = order
    BY <1>2 DEF Play
  <2> QED BY <2>1, <2>2 DEF Events
<1>3. ASSUME NEW card \in Cards, Trigger(card) PROVE Events'
  <2> DEFINE n == Len(order) + 1
             w == Schedule(sched, chart[i].frame, team[card])
             starts == IF w.event > chart[i].frame
                       THEN <<[frame |-> w.event, active |-> n]>> ELSE <<>>
             ends == <<[frame |-> w.end, active |-> 0]>>
  <2>1. n \in Nat /\ Len(order) <= n
    BY <1>1
  <2>2. Len(order') = n
    BY <1>3, AppendProperties DEF Trigger, IInv, Progress
  <2>3. EventsLeft \in Seq(Named(n)) /\ ActiveNow \in 0 .. n
    BY <2>1, DueFacts DEF IInv
  <2>4. w.event \in Int /\ w.end \in Int
    <3>1. chart[i].frame \in Nat /\ team[card] \in Nat
      BY <1>3, ChartFacts, DurationsAssumption DEF Trigger, IInv, Inputs
    <3> QED BY <3>1, ScheduleFacts DEF IInv, SchedulerTypes
  <2>5. starts \in Seq(Named(n)) /\ ends \in Seq(Named(n))
    <3>1. [frame |-> w.event, active |-> n] \in Named(n)
      BY <2>1, <2>4 DEF Named
    <3>2. [frame |-> w.end, active |-> 0] \in Named(n)
      BY <2>1, <2>4 DEF Named
    <3> HIDE DEF w, n
    <3> QED BY <3>1, <3>2
  <2>6. events' = EventsLeft \o starts \o ends
    BY <1>3 DEF Trigger, Activation
  <2>7. active' = ActiveNow \/ active' = n
    BY <1>3 DEF Trigger, Activation
  <2> HIDE DEF n, starts, ends
  <2>8. EventsLeft \o starts \in Seq(Named(n))
    BY <2>3, <2>5, ConcatProperties
  <2>9. events' \in Seq(Named(n))
    BY <2>5, <2>6, <2>8, ConcatProperties
  <2> QED BY <2>1, <2>2, <2>3, <2>7, <2>9 DEF Events
<1> QED BY <1>2, <1>3 DEF Next

LEMMA EventsAlways == Spec => []Events
<1>1. Init => Events
  <2> SUFFICES ASSUME Init PROVE Events
    OBVIOUS
  <2>1. events = <<>> /\ active = 0 /\ order = <<>> /\ Len(order) = 0
    BY DEF Init
  <2>2. <<>> \in Seq(Named(Len(order)))
    OBVIOUS
  <2> QED BY <2>1, <2>2 DEF Events
<1>2. IInv /\ Events /\ [Next]_vars => Events'
  <2>1. ASSUME Events, UNCHANGED vars PROVE Events'
    BY <2>1 DEF Events, Named, vars, timeline
  <2> QED BY <2>1, EventsKept
<1> QED BY <1>1, <1>2, Inductive, PTL DEF Spec

(* The types, and that no event is for an activation that does not exist   *)
(* (Ideal60SkillScheduler, SkillQueueKind, native_score_notes).            *)
THEOREM TypeCorrect == Spec => []TypeOK
<1>1. IInv /\ Events => TypeOK
  <2> SUFFICES ASSUME IInv, Events PROVE TypeOK
    OBVIOUS
  <2>1. chart \in Seq(Judgement) /\ team \in [Cards -> Durations] /\ top \in Durations
    BY ChartFacts DEF IInv, Inputs
  <2>2. events \in Seq(Event) /\ active \in 0 .. Len(order)
    BY DEF Events, Named, Event
  <2> QED BY <2>1, <2>2 DEF TypeOK, IInv, Progress, SchedulerTypes
<1> QED BY <1>1, EventsAlways, Inductive, PTL

(* The longest duration gives the latest release (skill_queue_kind).       *)
THEOREM LongestLatest == Spec => []LongestIsLatest
<1>1. IInv => LongestIsLatest
  BY DEF IInv, Releases
<1> QED BY <1>1, Inductive, PTL

(* The kind of queue tells how far windows depend on earlier skills        *)
(* (skill_queue_kind, conditional_skill_window).                           *)
THEOREM KindTruthful == Spec => []KindExact
<1>1. IInv => KindExact
  <2> SUFFICES ASSUME IInv, kind # "chain", NEW a \in DOMAIN windows
               PROVE  windows[a] = SearchWindow(a)
    BY DEF KindExact
  <2>1. a \in Nat /\ a > 0
    BY DEF IInv, Progress
  <2>2. CASE kind = "none" \/ a = 1
    BY <2>2 DEF IInv, WindowsKnown, Ordinary, SearchWindow
  <2>3. CASE ~(kind = "none" \/ a = 1)
    BY <2>1, <2>3 DEF IInv, WindowsKnown, Pair, SearchWindow
  <2> QED BY <2>2, <2>3
<1> QED BY <1>1, Inductive, PTL

(* Windows do not overlap, so that scores add up window by window          *)
(* (StateSkillScores::score, PredecessorSkillScoreMatrix::score).          *)
THEOREM WindowsApart == Spec => []WindowsDisjoint
<1>1. IInv => WindowsDisjoint
  BY DEF IInv, WindowsEnd
<1> QED BY <1>1, Inductive, PTL

(* ---- The timeline against the windows ---------------------------------- *)

(* How many events of queue e lie before frame f, and which activation is  *)
(* in effect there if a is before all of them.                             *)
DueAt(e, f) == Cardinality({k \in DOMAIN e : \A j \in 1 .. k : e[j].frame < f})

InEffect(e, a, f) == IF DueAt(e, f) = 0 THEN a ELSE e[DueAt(e, f)].active

LEMMA NamedFrames ==
    ASSUME NEW n \in Nat, NEW e \in Seq(Named(n))
    PROVE  /\ Len(e) \in Nat /\ DOMAIN e = 1 .. Len(e)
           /\ \A j \in 1 .. Len(e) : e[j] \in Named(n) /\ e[j].frame \in Int
<1>1. Len(e) \in Nat /\ DOMAIN e = 1 .. Len(e) /\ \A j \in 1 .. Len(e) : e[j] \in Named(n)
  OBVIOUS
<1>2. \A x \in Named(n) : x.frame \in Int
  BY DEF Named
<1> QED BY <1>1, <1>2

(* The due events are a prefix of the queue.                               *)
LEMMA DueIs ==
    ASSUME NEW n \in Nat, NEW e \in Seq(Named(n)), NEW f \in Int
    PROVE  /\ DueAt(e, f) \in 0 .. Len(e)
           /\ \A j \in 1 .. DueAt(e, f) : e[j].frame < f
           /\ DueAt(e, f) < Len(e) => ~(e[DueAt(e, f) + 1].frame < f)
<1> DEFINE D == {k \in DOMAIN e : \A j \in 1 .. k : e[j].frame < f}
           d == Cardinality(D)
           l == Len(e)
<1>1. l \in Nat /\ DOMAIN e = 1 .. l
  OBVIOUS
<1>2. \A k \in D : k \in 1 .. l /\ 1 .. k \subseteq D
  BY <1>1
<1>3. D \in SUBSET (1 .. l)
  BY <1>1
<1>4. \A k \in 1 .. l : k \notin D => \E j \in 1 .. k : ~(e[j].frame < f)
  BY <1>1
<1>5. \A k \in D : e[k].frame < f
  BY <1>1
<1> HIDE DEF D, l
<1>6. \A k \in Nat : IsFiniteSet(1 .. k) /\ Cardinality(1 .. k) = k
  <2> TAKE k \in Nat
  <2>1. IsFiniteSet(1 .. k) /\ Cardinality(1 .. k) = IF 1 > k THEN 0 ELSE k - 1 + 1
    BY FS_Interval
  <2> QED BY <2>1
<1>7. IsFiniteSet(1 .. l) /\ Cardinality(1 .. l) = l
  BY <1>1, <1>6
<1>8. IsFiniteSet(D) /\ d \in Nat /\ d <= l
  BY <1>3, <1>7, FS_Subset, FS_CardinalityType
<1>9. \A k \in D : k <= d
  <2> TAKE k \in D
  <2>1. k \in Nat /\ 1 .. k \in SUBSET D
    BY <1>1, <1>2
  <2>2. Cardinality(1 .. k) <= Cardinality(D)
    BY <1>8, <2>1, FS_Subset
  <2> QED BY <1>6, <2>1, <2>2
<1> HIDE DEF d
<1>10. D \in SUBSET (1 .. d)
  BY <1>1, <1>2, <1>8, <1>9
<1>11. D = 1 .. d
  <2>1. IsFiniteSet(1 .. d) /\ Cardinality(1 .. d) = d
    BY <1>6, <1>8
  <2>2. Cardinality(D) = d
    BY DEF d
  <2> QED BY <1>10, <2>1, <2>2, FS_Subset
<1>12. d < l => ~(e[d + 1].frame < f)
  <2> SUFFICES ASSUME d < l PROVE ~(e[d + 1].frame < f)
    OBVIOUS
  <2>1. d + 1 \in 1 .. l /\ d + 1 \notin D
    BY <1>1, <1>8, <1>11
  <2>2. PICK j \in 1 .. (d + 1) : ~(e[j].frame < f)
    BY <1>4, <2>1
  <2>3. j \notin D
    BY <1>5, <2>2
  <2>4. j = d + 1
    BY <1>8, <1>11, <2>3
  <2> QED BY <2>2, <2>4
<1>13. DueAt(e, f) = d
  BY DEF DueAt, d, D
<1> QED BY <1>1, <1>5, <1>8, <1>11, <1>12, <1>13 DEF l

LEMMA DueOnly ==
    ASSUME NEW n \in Nat, NEW e \in Seq(Named(n)), NEW f \in Int, NEW d \in 0 .. Len(e),
           \A j \in 1 .. d : e[j].frame < f,
           d < Len(e) => ~(e[d + 1].frame < f)
    PROVE  DueAt(e, f) = d
<1>1. /\ DueAt(e, f) \in 0 .. Len(e) /\ Len(e) \in Nat
      /\ \A j \in 1 .. DueAt(e, f) : e[j].frame < f
      /\ DueAt(e, f) < Len(e) => ~(e[DueAt(e, f) + 1].frame < f)
  BY DueIs
<1>2. CASE DueAt(e, f) < d
  <2>1. DueAt(e, f) + 1 \in 1 .. d /\ DueAt(e, f) < Len(e)
    BY <1>1, <1>2
  <2> QED BY <1>1, <2>1
<1>3. CASE d < DueAt(e, f)
  <2>1. d + 1 \in 1 .. DueAt(e, f) /\ d < Len(e)
    BY <1>1, <1>3
  <2> QED BY <1>1, <2>1
<1> QED BY <1>1, <1>2, <1>3

LEMMA AllDue ==
    ASSUME NEW n \in Nat, NEW e \in Seq(Named(n)), NEW f \in Int,
           \A j \in 1 .. Len(e) : e[j].frame < f
    PROVE  DueAt(e, f) = Len(e)
<1>1. Len(e) \in 0 .. Len(e)
  OBVIOUS
<1> QED BY <1>1, DueOnly

(* Applying the events due at f changes nothing for a later frame.         *)
LEMMA Advance ==
    ASSUME NEW n \in Nat, NEW e \in Seq(Named(n)), NEW a,
           NEW f \in Int, NEW g \in Int, f <= g
    PROVE  InEffect(SubSeq(e, DueAt(e, f) + 1, Len(e)), InEffect(e, a, f), g)
             = InEffect(e, a, g)
<1> DEFINE d == DueAt(e, f)
           D == DueAt(e, g)
           r == SubSeq(e, d + 1, Len(e))
<1>0. Len(e) \in Nat
  BY NamedFrames
<1>a. d \in 0 .. Len(e) /\ \A j \in 1 .. d : e[j].frame < f
  BY DueIs
<1>b. /\ D \in 0 .. Len(e) /\ \A j \in 1 .. D : e[j].frame < g
      /\ D < Len(e) => ~(e[D + 1].frame < g)
  BY DueIs
<1> HIDE DEF d, D
<1>1. /\ d \in 0 .. Len(e) /\ D \in 0 .. Len(e) /\ Len(e) \in Nat
      /\ \A j \in 1 .. d : e[j].frame < f
      /\ \A j \in 1 .. D : e[j].frame < g
      /\ D < Len(e) => ~(e[D + 1].frame < g)
  BY <1>0, <1>a, <1>b
<1>2. \A j \in 1 .. Len(e) : e[j].frame \in Int
  BY NamedFrames
<1>3. d <= D
  <2> SUFFICES ASSUME D < d PROVE FALSE
    BY <1>1
  <2>1. D + 1 \in 1 .. d /\ D + 1 \in 1 .. Len(e)
    BY <1>1
  <2> QED BY <1>1, <1>2, <2>1
<1>4. /\ r \in Seq(Named(n)) /\ Len(r) = Len(e) - d
      /\ \A j \in 1 .. (Len(e) - d) : r[j] = e[d + j]
  <2>1. \A k \in d + 1 .. Len(e) : e[k] \in Named(n)
    BY <1>1
  <2> QED BY <1>1, <2>1, SubSeqProperties
<1> HIDE DEF r
<1>5. DueAt(r, g) = D - d
  <2>1. D - d \in 0 .. Len(r)
    BY <1>1, <1>3, <1>4
  <2>2. \A j \in 1 .. (D - d) : r[j].frame < g
    <3> TAKE j \in 1 .. (D - d)
    <3>1. j \in 1 .. (Len(e) - d) /\ d + j \in 1 .. D
      BY <1>1, <1>3
    <3> QED BY <1>1, <1>4, <3>1
  <2>3. D - d < Len(r) => ~(r[(D - d) + 1].frame < g)
    <3> SUFFICES ASSUME D - d < Len(r) PROVE ~(r[(D - d) + 1].frame < g)
      OBVIOUS
    <3>1. D < Len(e) /\ (D - d) + 1 \in 1 .. (Len(e) - d) /\ d + ((D - d) + 1) = D + 1
      BY <1>1, <1>3, <1>4
    <3> QED BY <1>1, <1>4, <3>1
  <2> QED BY <1>4, <2>1, <2>2, <2>3, DueOnly
<1>6. CASE D = d
  <2>1. InEffect(r, InEffect(e, a, f), g) = InEffect(e, a, f)
    BY <1>1, <1>5, <1>6 DEF InEffect
  <2>2. InEffect(e, a, f) = InEffect(e, a, g)
    BY <1>6 DEF InEffect, d, D
  <2> QED BY <2>1, <2>2 DEF r, d
<1>7. CASE D # d
  <2>1. D - d \in 1 .. (Len(e) - d) /\ d + (D - d) = D /\ D # 0 /\ D - d # 0
    BY <1>1, <1>3, <1>7
  <2>2. InEffect(r, InEffect(e, a, f), g) = e[D].active
    BY <1>4, <1>5, <2>1 DEF InEffect
  <2>3. InEffect(e, a, g) = e[D].active
    BY <2>1 DEF InEffect, D
  <2> QED BY <2>2, <2>3 DEF r, d
<1> QED BY <1>6, <1>7

(* An event that is not due hides none that is.                            *)
LEMMA LateEvent ==
    ASSUME NEW n \in Nat, NEW e \in Seq(Named(n)), NEW x \in Named(n), NEW a,
           NEW g \in Int, ~(x.frame < g)
    PROVE  InEffect(e \o <<x>>, a, g) = InEffect(e, a, g)
<1> DEFINE s == e \o <<x>>
           d == DueAt(e, g)
<1>1. /\ s \in Seq(Named(n)) /\ Len(s) = Len(e) + 1 /\ s[Len(e) + 1] = x
      /\ \A j \in 1 .. Len(e) : s[j] = e[j]
  OBVIOUS
<1>2. /\ d \in 0 .. Len(e) /\ Len(e) \in Nat
      /\ \A j \in 1 .. d : e[j].frame < g
      /\ d < Len(e) => ~(e[d + 1].frame < g)
  BY DueIs
<1> HIDE DEF s, d
<1>3. d \in 0 .. Len(s) /\ \A j \in 1 .. d : j \in 1 .. Len(e)
  BY <1>1, <1>2
<1>4. ~(s[d + 1].frame < g)
  <2>1. CASE d < Len(e)
    BY <1>1, <1>2, <2>1
  <2>2. CASE d = Len(e)
    BY <1>1, <2>2
  <2> QED BY <1>2, <2>1, <2>2
<1>5. \A j \in 1 .. d : s[j].frame < g
  BY <1>1, <1>2, <1>3
<1>6. DueAt(s, g) = d
  BY <1>1, <1>3, <1>4, <1>5, DueOnly
<1>7. d # 0 => s[d] = e[d]
  BY <1>1, <1>2
<1> QED BY <1>6, <1>7 DEF InEffect, s, d

(* Behind events that are all due, a due start and its end.                *)
LEMMA StartAndEnd ==
    ASSUME NEW n \in Nat, NEW e \in Seq(Named(n)), NEW x \in Named(n), NEW y \in Named(n),
           NEW a, NEW g \in Int, \A j \in 1 .. Len(e) : e[j].frame < g, x.frame < g
    PROVE  InEffect((e \o <<x>>) \o <<y>>, a, g) = IF y.frame < g THEN y.active ELSE x.active
<1> DEFINE s == (e \o <<x>>) \o <<y>>
<1>1. /\ s \in Seq(Named(n)) /\ Len(e) \in Nat /\ Len(s) = Len(e) + 2
      /\ s[Len(e) + 1] = x /\ s[Len(e) + 2] = y
      /\ \A j \in 1 .. Len(e) : s[j] = e[j]
  OBVIOUS
<1> HIDE DEF s
<1>2. \A j \in 1 .. (Len(e) + 1) : s[j].frame < g
  <2> TAKE j \in 1 .. (Len(e) + 1)
  <2>1. j \in 1 .. Len(e) \/ j = Len(e) + 1
    BY <1>1
  <2> QED BY <1>1, <2>1
<1>3. CASE y.frame < g
  <2>1. \A j \in 1 .. Len(s) : j \in 1 .. (Len(e) + 1) \/ j = Len(e) + 2
    BY <1>1
  <2>2. DueAt(s, g) = Len(e) + 2
    BY <1>1, <1>2, <1>3, <2>1, AllDue
  <2>3. InEffect(s, a, g) = s[Len(e) + 2].active
    BY <1>1, <2>2 DEF InEffect
  <2> QED BY <1>1, <1>3, <2>3 DEF s
<1>4. CASE ~(y.frame < g)
  <2>1. Len(e) + 1 \in 0 .. Len(s) /\ (Len(e) + 1) + 1 = Len(e) + 2
    BY <1>1
  <2>2. DueAt(s, g) = Len(e) + 1
    BY <1>1, <1>2, <1>4, <2>1, DueOnly
  <2>3. InEffect(s, a, g) = s[Len(e) + 1].active
    BY <1>1, <2>2 DEF InEffect
  <2> QED BY <1>1, <1>4, <2>3 DEF s
<1> QED BY <1>3, <1>4

LEMMA OneEvent ==
    ASSUME NEW n \in Nat, NEW y \in Named(n), NEW a, NEW g \in Int
    PROVE  InEffect(<<y>>, a, g) = IF y.frame < g THEN y.active ELSE a
<1> DEFINE s == <<y>>
<1>1. s \in Seq(Named(n)) /\ Len(s) = 1 /\ s[1] = y
  OBVIOUS
<1> HIDE DEF s
<1>2. CASE y.frame < g
  <2>1. \A j \in 1 .. Len(s) : s[j].frame < g
    BY <1>1, <1>2
  <2>2. DueAt(s, g) = 1
    BY <1>1, <2>1, AllDue
  <2>3. InEffect(s, a, g) = s[1].active
    BY <2>2 DEF InEffect
  <2> QED BY <1>1, <1>2, <2>3 DEF s
<1>3. CASE ~(y.frame < g)
  <2>1. DueAt(s, g) = 0
    BY <1>1, <1>3, DueOnly
  <2> QED BY <1>3, <2>1 DEF InEffect, s
<1> QED BY <1>2, <1>3

(* What is in effect when all events are over: nothing.                    *)
EndsIdle(e, a) == (IF e = <<>> THEN a ELSE e[Len(e)].active) = 0

LEMMA IdleAfter ==
    ASSUME NEW n \in Nat, NEW e \in Seq(Named(n)), NEW a, NEW g \in Int, EndsIdle(e, a),
           \A j \in 1 .. Len(e) : e[j].frame < g
    PROVE  InEffect(e, a, g) = 0
<1>1. DueAt(e, g) = Len(e) /\ Len(e) \in Nat /\ (e = <<>> <=> Len(e) = 0)
  BY AllDue
<1> QED BY <1>1 DEF InEffect, EndsIdle

LEMMA IdleStays ==
    ASSUME NEW n \in Nat, NEW e \in Seq(Named(n)), NEW a, NEW f \in Int, EndsIdle(e, a)
    PROVE  EndsIdle(SubSeq(e, DueAt(e, f) + 1, Len(e)), InEffect(e, a, f))
<1> DEFINE d == DueAt(e, f)
           r == SubSeq(e, d + 1, Len(e))
<1>1. d \in 0 .. Len(e) /\ Len(e) \in Nat /\ (e = <<>> <=> Len(e) = 0)
  BY DueIs
<1> HIDE DEF d
<1>2. /\ r \in Seq(Named(n)) /\ Len(r) = Len(e) - d /\ (r = <<>> <=> Len(r) = 0)
      /\ \A j \in 1 .. (Len(e) - d) : r[j] = e[d + j]
  <2>1. \A k \in d + 1 .. Len(e) : e[k] \in Named(n)
    BY <1>1, NamedFrames
  <2>2. /\ r \in Seq(Named(n)) /\ Len(r) = Len(e) - d
        /\ \A j \in 1 .. (Len(e) - d) : r[j] = e[d + j]
    BY <1>1, <2>1, SubSeqProperties
  <2> HIDE DEF r
  <2>3. r = <<>> <=> Len(r) = 0
    BY <2>2
  <2> QED BY <2>2, <2>3
<1> HIDE DEF r
<1>3. CASE d = Len(e)
  <2>1. r = <<>>
    BY <1>1, <1>2, <1>3
  <2>2. InEffect(e, a, f) = 0
    BY <1>1, <1>3 DEF InEffect, EndsIdle, d
  <2> QED BY <2>1, <2>2 DEF EndsIdle, r, d
<1>4. CASE d # Len(e)
  <2>1. Len(r) \in 1 .. (Len(e) - d) /\ d + Len(r) = Len(e) /\ Len(e) # 0 /\ Len(r) # 0
    BY <1>1, <1>2, <1>4
  <2>2. r[Len(r)] = e[Len(e)]
    BY <1>2, <2>1
  <2> QED BY <1>1, <1>2, <2>1, <2>2 DEF EndsIdle, r, d
<1> QED BY <1>3, <1>4

(* A judgement lies among the first ones up to a frame exactly if it is not *)
(* after that frame.                                                       *)
LEMMA UpToExactly ==
    ASSUME NEW c \in Charts, NEW n \in DOMAIN c, NEW f \in Int
    PROVE  n <= UpTo(c, f) <=> c[n].frame <= f
<1>1. n \in Nat /\ n > 0 /\ DOMAIN c = 1 .. Len(c) /\ Len(c) \in Nat
  BY ChartFacts
<1>2. UpTo(c, f) \in Nat
  BY UpToSets
<1>3. CASE c[n].frame <= f
  BY <1>3, UpToReaches
<1>4. CASE ~(c[n].frame <= f)
  <2>1. \A m \in DOMAIN c : c[m].frame <= f => m \in 1 .. (n - 1)
    <3> TAKE m \in DOMAIN c
    <3>1. /\ c[m].frame \in Nat /\ c[n].frame \in Nat /\ m \in 1 .. Len(c)
          /\ n <= m => c[n].frame <= c[m].frame
      BY <1>1, ChartFacts
    <3> QED BY <1>1, <1>4, <3>1
  <2>2. {m \in DOMAIN c : c[m].frame <= f} \in SUBSET (1 .. (n - 1))
    BY <2>1
  <2>3. n - 1 \in Nat
    BY <1>1
  <2>4. IsFiniteSet(1 .. (n - 1)) /\ Cardinality(1 .. (n - 1)) = n - 1
    <3> DEFINE k == n - 1
    <3>1. k \in Nat
      BY <2>3
    <3> HIDE DEF k
    <3>2. IsFiniteSet(1 .. k) /\ Cardinality(1 .. k) = IF 1 > k THEN 0 ELSE k - 1 + 1
      BY <3>1, FS_Interval
    <3>3. Cardinality(1 .. k) = k
      BY <3>1, <3>2
    <3> QED BY <3>2, <3>3 DEF k
  <2>5. UpTo(c, f) <= n - 1
    <3> DEFINE S == {m \in DOMAIN c : c[m].frame <= f}
    <3>1. S \in SUBSET (1 .. (n - 1))
      BY <2>2
    <3>2. UpTo(c, f) = Cardinality(S)
      BY DEF UpTo
    <3> HIDE DEF S
    <3>3. Cardinality(S) <= Cardinality(1 .. (n - 1))
      BY <2>4, <3>1, FS_Subset
    <3> QED BY <2>4, <3>2, <3>3
  <2> QED BY <1>1, <1>2, <1>4, <2>5
<1> QED BY <1>3, <1>4

(* The events that are left are over before the last skill is, and then no *)
(* skill is active; until then every judgement to come is covered by the   *)
(* window of the activation that will be in effect.                        *)
EventsEnd ==
    /\ EndsIdle(events, active)
    /\ \A k \in DOMAIN events : events[k].frame <= sched.until - 46

Foreseen ==
    \A n \in DOMAIN chart : n >= i =>
        LET a == InEffect(events, active, chart[n].frame)
        IN  Covering(n) = IF a = 0 THEN {} ELSE {a}

TInv == IInv /\ Events /\ EventsEnd /\ Foreseen

(* The judgement to be played, and the queue after it.                     *)
LEMMA Moving ==
    ASSUME TInv, i \in DOMAIN chart
    PROVE  /\ Len(order) \in Nat /\ events \in Seq(Named(Len(order)))
           /\ i \in Nat /\ chart \in Charts /\ chart[i].frame \in Nat
           /\ sched.until \in Int
           /\ EventsLeft = SubSeq(events, DueAt(events, chart[i].frame) + 1, Len(events))
           /\ ActiveNow = InEffect(events, active, chart[i].frame)
           /\ \A n \in DOMAIN chart : n >= i => /\ n \in Nat /\ chart[n].frame \in Nat
                                                 /\ chart[i].frame <= chart[n].frame
<1>1. /\ Len(order) \in Nat /\ events \in Seq(Named(Len(order)))
      /\ i \in Nat /\ chart \in Charts /\ sched.until \in Int
  BY DEF TInv, IInv, Inputs, Progress, SchedulerTypes, Scheduler, Events
<1>2. chart[i].frame \in Nat
  BY <1>1, ChartFacts
<1>3. /\ EventsLeft = SubSeq(events, DueAt(events, chart[i].frame) + 1, Len(events))
      /\ ActiveNow = InEffect(events, active, chart[i].frame)
  BY DEF EventsLeft, ActiveNow, Due, DueAt, InEffect
<1>4. \A n \in DOMAIN chart : n >= i => /\ n \in Nat /\ chart[n].frame \in Nat
                                        /\ chart[i].frame <= chart[n].frame
  BY <1>1, ChartFacts
<1> QED BY <1>1, <1>2, <1>3, <1>4

LEMMA Left ==
    ASSUME TInv, i \in DOMAIN chart
    PROVE  /\ EventsLeft \in Seq(Named(Len(order))) /\ EndsIdle(EventsLeft, ActiveNow)
           /\ \A k \in 1 .. Len(EventsLeft) : EventsLeft[k].frame <= sched.until - 46
           /\ \A n \in DOMAIN chart : n >= i =>
                InEffect(EventsLeft, ActiveNow, chart[n].frame)
                  = InEffect(events, active, chart[n].frame)
<1> DEFINE d == DueAt(events, chart[i].frame)
<1>1. /\ d \in 0 .. Len(events) /\ Len(events) \in Nat
      /\ EventsLeft = SubSeq(events, d + 1, Len(events))
  <2>1. /\ Len(order) \in Nat /\ events \in Seq(Named(Len(order)))
        /\ chart[i].frame \in Int
        /\ EventsLeft = SubSeq(events, d + 1, Len(events))
    BY Moving
  <2>2. d \in 0 .. Len(events)
    BY <2>1, DueIs
  <2>3. Len(events) \in Nat
    BY <2>1, NamedFrames
  <2> QED BY <2>1, <2>2, <2>3
<1>2. EndsIdle(EventsLeft, ActiveNow)
  <2>1. /\ Len(order) \in Nat /\ events \in Seq(Named(Len(order)))
        /\ chart[i].frame \in Int /\ EndsIdle(events, active)
    BY Moving DEF TInv, EventsEnd
  <2>2. EndsIdle(SubSeq(events, d + 1, Len(events)), InEffect(events, active, chart[i].frame))
    BY <2>1, IdleStays
  <2> QED BY <1>1, <2>2, Moving
<1>3. \A n \in DOMAIN chart : n >= i =>
        InEffect(EventsLeft, ActiveNow, chart[n].frame)
          = InEffect(events, active, chart[n].frame)
  <2> TAKE n \in DOMAIN chart
  <2> HAVE n >= i
  <2>1. /\ Len(order) \in Nat /\ events \in Seq(Named(Len(order)))
        /\ chart[i].frame \in Int /\ chart[n].frame \in Int
        /\ chart[i].frame <= chart[n].frame
    BY Moving
  <2>2. InEffect(SubSeq(events, d + 1, Len(events)),
                 InEffect(events, active, chart[i].frame), chart[n].frame)
          = InEffect(events, active, chart[n].frame)
    BY <2>1, Advance
  <2> QED BY <1>1, <2>2, Moving
<1> HIDE DEF d
<1>4. /\ EventsLeft \in Seq(Named(Len(order))) /\ Len(EventsLeft) = Len(events) - d
      /\ \A j \in 1 .. (Len(events) - d) : EventsLeft[j] = events[d + j]
  <2>1. \A k \in d + 1 .. Len(events) : events[k] \in Named(Len(order))
    BY <1>1, Moving
  <2> QED BY <1>1, <2>1, SubSeqProperties, Moving
<1>5. ASSUME NEW k \in 1 .. Len(EventsLeft) PROVE EventsLeft[k].frame <= sched.until - 46
  <2>1. k \in 1 .. (Len(events) - d) /\ d + k \in 1 .. Len(events)
    BY <1>1, <1>4
  <2>2. d + k \in DOMAIN events
    BY <2>1, Moving
  <2> QED BY <1>4, <2>1, <2>2 DEF TInv, EventsEnd
<1> QED BY <1>2, <1>3, <1>4, <1>5

LEMMA PlayTimeline ==
    ASSUME TInv, Play
    PROVE  EventsEnd' /\ Foreseen'
<1>1. /\ i \in DOMAIN chart /\ i' = i + 1 /\ active' = ActiveNow /\ events' = EventsLeft
      /\ chart' = chart /\ windows' = windows /\ sched' = sched
  BY DEF Play
<1>2. EventsEnd'
  <2>1. EndsIdle(events', active')
    BY <1>1, Left
  <2>2. DOMAIN events' = 1 .. Len(events')
    BY <1>1, Left
  <2>3. \A k \in DOMAIN events' : events'[k].frame <= sched'.until - 46
    BY <1>1, <2>2, Left
  <2> QED BY <2>1, <2>3 DEF EventsEnd
<1>3. ASSUME NEW n \in DOMAIN chart, n >= i + 1
      PROVE  LET a == InEffect(events', active', chart[n].frame)
             IN  Covering(n) = IF a = 0 THEN {} ELSE {a}
  <2>1. n >= i
    BY <1>1, <1>3, Moving, ChartFacts
  <2>2. InEffect(events', active', chart[n].frame) = InEffect(events, active, chart[n].frame)
    BY <1>1, <2>1, Left
  <2> QED BY <2>1, <2>2 DEF TInv, Foreseen
<1>4. \A n : Covering(n)' = Covering(n)
  BY <1>1 DEF Covering
<1> QED BY <1>1, <1>2, <1>3, <1>4 DEF Foreseen

(* What the new window adds to the windows that cover a judgement.         *)
LEMMA CoveringGrows ==
    ASSUME TInv, NEW card \in Cards, Trigger(card), NEW n \in DOMAIN chart,
           NEW w, w = WindowRange(chart, i, Schedule(sched, chart[i].frame, team[card]))
    PROVE  Covering(n)' = Covering(n) \cup IF w.from < n /\ n <= w.to
                                           THEN {Activation} ELSE {}
<1>1. /\ Len(order) \in Nat
      /\ DOMAIN windows = 1 .. Len(order) /\ DOMAIN windows' = 1 .. (Len(order) + 1)
      /\ windows'[Len(order) + 1] = w
      /\ \A a \in 1 .. Len(order) : windows'[a] = windows[a]
  BY Appended DEF TInv, IInv
<1>2. \A a \in DOMAIN windows' : a \in DOMAIN windows \/ a = Len(order) + 1
  BY <1>1
<1>3. DOMAIN windows \subseteq DOMAIN windows' /\ Len(order) + 1 \in DOMAIN windows'
  BY <1>1
<1> QED BY <1>1, <1>2, <1>3 DEF Covering, Activation

LEMMA TriggerTimeline ==
    ASSUME TInv, NEW card \in Cards, Trigger(card)
    PROVE  EventsEnd' /\ Foreseen'
<1> DEFINE t == chart[i].frame
           w == Schedule(sched, t, team[card])
           r == WindowRange(chart, i, w)
           A == Len(order) + 1
           x == [frame |-> w.event, active |-> A]
           y == [frame |-> w.end, active |-> 0]
<1>1. /\ i \in DOMAIN chart /\ i' = i + 1 /\ chart' = chart /\ sched' = After(w)
      /\ active' = IF w.event > t THEN ActiveNow ELSE A
      /\ events' = (EventsLeft \o (IF w.event > t THEN <<x>> ELSE <<>>)) \o <<y>>
  BY DEF Trigger, Activation
<1>2. /\ Len(order) \in Nat /\ A \in Nat /\ A # 0 /\ Len(order) <= A
      /\ i \in Nat /\ chart \in Charts /\ t \in Nat /\ sched.until \in Int
  BY <1>1, Moving
<1>3. /\ w.event \in Int /\ w.end \in Int /\ sched'.until = w.end + 46
      /\ t <= sched.until => w.event = sched.next - 1 /\ w.end = sched.next + team[card]
      /\ ~(t <= sched.until) => w.event = t /\ w.end = t + 1 + team[card]
      /\ team[card] \in Nat /\ sched \in Scheduler
  <2>1. team[card] \in Nat /\ sched \in Scheduler
    BY TriggerNumbers DEF TInv, IInv, SchedulerTypes
  <2>2. /\ w.event \in Int /\ w.end \in Int /\ After(w).until = w.end + 46
        /\ t <= sched.until => w.event = sched.next - 1 /\ w.end = sched.next + team[card]
        /\ ~(t <= sched.until) => w.event = t /\ w.end = t + 1 + team[card]
    <3>1. t \in Nat
      BY <1>2
    <3> HIDE DEF t
    <3>2. After(w).until = w.end + 46
      BY AfterFields
    <3> QED BY <2>1, <3>1, <3>2 DEF Scheduler, Schedule, Queued
  <2> HIDE DEF t, w, r, x, y, A
  <2>3. sched'.until = w.end + 46
    BY <1>1, <2>2
  <2> QED BY <2>1, <2>2, <2>3
<1>4. t <= sched.until => sched.next = sched.until + 2
  <2> SUFFICES ASSUME t <= sched.until PROVE sched.next = sched.until + 2
    OBVIOUS
  <2>1. Len(order) # 0
    BY <1>2, FreshFacts DEF TInv, IInv, Releases
  <2> QED BY <1>2, <2>1 DEF TInv, IInv, Releases
<1>5. x \in Named(A) /\ y \in Named(A)
  BY <1>2, <1>3 DEF Named
<1>6. EventsLeft \in Seq(Named(A)) /\ EndsIdle(EventsLeft, ActiveNow)
      /\ \A k \in 1 .. Len(EventsLeft) : EventsLeft[k].frame <= sched.until - 46
  <2>1. Named(Len(order)) \subseteq Named(A)
    BY <1>2 DEF Named
  <2> QED BY <1>1, <2>1, Left, SeqMonotonic
<1>7. ASSUME NEW n \in DOMAIN chart, n >= i + 1
      PROVE  /\ n \in Nat /\ n >= i /\ chart[n].frame \in Nat /\ t <= chart[n].frame
             /\ InEffect(EventsLeft, ActiveNow, chart[n].frame)
                  = InEffect(events, active, chart[n].frame)
             /\ LET a == InEffect(EventsLeft, ActiveNow, chart[n].frame)
                IN  Covering(n) = IF a = 0 THEN {} ELSE {a}
  <2>1. n \in Nat /\ n >= i
    BY <1>2, <1>7, ChartFacts
  <2>2. InEffect(EventsLeft, ActiveNow, chart[n].frame)
          = InEffect(events, active, chart[n].frame)
    BY <1>1, <2>1, Left
  <2> QED BY <1>1, <2>1, <2>2, Moving DEF TInv, Foreseen
<1>8. ASSUME NEW n \in DOMAIN chart
      PROVE  Covering(n)' = Covering(n) \cup IF r.from < n /\ n <= r.to THEN {A} ELSE {}
  BY CoveringGrows DEF Activation
<1>9. \A n \in DOMAIN chart : /\ n <= UpTo(chart, w.event) <=> chart[n].frame <= w.event
                              /\ n <= UpTo(chart, w.end) <=> chart[n].frame <= w.end
  BY <1>2, <1>3, UpToExactly
<1>10. UpTo(chart, w.event) \in Nat /\ UpTo(chart, w.end) \in Nat
  BY <1>2, <1>3, UpToSets
<1>11. /\ r.from = IF w.event > t THEN UpTo(chart, w.event) ELSE i
       /\ r.to = UpTo(chart, w.end)
  BY DEF WindowRange
<1> HIDE DEF t, w, r, x, y, A
<1>12. CASE ~(t <= sched.until)
  <2>1. w.event = t /\ ~(w.event > t) /\ w.end = t + 1 + team[card]
    BY <1>2, <1>3, <1>12
  <2>2. EventsLeft = <<>>
    <3>1. \A k \in 1 .. Len(events) : events[k].frame < t
      <4> TAKE k \in 1 .. Len(events)
      <4>1. k \in DOMAIN events /\ events[k].frame \in Int
        BY <1>1, Moving, NamedFrames
      <4>2. events[k].frame <= sched.until - 46
        BY <4>1 DEF TInv, EventsEnd
      <4> QED BY <1>2, <1>12, <4>1, <4>2
    <3>2. DueAt(events, t) = Len(events) /\ Len(events) \in Nat
      <4>1. events \in Seq(Named(Len(order))) /\ t \in Int
        BY <1>1, <1>2, Moving
      <4>2. DueAt(events, t) = Len(events)
        BY ONLY <1>2, <3>1, <4>1, AllDue
      <4> QED BY <4>1, <4>2
    <3>3. EventsLeft = SubSeq(events, Len(events) + 1, Len(events))
      BY <1>1, <3>2, Moving DEF t
    <3>4. Len(events) + 1 > Len(events) /\ events \in Seq(Named(Len(order)))
      BY <1>1, <3>2, Moving
    <3> QED BY <3>2, <3>3, <3>4
  <2>3. events' = <<y>> /\ active' = A
    <3>1. events' = (<<>> \o <<>>) \o <<y>>
      BY <1>1, <2>1, <2>2
    <3>2. <<>> \o <<>> = <<>> /\ <<>> \o <<y>> = <<y>>
      OBVIOUS
    <3>3. active' = A
      BY <1>1, <2>1
    <3> QED BY <3>1, <3>2, <3>3
  <2>4. EventsEnd'
    <3>1. Len(<<y>>) = 1 /\ <<y>>[1] = y /\ DOMAIN <<y>> = {1} /\ <<y>> # <<>>
      OBVIOUS
    <3>2. y.active = 0 /\ y.frame <= sched'.until - 46
      BY <1>3 DEF y
    <3>3. EndsIdle(<<y>>, A)
      BY <3>1, <3>2 DEF EndsIdle
    <3> QED BY <2>3, <3>1, <3>2, <3>3 DEF EventsEnd
  <2>5. ASSUME NEW n \in DOMAIN chart, n >= i + 1
        PROVE  LET a == InEffect(events', active', chart[n].frame)
               IN  Covering(n)' = IF a = 0 THEN {} ELSE {a}
    <3>1. Covering(n) = {}
      <4>1. EndsIdle(<<>>, ActiveNow)
        BY <1>6, <2>2
      <4>2. InEffect(<<>>, ActiveNow, chart[n].frame) = 0
        <5> DEFINE s == <<>>
        <5>1. s \in Seq(Named(A)) /\ Len(s) = 0 /\ chart[n].frame \in Int /\ A \in Nat
          BY <1>2, <1>7, <2>5
        <5>2. \A j \in 1 .. Len(s) : s[j].frame < chart[n].frame
          BY <5>1
        <5>3. EndsIdle(s, ActiveNow)
          BY <4>1
        <5> HIDE DEF s
        <5>4. InEffect(s, ActiveNow, chart[n].frame) = 0
          BY <5>1, <5>2, <5>3, IdleAfter
        <5> QED BY <5>4 DEF s
      <4> QED BY <1>7, <2>2, <2>5, <4>2
    <3>2. InEffect(events', active', chart[n].frame)
            = IF w.end < chart[n].frame THEN 0 ELSE A
      BY <1>2, <1>5, <1>7, <2>3, <2>5, OneEvent DEF y
    <3>3. r.from < n /\ (n <= r.to <=> ~(w.end < chart[n].frame))
      BY <1>2, <1>3, <1>7, <1>9, <1>11, <2>1, <2>5
    <3> QED BY <1>2, <1>8, <3>1, <3>2, <3>3
  <2> QED BY <1>1, <2>4, <2>5 DEF Foreseen
<1>13. CASE t <= sched.until
  <2>1. /\ w.event = sched.until + 1 /\ w.event > t
        /\ w.end = sched.until + 2 + team[card] /\ w.event <= w.end
    BY <1>2, <1>3, <1>4, <1>13
  <2>2. events' = (EventsLeft \o <<x>>) \o <<y>> /\ active' = ActiveNow
    BY <1>1, <2>1
  <2>3. x.frame = w.event /\ x.active = A /\ y.frame = w.end /\ y.active = 0
    BY DEF x, y
  <2>4. EventsEnd'
    <3> DEFINE s == (EventsLeft \o <<x>>) \o <<y>>
    <3>1. /\ Len(EventsLeft) \in Nat /\ Len(s) = Len(EventsLeft) + 2
          /\ DOMAIN s = 1 .. (Len(EventsLeft) + 2) /\ s # <<>>
          /\ s[Len(EventsLeft) + 1] = x /\ s[Len(EventsLeft) + 2] = y
          /\ \A k \in 1 .. Len(EventsLeft) : s[k] = EventsLeft[k]
      BY <1>5, <1>6
    <3> HIDE DEF s
    <3>2. EndsIdle(s, ActiveNow)
      BY <2>3, <3>1 DEF EndsIdle
    <3>3. \A k \in DOMAIN s : s[k].frame <= w.end
      <4> TAKE k \in DOMAIN s
      <4>1. CASE k \in 1 .. Len(EventsLeft)
        <5>1. EventsLeft[k].frame <= sched.until - 46 /\ EventsLeft[k].frame \in Int
          BY <1>2, <1>6, <4>1, NamedFrames
        <5> QED BY <1>2, <1>3, <2>1, <3>1, <4>1, <5>1
      <4>2. CASE k \notin 1 .. Len(EventsLeft)
        <5>1. k = Len(EventsLeft) + 1 \/ k = Len(EventsLeft) + 2
          BY <3>1, <4>2
        <5> QED BY <1>3, <2>1, <2>3, <3>1, <5>1
      <4> QED BY <4>1, <4>2
    <3>4. sched'.until - 46 = w.end
      BY <1>3
    <3> QED BY <2>2, <3>2, <3>3, <3>4 DEF EventsEnd, s
  <2>5. ASSUME NEW n \in DOMAIN chart, n >= i + 1
        PROVE  LET a == InEffect(events', active', chart[n].frame)
               IN  Covering(n)' = IF a = 0 THEN {} ELSE {a}
    <3> DEFINE g == chart[n].frame
    <3>1. /\ n \in Nat /\ g \in Nat
          /\ LET a == InEffect(EventsLeft, ActiveNow, g)
             IN  Covering(n) = IF a = 0 THEN {} ELSE {a}
      BY <1>7, <2>5
    <3>2. /\ n <= r.to <=> g <= w.end
          /\ r.from < n <=> ~(g <= w.event)
      BY <1>9, <1>10, <1>11, <2>1, <3>1
    <3>3. CASE g <= w.event
      <4>1. InEffect(EventsLeft \o <<x>>, ActiveNow, g) = InEffect(EventsLeft, ActiveNow, g)
        BY <1>2, <1>3, <1>5, <1>6, <2>3, <3>1, <3>3, LateEvent
      <4>2. InEffect((EventsLeft \o <<x>>) \o <<y>>, ActiveNow, g)
              = InEffect(EventsLeft \o <<x>>, ActiveNow, g)
        <5> DEFINE s == EventsLeft \o <<x>>
        <5>1. s \in Seq(Named(A)) /\ ~(y.frame < g)
          BY <1>3, <1>5, <1>6, <2>1, <2>3, <3>1, <3>3
        <5> HIDE DEF s, g
        <5>2. InEffect(s \o <<y>>, ActiveNow, g) = InEffect(s, ActiveNow, g)
          BY <1>2, <1>5, <3>1, <5>1, LateEvent
        <5> QED BY <5>2 DEF s
      <4> QED BY <1>8, <2>2, <3>1, <3>2, <3>3, <4>1, <4>2
    <3>4. CASE ~(g <= w.event)
      <4>1. \A k \in 1 .. Len(EventsLeft) : EventsLeft[k].frame < g
        <5> TAKE k \in 1 .. Len(EventsLeft)
        <5>1. EventsLeft[k].frame <= sched.until - 46 /\ EventsLeft[k].frame \in Int
          BY <1>2, <1>6, NamedFrames
        <5> QED BY <1>2, <2>1, <3>1, <3>4, <5>1
      <4>2. Covering(n) = {}
        BY <1>2, <1>6, <3>1, <4>1, IdleAfter
      <4>3. InEffect(events', active', g) = IF w.end < g THEN 0 ELSE A
        <5>1. x.frame < g
          BY <1>3, <2>3, <3>1, <3>4
        <5> DEFINE s == EventsLeft
        <5>2. /\ A \in Nat /\ s \in Seq(Named(A)) /\ g \in Int
              /\ x \in Named(A) /\ y \in Named(A) /\ x.frame < g
              /\ \A k \in 1 .. Len(s) : s[k].frame < g
          BY <1>2, <1>5, <1>6, <3>1, <4>1, <5>1
        <5> HIDE DEF g, s
        <5>3. InEffect((s \o <<x>>) \o <<y>>, ActiveNow, g)
                = IF y.frame < g THEN y.active ELSE x.active
          BY ONLY <5>2, StartAndEnd
        <5> QED BY <2>2, <2>3, <5>3 DEF s
      <4>4. g <= w.end <=> ~(w.end < g)
        BY <1>3, <3>1
      <4> QED BY <1>2, <1>8, <3>2, <3>4, <4>2, <4>3, <4>4
    <3> QED BY <3>3, <3>4
  <2> QED BY <1>1, <2>4, <2>5 DEF Foreseen
<1> QED BY <1>12, <1>13

(* The scorer's queue of events and the windows of the searches agree on   *)
(* every judgement (native_score_notes, scheduled_window_range): for every *)
(* chart, team, order of the cards and durations.                          *)
THEOREM ScorerMatchesWindows == Spec => []TimelineMatchesWindows
<1>1. Init => EventsEnd /\ Foreseen
  <2> SUFFICES ASSUME Init PROVE EventsEnd /\ Foreseen
    OBVIOUS
  <2>1. events = <<>> /\ active = 0 /\ windows = <<>> /\ DOMAIN events = {} /\ DOMAIN windows = {}
    BY DEF Init
  <2>2. EventsEnd
    BY <2>1 DEF EventsEnd, EndsIdle
  <2>3. ASSUME NEW n \in DOMAIN chart
        PROVE  Covering(n) = {} /\ InEffect(events, active, chart[n].frame) = 0
    <3>1. chart[n].frame \in Nat
      BY ChartFacts DEF Init
    <3> DEFINE g == chart[n].frame
    <3>2. events \in Seq(Named(1)) /\ Len(events) = 0 /\ g \in Int /\ 1 \in Nat
      BY <2>1, <3>1
    <3>3. EndsIdle(events, active) /\ \A j \in 1 .. Len(events) : events[j].frame < g
      BY <2>2, <3>2 DEF EventsEnd
    <3> HIDE DEF g
    <3>4. InEffect(events, active, g) = 0
      BY ONLY <3>2, <3>3, IdleAfter
    <3> QED BY <2>1, <3>4 DEF Covering, g
  <2> QED BY <2>2, <2>3 DEF Foreseen
<1>2. IInv /\ Events /\ EventsEnd /\ Foreseen /\ [Next]_vars => EventsEnd' /\ Foreseen'
  <2> SUFFICES ASSUME TInv, [Next]_vars PROVE EventsEnd' /\ Foreseen'
    BY DEF TInv
  <2>1. CASE Play
    BY <2>1, PlayTimeline
  <2>2. ASSUME NEW card \in Cards, MayTrigger(card) /\ Trigger(card)
        PROVE  EventsEnd' /\ Foreseen'
    BY <2>2, TriggerTimeline
  <2>3. CASE UNCHANGED vars
    BY <2>3 DEF vars, timeline, TInv, EventsEnd, Foreseen, Covering
  <2> QED BY <2>1, <2>2, <2>3 DEF Next
<1>3. Spec => []Events
  BY EventsAlways
<1>4. Foreseen /\ IInv => TimelineMatchesWindows
  <2> SUFFICES ASSUME Foreseen, IInv, i \in DOMAIN chart
               PROVE  Covering(i) = IF ActiveNow = 0 THEN {} ELSE {ActiveNow}
    BY DEF TimelineMatchesWindows
  <2>1. i >= i
    BY DEF IInv, Progress
  <2>2. ActiveNow = InEffect(events, active, chart[i].frame)
    BY DEF ActiveNow, Due, DueAt, InEffect
  <2> QED BY <2>1, <2>2 DEF Foreseen
<1> QED BY <1>1, <1>2, <1>3, <1>4, Inductive, PTL DEF Spec

(* ---- The activation of a trigger --------------------------------------- *)

LEMMA SizeFacts == Size \in Nat /\ Activations = 1 .. Size + 1
  BY CardsAssumption, FS_CardinalityType DEF Size, Activations

(* The skills among the first n judgements.                                *)
SkillsUpTo(n) == {m \in 1 .. n : chart[m].skill}

LEMMA SkillsFinite ==
    ASSUME NEW n \in Int
    PROVE  IsFiniteSet(SkillsUpTo(n)) /\ Cardinality(SkillsUpTo(n)) \in Nat
<1>1. IsFiniteSet(1 .. n)
  BY FS_Interval
<1>2. SkillsUpTo(n) \in SUBSET (1 .. n)
  BY DEF SkillsUpTo
<1> QED BY <1>1, <1>2, FS_Subset, FS_CardinalityType

LEMMA SkillsGrow ==
    ASSUME NEW m \in Int, NEW n \in Int, m <= n
    PROVE  Cardinality(SkillsUpTo(m)) <= Cardinality(SkillsUpTo(n))
<1>1. SkillsUpTo(m) \in SUBSET SkillsUpTo(n)
  BY DEF SkillsUpTo
<1> QED BY <1>1, SkillsFinite, FS_Subset

LEMMA SkillsStep ==
    ASSUME NEW n \in Nat \ {0}
    PROVE  Cardinality(SkillsUpTo(n))
             = Cardinality(SkillsUpTo(n - 1)) + (IF chart[n].skill THEN 1 ELSE 0)
<1>1. n - 1 \in Nat /\ n \notin SkillsUpTo(n - 1)
  BY DEF SkillsUpTo
<1>2. IsFiniteSet(SkillsUpTo(n - 1)) /\ Cardinality(SkillsUpTo(n - 1)) \in Nat
  BY <1>1, SkillsFinite
<1>3. CASE chart[n].skill
  <2>1. SkillsUpTo(n) = SkillsUpTo(n - 1) \cup {n}
    BY <1>1, <1>3 DEF SkillsUpTo
  <2> QED BY <1>1, <1>2, <1>3, <2>1, FS_AddElement
<1>4. CASE ~chart[n].skill
  <2>1. SkillsUpTo(n) = SkillsUpTo(n - 1)
    BY <1>1, <1>4 DEF SkillsUpTo
  <2> QED BY <1>2, <1>4, <2>1
<1> QED BY <1>3, <1>4

(* As many skills were triggered as there are judgements with one.         *)
Counted ==
    /\ i \in 1 .. Len(chart) + 1
    /\ Cardinality(SkillsUpTo(i - 1)) = Len(order)

(* The judgement that triggers an activation is the one that the table was *)
(* built with.                                                             *)
LEMMA TriggerIsNode ==
    ASSUME IInv, Counted, nodeOf = SkillNodeIndices, i \in DOMAIN chart, chart[i].skill
    PROVE  Len(order) + 1 \in Activations /\ nodeOf[Len(order) + 1] = i
<1> DEFINE a == Len(order) + 1
<1>1. /\ chart \in Charts /\ DOMAIN chart = 1 .. Len(chart) /\ Len(chart) \in Nat
      /\ i \in Nat \ {0} /\ Len(order) \in Nat /\ a \in Nat
  BY ChartFacts DEF IInv, Inputs, Progress
<1>2. Cardinality(SkillsUpTo(i - 1)) = Len(order) /\ Cardinality(SkillsUpTo(i)) = a
  BY <1>1, SkillsStep DEF Counted
<1>3. a \in Activations
  <2>1. SkillsUpTo(Len(chart)) = {n \in DOMAIN chart : chart[n].skill}
    BY <1>1 DEF SkillsUpTo
  <2>2. Cardinality(SkillsUpTo(Len(chart))) = Size + 1
    BY <1>1, <2>1, SkillsAssumption
  <2>3. a <= Cardinality(SkillsUpTo(Len(chart)))
    BY <1>1, <1>2, SkillsGrow
  <2>4. Cardinality(SkillsUpTo(Len(chart))) \in Nat
    BY <1>1, SkillsFinite
  <2> HIDE DEF a
  <2> QED BY <1>1, <2>2, <2>3, <2>4, SizeFacts DEF a
<1>4. ASSUME NEW n \in DOMAIN chart, chart[n].skill, Cardinality(SkillsUpTo(n)) = a
      PROVE  n = i
  <2>1. n \in Nat \ {0} /\ n - 1 \in Int /\ i - 1 \in Int
    BY <1>1
  <2>2. ~(n < i)
    <3> SUFFICES ASSUME n < i PROVE FALSE
      OBVIOUS
    <3>1. n <= i - 1
      BY <1>1, <2>1
    <3>2. Cardinality(SkillsUpTo(n)) <= Cardinality(SkillsUpTo(i - 1))
      BY <2>1, <3>1, SkillsGrow
    <3> QED BY <1>1, <1>2, <1>4, <3>2
  <2>3. ~(i < n)
    <3> SUFFICES ASSUME i < n PROVE FALSE
      OBVIOUS
    <3>1. i <= n - 1
      BY <1>1, <2>1
    <3>2. Cardinality(SkillsUpTo(i)) <= Cardinality(SkillsUpTo(n - 1))
      BY <1>1, <2>1, <3>1, SkillsGrow
    <3>3. Cardinality(SkillsUpTo(n)) = Cardinality(SkillsUpTo(n - 1)) + 1
      BY <1>4, <2>1, SkillsStep
    <3>4. Cardinality(SkillsUpTo(n - 1)) \in Nat
      BY <2>1, SkillsFinite
    <3> QED BY <1>1, <1>2, <1>4, <3>2, <3>3, <3>4
  <2> QED BY <1>1, <2>1, <2>2, <2>3
<1>5. nodeOf[a] = CHOOSE n \in DOMAIN chart : chart[n].skill /\ Cardinality(SkillsUpTo(n)) = a
  BY <1>3 DEF SkillNodeIndices, SkillsUpTo
<1> HIDE DEF a
<1>6. nodeOf[a] = i
  BY <1>2, <1>4, <1>5
<1> QED BY <1>3, <1>6 DEF a

(* ---- The table is built ------------------------------------------------- *)

LEMMA NatLeast ==
    ASSUME NEW S, S \subseteq Nat, S # {}
    PROVE  \E x \in S : \A y \in S : x <= y
<1>1. PICK x \in S : \A y \in S : ~(<<y, x>> \in OpToRel(<, Nat))
  BY NatLessThanWellFounded, WFMin
<1>2. \A y \in S : ~(y < x)
  BY <1>1 DEF OpToRel
<1> QED BY <1>2

(* The recursive functions of the table, as far as they are built: states  *)
(* from the first layer on, rows from the last one.  That they exist is    *)
(* shown for the least layer at which they would not.                      *)
RawStep(f, a) == IF a = 1 THEN {Fresh} ELSE Successors(f[a - 1], a - 1)

RawTo(f, n) == f = [a \in 1 .. n |-> RawStep(f, a)]

LEMMA RawExists ==
    ASSUME NEW n \in Nat
    PROVE  \E f : RawTo(f, n)
<1> DEFINE Bad == {m \in Nat : ~\E f : RawTo(f, m)}
<1> SUFFICES ASSUME Bad # {} PROVE FALSE
  OBVIOUS
<1>1. PICK m \in Bad : \A k \in Bad : m <= k
  <2>1. Bad \subseteq Nat
    OBVIOUS
  <2> HIDE DEF Bad
  <2> QED BY <2>1, NatLeast
<1>2. m \in Nat /\ ~\E f : RawTo(f, m)
  OBVIOUS
<1>3. m # 0
  <2>1. RawTo([a \in 1 .. 0 |-> {}], 0)
    BY DEF RawTo
  <2> QED BY <1>2, <2>1
<1>4. PICK g : RawTo(g, m - 1)
  <2>1. m - 1 \in Nat /\ ~(m <= m - 1)
    BY <1>2, <1>3
  <2>2. m - 1 \notin Bad
    BY <1>1, <2>1
  <2> QED BY <2>1, <2>2
<1> DEFINE f == [a \in 1 .. m |-> IF a = m THEN RawStep(g, m) ELSE g[a]]
<1>5. ASSUME NEW a \in 1 .. m
      PROVE  f[a] = RawStep(f, a)
  <2>1. a # 1 => f[a - 1] = g[a - 1]
    BY <1>2, <1>5
  <2>2. RawStep(f, a) = RawStep(g, a)
    <3> HIDE DEF f
    <3> QED BY <2>1 DEF RawStep
  <2>3. a # m => g[a] = RawStep(g, a)
    BY <1>2, <1>4, <1>5 DEF RawTo
  <2> QED BY <2>2, <2>3
<1>6. f = [a \in 1 .. m |-> RawStep(f, a)]
  <2>1. f = [a \in 1 .. m |-> f[a]]
    OBVIOUS
  <2> HIDE DEF f
  <2> QED BY <1>5, <2>1
<1>7. RawTo(f, m)
  <2> HIDE DEF f
  <2> QED BY <1>6 DEF RawTo
<1> QED BY <1>2, <1>7

LEMMA RawFacts ==
    /\ RawStates[1] = {Fresh}
    /\ \A a \in 1 .. Size : RawStates[a + 1] = Successors(RawStates[a], a)
<1>1. \E f : RawTo(f, Size + 1)
  BY RawExists, SizeFacts
<1>2. RawTo(RawStates, Size + 1)
  BY <1>1, SizeFacts DEF RawStates, RawTo, RawStep
<1> DEFINE raw == RawStates
<1> HIDE DEF raw
<1>3. \A a \in 1 .. Size + 1 : raw[a] = RawStep(raw, a)
  BY <1>2 DEF RawTo, raw
<1>4. 1 \in 1 .. Size + 1
  BY SizeFacts
<1>5. raw[1] = {Fresh}
  BY <1>3, <1>4 DEF RawStep
<1>6. ASSUME NEW a \in 1 .. Size PROVE raw[a + 1] = Successors(raw[a], a)
  <2>1. a + 1 \in 1 .. Size + 1 /\ a + 1 # 1 /\ (a + 1) - 1 = a
    BY SizeFacts
  <2>2. raw[a + 1] = RawStep(raw, a + 1)
    BY <1>3, <2>1
  <2> QED BY <2>1, <2>2 DEF RawStep
<1> QED BY <1>5, <1>6 DEF raw

LayerStep(f, a, raw) ==
    IF a = Size + 2 THEN [rows |-> <<>>, representative |-> <<>>]
    ELSE Layer(f[a + 1], a, raw[a])

LayersFrom(f, n, raw) == f = [a \in n .. Size + 2 |-> LayerStep(f, a, raw)]

LEMMA LayersExist ==
    ASSUME NEW raw, NEW n \in 0 .. Size + 1
    PROVE  \E f : LayersFrom(f, Size + 2 - n, raw)
<1> DEFINE Bad == {m \in Nat : ~\E f : LayersFrom(f, Size + 2 - m, raw)}
<1> SUFFICES ASSUME Bad # {} PROVE FALSE
  <2>1. n \in Nat
    BY SizeFacts
  <2> QED BY <2>1
<1>1. PICK m \in Bad : \A k \in Bad : m <= k
  <2>1. Bad \subseteq Nat
    OBVIOUS
  <2> HIDE DEF Bad
  <2> QED BY <2>1, NatLeast
<1>2. m \in Nat /\ ~\E f : LayersFrom(f, Size + 2 - m, raw)
  OBVIOUS
<1> DEFINE first == Size + 2 - m
<1>3. first \in Int /\ first <= Size + 2 /\ Size \in Nat
  BY <1>2, SizeFacts
<1>4. \E g : first # Size + 2 => LayersFrom(g, first + 1, raw)
  <2>1. CASE m = 0
    BY <2>1, SizeFacts
  <2>2. CASE m # 0
    <3>1. m - 1 \in Nat /\ ~(m <= m - 1) /\ Size + 2 - (m - 1) = first + 1
      BY <1>2, <1>3, <2>2
    <3>2. m - 1 \notin Bad
      BY <1>1, <3>1
    <3> HIDE DEF first
    <3>3. \E g : LayersFrom(g, Size + 2 - (m - 1), raw)
      BY <3>1, <3>2
    <3> QED BY <3>1, <3>3
  <2> QED BY <2>1, <2>2
<1>5. PICK g : first # Size + 2 => LayersFrom(g, first + 1, raw)
  BY <1>4
<1> HIDE DEF first
<1> DEFINE f == [a \in first .. Size + 2 |-> IF a = first THEN LayerStep(g, first, raw) ELSE g[a]]
<1>6. ASSUME NEW a \in first .. Size + 2
      PROVE  f[a] = LayerStep(f, a, raw)
  <2>1. a # Size + 2 => f[a + 1] = g[a + 1]
    BY <1>3, <1>6
  <2>2. LayerStep(f, a, raw) = LayerStep(g, a, raw)
    <3> HIDE DEF f
    <3> QED BY <2>1 DEF LayerStep
  <2>3. a # first => g[a] = LayerStep(g, a, raw)
    <3> SUFFICES ASSUME a # first PROVE g[a] = LayerStep(g, a, raw)
      OBVIOUS
    <3>1. first # Size + 2 /\ a \in first + 1 .. Size + 2
      BY <1>3, <1>6
    <3>2. g = [b \in first + 1 .. Size + 2 |-> LayerStep(g, b, raw)]
      BY <1>5, <3>1 DEF LayersFrom
    <3> QED BY <3>1, <3>2
  <2> QED BY <2>2, <2>3
<1>7. f = [a \in first .. Size + 2 |-> LayerStep(f, a, raw)]
  <2>1. f = [a \in first .. Size + 2 |-> f[a]]
    OBVIOUS
  <2> HIDE DEF f
  <2> QED BY <1>6, <2>1
<1>8. LayersFrom(f, first, raw)
  <2> HIDE DEF f
  <2> QED BY <1>7 DEF LayersFrom
<1> QED BY <1>2, <1>8 DEF first

LEMMA TabulatedIs == ASSUME NEW f PROVE Tabulated(f) = f
  BY DEF Tabulated

LEMMA MergedFacts ==
    ASSUME NEW raw, NEW a \in Activations
    PROVE  Merged(raw)[a] = Layer(Merged(raw)[a + 1], a, raw[a])
<1>1. 1 = Size + 2 - (Size + 1) /\ Size + 1 \in 0 .. Size + 1
      /\ a \in 1 .. Size + 2 /\ a # Size + 2
  BY SizeFacts
<1>2. \E f : LayersFrom(f, 1, raw)
  BY <1>1, LayersExist
<1>3. LayersFrom(Merged(raw), 1, raw)
  BY <1>2 DEF Merged, LayersFrom, LayerStep
<1> DEFINE layers == Merged(raw)
<1> HIDE DEF layers
<1>4. layers[a] = LayerStep(layers, a, raw)
  BY <1>1, <1>3 DEF LayersFrom, layers
<1>5. layers[a] = Layer(layers[a + 1], a, raw[a])
  BY <1>1, <1>4 DEF LayerStep
<1> QED BY <1>5 DEF layers

(* A layer has a row for each of its states, and for each a state of the   *)
(* same row.                                                               *)
LEMMA LayerFacts ==
    ASSUME NEW after, NEW a, NEW S
    PROVE  LET layer == Layer(after, a, S)
           IN  /\ layer.rows = [s \in S |-> Row(after, a, s)]
               /\ \A s \in S : /\ layer.representative[s] \in S
                               /\ SameRow(layer.rows[layer.representative[s]], layer.rows[s])
<1> DEFINE rows == [s \in S |-> Row(after, a, s)]
           layer == Layer(after, a, S)
           choice == [s \in S |-> CHOOSE r \in S : SameRow(rows[r], rows[s])]
<1>1. Tabulated([s \in S |-> Tabulated(Row(after, a, s))]) = rows
  <2>1. \A s \in S : Tabulated(Row(after, a, s)) = Row(after, a, s)
    BY TabulatedIs
  <2>2. [s \in S |-> Tabulated(Row(after, a, s))] = rows
    BY <2>1
  <2> QED BY <2>2, TabulatedIs
<1>2. layer = [rows |-> rows, representative |-> choice]
  <2> HIDE DEF rows
  <2>1. Tabulated(choice) = choice
    BY TabulatedIs
  <2> QED BY <1>1, <2>1 DEF Layer
<1>3. layer.rows = rows /\ layer.representative = choice
  <2> HIDE DEF rows, choice, layer
  <2> QED BY <1>2
<1>4. ASSUME NEW s \in S
      PROVE  choice[s] \in S /\ SameRow(rows[choice[s]], rows[s])
  <2> HIDE DEF rows
  <2>1. SameRow(rows[s], rows[s])
    BY DEF SameRow
  <2>2. \E r \in S : SameRow(rows[r], rows[s])
    BY <2>1
  <2> QED BY <2>2
<1> HIDE DEF rows, choice, layer
<1>5. layer.rows = rows
      /\ \A s \in S : /\ layer.representative[s] \in S
                      /\ SameRow(layer.rows[layer.representative[s]], layer.rows[s])
  BY <1>3, <1>4
<1> QED BY <1>5 DEF layer, rows

(* What is right about a table m: it starts with the fresh scheduler, its  *)
(* windows are the scheduler's, and a state's successor has the same row   *)
(* as the scheduler after the skill.                                       *)
ScheduledAt(s, a, d) == Schedule(s, chart[nodeOf[a]].frame, d)

RightAt(m, a, s, d) ==
    /\ m[a][s][d].window = WindowRange(chart, nodeOf[a], ScheduledAt(s, a, d))
    /\ a <= Size => /\ m[a][s][d].next \in DOMAIN m[a + 1]
                    /\ After(ScheduledAt(s, a, d)) \in DOMAIN m[a + 1]
                    /\ SameRow(m[a + 1][m[a][s][d].next], m[a + 1][After(ScheduledAt(s, a, d))])

RightTable(m) ==
    /\ Fresh \in DOMAIN m[1]
    /\ \A a \in Activations : \A s \in DOMAIN m[a], d \in Durations : RightAt(m, a, s, d)

LEMMA MachineRight == RightTable(Machine) /\ Machine # <<>>
<1> DEFINE layers == Merged(RawStates)
           raw == RawStates
           m == Machine
<1>1. m = [a \in Activations |-> layers[a].rows]
  BY DEF Machine
<1>2. /\ \A a \in Activations : layers[a] = Layer(layers[a + 1], a, raw[a])
      /\ raw[1] = {Fresh}
      /\ \A a \in 1 .. Size : raw[a + 1] = Successors(raw[a], a)
  BY MergedFacts, RawFacts
<1> HIDE DEF layers, raw, m
<1>3. ASSUME NEW a \in Activations
      PROVE  /\ m[a] = [s \in raw[a] |-> Row(layers[a + 1], a, s)]
             /\ \A s \in raw[a] : /\ layers[a].representative[s] \in raw[a]
                                  /\ SameRow(m[a][layers[a].representative[s]], m[a][s])
  <2>1. layers[a] = Layer(layers[a + 1], a, raw[a]) /\ m[a] = layers[a].rows
    BY <1>1, <1>2
  <2>2. PICK layer : layer = Layer(layers[a + 1], a, raw[a])
    OBVIOUS
  <2>3. /\ layer.rows = [s \in raw[a] |-> Row(layers[a + 1], a, s)]
        /\ \A s \in raw[a] : /\ layer.representative[s] \in raw[a]
                             /\ SameRow(layer.rows[layer.representative[s]], layer.rows[s])
    BY <2>2, LayerFacts
  <2>4. layers[a] = layer /\ m[a] = layer.rows
    BY <2>1, <2>2
  <2> QED BY ONLY <2>3, <2>4
<1>4. ASSUME NEW a \in Activations, NEW s \in DOMAIN m[a], NEW d \in Durations
      PROVE  RightAt(m, a, s, d)
  <2> DEFINE w == ScheduledAt(s, a, d)
             next == IF a = Size + 1 THEN Fresh ELSE layers[a + 1].representative[After(w)]
  <2>1. s \in raw[a] /\ m[a][s] = Row(layers[a + 1], a, s)
    BY <1>3
  <2>2. m[a][s][d] = [window |-> WindowRange(chart, nodeOf[a], w), next |-> next]
    BY <2>1 DEF Row, ScheduledAt
  <2> HIDE DEF w, next
  <2>3. m[a][s][d].window = WindowRange(chart, nodeOf[a], w) /\ m[a][s][d].next = next
    BY <2>2
  <2>4. ASSUME a <= Size
        PROVE  /\ next \in DOMAIN m[a + 1] /\ After(w) \in DOMAIN m[a + 1]
               /\ SameRow(m[a + 1][next], m[a + 1][After(w)])
    <3>1. a \in 1 .. Size /\ a # Size + 1 /\ a + 1 \in Activations
      BY <2>4, SizeFacts
    <3>2. After(w) \in raw[a + 1]
      <4>1. raw[a + 1] = Successors(raw[a], a)
        BY <1>2, <3>1
      <4>2. w = Schedule(s, chart[nodeOf[a]].frame, d)
        BY DEF w, ScheduledAt
      <4> QED BY <2>1, <4>1, <4>2 DEF Successors
    <3>3. next = layers[a + 1].representative[After(w)]
      BY <3>1 DEF next
    <3>4. DOMAIN m[a + 1] = raw[a + 1]
      BY <1>3, <3>1
    <3>5. /\ layers[a + 1].representative[After(w)] \in raw[a + 1]
          /\ SameRow(m[a + 1][layers[a + 1].representative[After(w)]], m[a + 1][After(w)])
      BY <1>3, <3>1, <3>2
    <3> QED BY <3>2, <3>3, <3>4, <3>5
  <2>5. m[a][s][d].window = WindowRange(chart, nodeOf[a], ScheduledAt(s, a, d))
    BY <2>3 DEF w
  <2>6. a <= Size => /\ m[a][s][d].next \in DOMAIN m[a + 1]
                     /\ After(ScheduledAt(s, a, d)) \in DOMAIN m[a + 1]
                     /\ SameRow(m[a + 1][m[a][s][d].next], m[a + 1][After(ScheduledAt(s, a, d))])
    BY <2>3, <2>4 DEF w
  <2> QED BY <2>5, <2>6 DEF RightAt
<1>5. 1 \in Activations
  BY SizeFacts
<1>6. Fresh \in DOMAIN m[1]
  BY <1>2, <1>3, <1>5
<1>7. m # <<>>
  BY <1>1, <1>5
<1>8. RightTable(m)
  BY <1>4, <1>6 DEF RightTable
<1> QED BY <1>7, <1>8 DEF m

(* ---- The walk in the table ---------------------------------------------- *)

(* The order in which the preparation is made.                             *)
Prepared ==
    /\ nodeOf = SkillNodeIndices
    /\ gains # <<>> => machine # <<>>
    /\ bounds # <<>> => gains # <<>>
    /\ answer # <<>> => bounds # <<>>
    /\ answer = <<>> => order = <<>> /\ state = Fresh /\ sched = Fresh

(* The state that was reached has the row of the actual scheduler.         *)
InTable ==
    Len(order) <= Size =>
        /\ state \in DOMAIN machine[Len(order) + 1]
        /\ sched \in DOMAIN machine[Len(order) + 1]
        /\ SameRow(machine[Len(order) + 1][state], machine[Len(order) + 1][sched])

Walks == Counted /\ Prepared /\ (machine # <<>> => RightTable(machine) /\ InTable)

(* The window that the table gives to the skill that is triggered, and the *)
(* state that follows.                                                     *)
LEMMA TableStep ==
    ASSUME IInv, Walks, NEW card \in Cards, QueueTrigger(card)
    PROVE  /\ machine[Len(order) + 1][state][team[card]].window = windows'[Len(order) + 1]
           /\ InTable'
<1> DEFINE a == Len(order) + 1
           d == team[card]
<1>1. /\ Trigger(card) /\ answer # <<>> /\ machine # <<>>
      /\ machine' = machine /\ nodeOf' = nodeOf /\ chart' = chart
      /\ state' = machine[a][state][d].next
  BY DEF QueueTrigger, prepared, Trigger, Walks, Prepared
<1>2. i \in DOMAIN chart /\ chart[i].skill
  BY <1>1 DEF Trigger
<1>3. a \in Activations /\ nodeOf[a] = i /\ Len(order) \in Nat
  BY <1>2, TriggerIsNode DEF Walks, Prepared, IInv, Progress
<1>4. d \in Durations
  BY DEF IInv, Inputs
<1>5. /\ Len(order') = a
      /\ windows'[a] = WindowRange(chart, i, ScheduledAt(sched, a, d))
      /\ sched' = After(ScheduledAt(sched, a, d))
  BY <1>1, <1>3, Appended DEF IInv, ScheduledAt
<1> HIDE DEF a, d
<1>6. Len(order) <= Size /\ Len(order) + 1 = a /\ a \in Nat
  BY <1>3, SizeFacts DEF a
<1>7. /\ state \in DOMAIN machine[a] /\ sched \in DOMAIN machine[a]
      /\ SameRow(machine[a][state], machine[a][sched])
  BY <1>1, <1>6 DEF Walks, InTable
<1>8. /\ machine[a][state][d].window = machine[a][sched][d].window
      /\ machine[a][state][d].next = machine[a][sched][d].next
  BY <1>4, <1>7 DEF SameRow
<1>9. RightAt(machine, a, sched, d)
  BY <1>1, <1>3, <1>4, <1>7 DEF Walks, RightTable
<1>10. machine[a][state][d].window = windows'[a]
  BY <1>3, <1>5, <1>8, <1>9 DEF RightAt
<1>11. InTable'
  <2>1. SUFFICES ASSUME a <= Size
                 PROVE  /\ state' \in DOMAIN machine[a + 1]
                        /\ sched' \in DOMAIN machine[a + 1]
                        /\ SameRow(machine[a + 1][state'], machine[a + 1][sched'])
    BY <1>1, <1>5 DEF InTable, Size
  <2>2. /\ machine[a][sched][d].next \in DOMAIN machine[a + 1]
        /\ After(ScheduledAt(sched, a, d)) \in DOMAIN machine[a + 1]
        /\ SameRow(machine[a + 1][machine[a][sched][d].next],
                   machine[a + 1][After(ScheduledAt(sched, a, d))])
    BY <1>9, <2>1 DEF RightAt
  <2>3. state' = machine[a][sched][d].next /\ sched' = After(ScheduledAt(sched, a, d))
    BY <1>1, <1>5, <1>8
  <2> QED BY <2>2, <2>3
<1> QED BY <1>6, <1>10, <1>11 DEF d

LEMMA CountedKept ==
    ASSUME IInv, Counted, [Next]_vars
    PROVE  Counted'
<1>1. /\ chart \in Charts /\ DOMAIN chart = 1 .. Len(chart) /\ Len(chart) \in Nat
      /\ i \in Nat \ {0} /\ Len(order) \in Nat
  BY ChartFacts DEF IInv, Inputs, Progress
<1>2. ASSUME i \in DOMAIN chart, i' = i + 1, chart' = chart,
             Len(order') = Len(order) + IF chart[i].skill THEN 1 ELSE 0
      PROVE  Counted'
  <2>1. Cardinality(SkillsUpTo(i)) = Len(order')
    BY <1>1, <1>2, SkillsStep DEF Counted
  <2>2. i' \in 1 .. Len(chart') + 1
    BY <1>1, <1>2
  <2>3. SkillsUpTo(i - 1)' = SkillsUpTo(i)
    BY <1>1, <1>2 DEF SkillsUpTo
  <2> QED BY <2>1, <2>2, <2>3 DEF Counted
<1>3. CASE Play
  BY <1>1, <1>2, <1>3 DEF Play
<1>4. ASSUME NEW card \in Cards, Trigger(card)
      PROVE  Counted'
  <2>1. Len(order') = Len(order) + 1
    BY <1>4, Appended DEF IInv
  <2> QED BY <1>2, <1>4, <2>1 DEF Trigger
<1>5. CASE UNCHANGED vars
  BY <1>5 DEF vars, timeline, Counted, SkillsUpTo
<1> QED BY <1>3, <1>4, <1>5 DEF Next

LEMMA QueueStep == [QueueNext]_queueVars => [Next]_vars
<1>1. Prepare => UNCHANGED vars
  BY DEF Prepare, BuildMachine, BuildGains, BuildBounds, FindAnswer
<1>2. QueuePlay => Next
  BY DEF QueuePlay, Next
<1>3. ASSUME NEW card \in Cards, QueueTrigger(card) PROVE Next
  BY <1>3 DEF QueueTrigger, Next
<1>4. UNCHANGED queueVars => UNCHANGED vars
  BY DEF queueVars
<1> QED BY <1>1, <1>2, <1>3, <1>4 DEF QueueNext

(* While the same chart is played in the same table, the table is right.   *)
LEMMA TableKept ==
    ASSUME chart' = chart, nodeOf' = nodeOf, machine' = machine
    PROVE  /\ RightTable(machine) => RightTable(machine)'
           /\ nodeOf = SkillNodeIndices => (nodeOf = SkillNodeIndices)'
  BY DEF RightTable, RightAt, ScheduledAt, SameRow, SkillNodeIndices, Activations, Size

LEMMA WalksStart == QueueInit => Walks
<1> SUFFICES ASSUME QueueInit PROVE Walks
  OBVIOUS
<1>1. /\ Init /\ nodeOf = SkillNodeIndices /\ machine = <<>> /\ gains = <<>> /\ bounds = <<>>
      /\ answer = <<>> /\ state = Fresh
  BY DEF QueueInit, NothingPrepared
<1>2. chart \in Charts /\ i = 1 /\ order = <<>> /\ sched = Fresh
  BY <1>1 DEF Init
<1>3. Len(chart) \in Nat /\ Len(order) = 0
  BY <1>2, ChartFacts
<1>4. SkillsUpTo(i - 1) = {}
  BY <1>2 DEF SkillsUpTo
<1>5. Counted
  BY <1>2, <1>3, <1>4, FS_EmptySet DEF Counted
<1> QED BY <1>1, <1>2, <1>5 DEF Walks, Prepared

LEMMA WalksKept ==
    ASSUME IInv, Walks, [QueueNext]_queueVars
    PROVE  Walks'
<1>1. Counted'
  BY CountedKept, QueueStep DEF Walks
<1>2. CASE BuildMachine
  <2>1. /\ machine = <<>> /\ machine' = Machine /\ order' = order /\ state' = state
        /\ sched' = sched /\ chart' = chart /\ nodeOf' = nodeOf /\ gains' = gains
        /\ bounds' = bounds /\ answer' = answer
    BY <1>2 DEF BuildMachine, vars, timeline
  <2>2. gains = <<>> /\ bounds = <<>> /\ answer = <<>> /\ order = <<>>
        /\ state = Fresh /\ sched = Fresh
    BY <2>1 DEF Walks, Prepared
  <2>3. Prepared'
    BY <2>1, <2>2 DEF Walks, Prepared, SkillNodeIndices, Activations, Size
  <2>4. RightTable(machine)'
    <3>1. RightTable(Machine)
      BY MachineRight
    <3> DEFINE m == Machine
    <3>2. RightTable(m)
      BY <3>1
    <3>3. machine' = m
      BY <2>1
    <3> HIDE DEF m
    <3> QED BY <2>1, <3>2, <3>3 DEF RightTable, RightAt, ScheduledAt, SameRow, Activations, Size
  <2>5. InTable'
    <3>1. Len(order') + 1 = 1
      BY <2>1, <2>2
    <3>2. Fresh \in DOMAIN machine'[1]
      BY <2>4 DEF RightTable
    <3>3. SameRow(machine'[1][Fresh], machine'[1][Fresh])
      BY DEF SameRow
    <3> QED BY <2>1, <2>2, <3>1, <3>2, <3>3 DEF InTable
  <2> QED BY <1>1, <2>3, <2>4, <2>5 DEF Walks
<1>3. ASSUME BuildGains \/ BuildBounds \/ FindAnswer \/ UNCHANGED queueVars
      PROVE  Walks'
  <2>1. /\ machine' = machine /\ order' = order /\ state' = state
        /\ sched' = sched /\ chart' = chart /\ nodeOf' = nodeOf
    BY <1>3 DEF BuildGains, BuildBounds, FindAnswer, queueVars, prepared, vars, timeline
  <2>2. Prepared'
    <3>1. (nodeOf = SkillNodeIndices)'
      BY <2>1, TableKept DEF Walks, Prepared
    <3>2. /\ gains' # <<>> => machine' # <<>>
          /\ bounds' # <<>> => gains' # <<>>
          /\ answer' # <<>> => bounds' # <<>>
          /\ answer' = <<>> => answer = <<>>
      BY <1>3 DEF BuildGains, BuildBounds, FindAnswer, queueVars, prepared, Walks, Prepared
    <3> QED BY <2>1, <3>1, <3>2 DEF Walks, Prepared
  <2>3. machine' # <<>> => RightTable(machine)' /\ InTable'
    BY <2>1, TableKept DEF Walks, InTable, SameRow, Size
  <2> QED BY <1>1, <2>2, <2>3 DEF Walks
<1>4. CASE QueuePlay
  <2>1. /\ machine' = machine /\ order' = order /\ state' = state
        /\ sched' = sched /\ chart' = chart /\ nodeOf' = nodeOf
        /\ answer # <<>> /\ answer' = answer /\ gains' = gains /\ bounds' = bounds
    BY <1>4 DEF QueuePlay, Play, prepared
  <2>2. Prepared'
    BY <2>1, TableKept DEF Walks, Prepared
  <2>3. machine' # <<>> => RightTable(machine)' /\ InTable'
    BY <2>1, TableKept DEF Walks, InTable, SameRow, Size
  <2> QED BY <1>1, <2>2, <2>3 DEF Walks
<1>5. ASSUME NEW card \in Cards, QueueTrigger(card)
      PROVE  Walks'
  <2>1. /\ machine' = machine /\ chart' = chart /\ nodeOf' = nodeOf
        /\ answer # <<>> /\ answer' = answer /\ gains' = gains /\ bounds' = bounds
    BY <1>5 DEF QueueTrigger, Trigger, prepared
  <2>2. Prepared'
    BY <2>1, TableKept DEF Walks, Prepared
  <2>3. machine' # <<>> => RightTable(machine)'
    BY <2>1, TableKept DEF Walks
  <2>4. InTable'
    BY <1>5, TableStep
  <2> QED BY <1>1, <2>2, <2>3, <2>4 DEF Walks
<1> QED BY <1>2, <1>3, <1>4, <1>5 DEF QueueNext, Prepare

(* The table of states is exact (QueueStateMachine::new): whatever cards   *)
(* are triggered, the window that the table gives an activation is the     *)
(* scheduler's, though states were merged on the way.  For every chart,    *)
(* team and set of durations.                                              *)
THEOREM TableExact == QueueSpec => MachineExact
<1>1. QueueInit => IInv /\ Walks
  BY InitIInv, WalksStart DEF QueueInit
<1>2. IInv /\ Walks /\ [QueueNext]_queueVars => IInv' /\ Walks'
  <2> SUFFICES ASSUME IInv, Walks, [QueueNext]_queueVars PROVE IInv' /\ Walks'
    OBVIOUS
  <2>1. [Next]_vars
    BY QueueStep
  <2> QED BY <2>1, InvKept, WalksKept
<1>3. IInv /\ Walks /\ [QueueNext]_queueVars
        => [order' # order =>
               LET a == Len(order')
               IN  machine[a][state][team[order'[a]]].window = windows'[a]]_queueVars
  <2> SUFFICES ASSUME IInv, Walks, QueueNext, order' # order
               PROVE  LET a == Len(order')
                      IN  machine[a][state][team[order'[a]]].window = windows'[a]
    OBVIOUS
  <2>1. PICK card \in Cards : QueueTrigger(card)
    BY DEF QueueNext, Prepare, BuildMachine, BuildGains, BuildBounds, FindAnswer, QueuePlay, Play,
           vars, timeline
  <2>2. Trigger(card)
    BY <2>1 DEF QueueTrigger
  <2>3. Len(order') = Len(order) + 1 /\ order'[Len(order) + 1] = card
    BY <2>2, Appended DEF IInv
  <2>4. machine[Len(order) + 1][state][team[card]].window = windows'[Len(order) + 1]
    BY <2>1, TableStep
  <2> QED BY <2>3, <2>4
<1> QED BY <1>1, <1>2, <1>3, PTL DEF QueueSpec, MachineExact

(* ---- Sums over finite sets, as MapThenSumSet takes them ----------------- *)

(* The element that the sum takes next, and what it adds.                  *)
Pick(s) == CHOOSE x \in s : TRUE

SumStep(g, s, it) == IF s = {} THEN 0 ELSE g[Pick(s)] + it[s \ {Pick(s)}]

IsSum(it, g, S) == it = [s \in SUBSET S |-> SumStep(g, s, it)]

Total(g, S) == (CHOOSE it : IsSum(it, g, S))[S]

(* Among the subsets of a finite set with a property there is one of which *)
(* no smaller subset has it.                                               *)
LEMMA SmallestSubset ==
    ASSUME NEW S, IsFiniteSet(S), NEW D, D \subseteq SUBSET S, D # {}
    PROVE  \E s \in D : \A t \in D : ~(t \subseteq s /\ t # s)
<1>1. IsWellFoundedOn(StrictSubsetOrdering(S), SUBSET S)
  BY FS_StrictSubsetOrderingWellFounded, FS_FiniteSubsetsOfFinite
<1>2. PICK s \in D : \A t \in D : ~(<<t, s>> \in StrictSubsetOrdering(S))
  BY <1>1, WFMin
<1>3. \A t \in D : t \subseteq s /\ t # s => <<t, s>> \in StrictSubsetOrdering(S)
  BY DEF StrictSubsetOrdering
<1>4. \A t \in D : ~(t \subseteq s /\ t # s)
  BY <1>2, <1>3
<1> QED BY <1>4

(* Two functions that follow the steps of the sum are the same on the      *)
(* subsets that they reach.                                                *)
Follows(f, g, D) == \A s \in D : f[s] = SumStep(g, s, f)

(* The subsets with what is left of each after a step.                     *)
Downward(D) == \A s \in D : s # {} => s \ {Pick(s)} \in D

LEMMA StepsAgree ==
    ASSUME NEW S, IsFiniteSet(S), NEW D \in SUBSET (SUBSET S), Downward(D),
           NEW g, NEW f, NEW h, Follows(f, g, D), Follows(h, g, D)
    PROVE  \A s \in D : f[s] = h[s]
<1> USE DEF Follows, Downward
<1> DEFINE Bad == {s \in D : f[s] # h[s]}
<1> SUFFICES ASSUME Bad # {} PROVE FALSE
  OBVIOUS
<1>1. PICK s \in Bad : \A t \in Bad : ~(t \subseteq s /\ t # s)
  <2>1. Bad \subseteq SUBSET S
    OBVIOUS
  <2> HIDE DEF Bad
  <2> QED BY <2>1, SmallestSubset
<1>2. CASE s = {}
  BY <1>2 DEF SumStep
<1>3. CASE s # {}
  <2>1. Pick(s) \in s
    BY <1>3 DEF Pick
  <2>2. f[s \ {Pick(s)}] = h[s \ {Pick(s)}]
    BY <1>1, <1>3, <2>1
  <2> QED BY <1>3, <2>2 DEF SumStep
<1> QED BY <1>2, <1>3

(* The sum of a finite set is that of its step: what makes the recursion   *)
(* of MapThenSumSet a fact that can be used.                               *)
LEMMA TotalSteps ==
    ASSUME NEW S, IsFiniteSet(S), NEW g
    PROVE  Total(g, S) = SumStep(g, S, [s \in SUBSET S |-> Total(g, s)])
<1> DEFINE all == [s \in SUBSET S |-> Total(g, s)]
           Bad == {s \in SUBSET S : Total(g, s) # SumStep(g, s, all)}
<1> SUFFICES ASSUME Bad # {} PROVE FALSE
  OBVIOUS
<1>1. PICK u \in Bad : \A t \in Bad : ~(t \subseteq u /\ t # u)
  <2>1. Bad \subseteq SUBSET S
    OBVIOUS
  <2> HIDE DEF Bad
  <2> QED BY <2>1, SmallestSubset
<1>2. u \subseteq S /\ IsFiniteSet(u)
  BY FS_Subset
<1>3. \A s \in SUBSET u : s # u => all[s] = SumStep(g, s, all)
  BY <1>1, <1>2
<1> HIDE DEF all
<1>4. \A s \in SUBSET u : s # {} => Pick(s) \in s /\ s \ {Pick(s)} \in SUBSET u /\ s \ {Pick(s)} # u
  BY DEF Pick
<1>5. \E it : IsSum(it, g, u)
  <2> DEFINE it == [s \in SUBSET u |-> IF s = u THEN SumStep(g, u, all) ELSE all[s]]
  <2>1. ASSUME NEW s \in SUBSET u PROVE it[s] = SumStep(g, s, it)
    <3>1. SumStep(g, s, it) = SumStep(g, s, all)
      BY <1>4 DEF SumStep
    <3> QED BY <3>1, <1>3
  <2>2. it = [s \in SUBSET u |-> SumStep(g, s, it)]
    BY <2>1
  <2> HIDE DEF it
  <2> QED BY <2>2 DEF IsSum
<1>6. PICK c : IsSum(c, g, u) /\ Total(g, u) = c[u]
  BY <1>5 DEF Total
<1>7. \A s \in SUBSET u : c[s] = SumStep(g, s, c)
  <2>1. c = [s \in SUBSET u |-> SumStep(g, s, c)]
    BY <1>6 DEF IsSum
  <2> QED BY <2>1
<1>8. \A s \in (SUBSET u) \ {u} : c[s] = all[s]
  <2> DEFINE D == (SUBSET u) \ {u}
  <2>1. D \in SUBSET (SUBSET u) /\ Downward(D)
    BY <1>4 DEF Downward
  <2>2. Follows(c, g, D) /\ Follows(all, g, D)
    BY <1>3, <1>7 DEF Follows
  <2> HIDE DEF D
  <2>3. \A s \in D : c[s] = all[s]
    BY <1>2, <2>1, <2>2, StepsAgree
  <2> QED BY <2>3 DEF D
<1>9. c[u] = SumStep(g, u, all)
  <2>1. c[u] = SumStep(g, u, c)
    BY <1>7
  <2>2. u # {} => c[u \ {Pick(u)}] = all[u \ {Pick(u)}]
    BY <1>4, <1>8
  <2> QED BY <2>1, <2>2 DEF SumStep
<1> QED BY <1>1, <1>6, <1>9

LEMMA PickIn == ASSUME NEW S PROVE \A s \in SUBSET S : s # {} => Pick(s) \in S
BY DEF Pick

LEMMA TotalEmpty == ASSUME NEW g PROVE Total(g, {}) = 0
<1>1. IsFiniteSet({})
  BY FS_EmptySet
<1> QED BY <1>1, TotalSteps DEF SumStep

LEMMA TotalPick ==
    ASSUME NEW S, IsFiniteSet(S), S # {}, NEW g
    PROVE  Pick(S) \in S /\ Total(g, S) = g[Pick(S)] + Total(g, S \ {Pick(S)})
BY TotalSteps DEF SumStep, Pick

LEMMA TotalInt ==
    ASSUME NEW S, IsFiniteSet(S), NEW g, \A x \in S : g[x] \in Int
    PROVE  Total(g, S) \in Int
<1> DEFINE Bad == {s \in SUBSET S : Total(g, s) \notin Int}
<1> SUFFICES ASSUME Bad # {} PROVE FALSE
  OBVIOUS
<1>1. PICK s \in Bad : \A t \in Bad : ~(t \subseteq s /\ t # s)
  <2>1. Bad \subseteq SUBSET S
    OBVIOUS
  <2> HIDE DEF Bad
  <2> QED BY <2>1, SmallestSubset
<1>2. s \subseteq S /\ IsFiniteSet(s)
  BY FS_Subset
<1>3. s # {}
  BY TotalEmpty
<1>4. Pick(s) \in s /\ Total(g, s) = g[Pick(s)] + Total(g, s \ {Pick(s)})
  BY <1>2, <1>3, TotalPick
<1>5. Total(g, s \ {Pick(s)}) \in Int
  BY <1>1, <1>2, <1>4
<1> QED BY <1>1, <1>2, <1>4, <1>5

(* The sum takes the elements in any order. *)
LEMMA TotalRemove ==
    ASSUME NEW S, IsFiniteSet(S), NEW x \in S, NEW g, \A y \in S : g[y] \in Int
    PROVE  Total(g, S) = g[x] + Total(g, S \ {x})
<1> DEFINE Bad == {s \in SUBSET S : \E y \in s : Total(g, s) # g[y] + Total(g, s \ {y})}
<1> SUFFICES ASSUME Bad # {} PROVE FALSE
  OBVIOUS
<1>1. PICK s \in Bad : \A t \in Bad : ~(t \subseteq s /\ t # s)
  <2>1. Bad \subseteq SUBSET S
    OBVIOUS
  <2> HIDE DEF Bad
  <2> QED BY <2>1, SmallestSubset
<1>2. s \subseteq S /\ IsFiniteSet(s)
  BY FS_Subset
<1>3. PICK y \in s : Total(g, s) # g[y] + Total(g, s \ {y})
  BY <1>1
<1>4. PICK p : p = Pick(s)
  OBVIOUS
<1>5. p \in s /\ Total(g, s) = g[p] + Total(g, s \ {p}) /\ p # y
  BY <1>2, <1>3, <1>4, TotalPick
<1>6. Total(g, s \ {p}) = g[y] + Total(g, (s \ {p}) \ {y})
  BY <1>1, <1>2, <1>5
<1>7. Total(g, s \ {y}) = g[p] + Total(g, (s \ {y}) \ {p})
  BY <1>1, <1>2, <1>5
<1>8. (s \ {y}) \ {p} = (s \ {p}) \ {y}
  OBVIOUS
<1>9. Total(g, (s \ {p}) \ {y}) \in Int
  BY <1>2, FS_Subset, TotalInt
<1>10. PICK rest \in Int, a \in Int, b \in Int :
           rest = Total(g, (s \ {p}) \ {y}) /\ a = g[y] /\ b = g[p]
  BY <1>2, <1>5, <1>9
<1>11. Total(g, s) = b + (a + rest) /\ g[y] + Total(g, s \ {y}) = a + (b + rest)
  BY <1>5, <1>6, <1>7, <1>8, <1>10
<1>12. b + (a + rest) = a + (b + rest)
  BY ONLY rest \in Int, a \in Int, b \in Int
<1> QED BY <1>3, <1>11, <1>12

(* A larger set has a larger sum.                                          *)
LEMMA TotalGrows ==
    ASSUME NEW T, IsFiniteSet(T), NEW S \in SUBSET T, NEW g, \A x \in T : g[x] \in Nat
    PROVE  /\ Total(g, S) \in Int /\ Total(g, T) \in Int
           /\ Total(g, S) <= Total(g, T)
<1>1. \A s \in SUBSET T : IsFiniteSet(s) /\ Total(g, s) \in Int
  BY FS_Subset, TotalInt
<1> DEFINE Bad == {t \in SUBSET T : S \subseteq t /\ ~(Total(g, S) <= Total(g, t))}
<1> SUFFICES ASSUME Bad # {} PROVE FALSE
  BY <1>1
<1>2. PICK t \in Bad : \A u \in Bad : ~(u \subseteq t /\ u # t)
  <2>1. Bad \subseteq SUBSET T
    OBVIOUS
  <2> HIDE DEF Bad
  <2> QED BY <2>1, SmallestSubset
<1>3. t \in SUBSET T /\ S \subseteq t /\ ~(Total(g, S) <= Total(g, t))
  OBVIOUS
<1>4. PICK x \in t : x \notin S
  BY <1>1, <1>3
<1>5. Total(g, t) = g[x] + Total(g, t \ {x})
  BY <1>1, <1>3, TotalRemove
<1>6. t \ {x} \in SUBSET T /\ S \subseteq t \ {x} /\ t \ {x} \subseteq t /\ t \ {x} # t
  BY <1>3, <1>4
<1>7. Total(g, S) <= Total(g, t \ {x})
  BY <1>2, <1>6
<1> QED BY <1>1, <1>3, <1>5, <1>6, <1>7

LEMMA MaxOf ==
    ASSUME NEW S, IsFiniteSet(S), S # {}, S \subseteq Int
    PROVE  Max(S) \in S /\ \A y \in S : Max(S) >= y
<1> DEFINE HasMax(s) == \E x \in s : \A y \in s : x >= y
           Bad == {s \in SUBSET S : s # {} /\ ~HasMax(s)}
<1>1. Bad = {}
  <2> SUFFICES ASSUME Bad # {} PROVE FALSE
    OBVIOUS
  <2>1. PICK s \in Bad : \A t \in Bad : ~(t \subseteq s /\ t # s)
    <3>1. Bad \subseteq SUBSET S /\ Bad # {}
      OBVIOUS
    <3> HIDE DEF Bad
    <3>2. IsFiniteSet(S)
      OBVIOUS
    <3> QED BY ONLY <3>1, <3>2, SmallestSubset
  <2>2. s \in SUBSET S /\ s # {} /\ ~HasMax(s)
    OBVIOUS
  <2>3. PICK x \in s : TRUE
    BY <2>2
  <2>4. PICK t : t = s \ {x}
    OBVIOUS
  <2>5. t \in SUBSET S /\ t \subseteq s /\ t # s /\ \A y \in s : y = x \/ y \in t
    BY <2>2, <2>3, <2>4
  <2>6. t \notin Bad
    <3> HIDE DEF Bad
    <3> QED BY <2>1, <2>5
  <2>7. t = {} \/ \E y \in t : \A z \in t : y >= z
    BY <2>5, <2>6
  <2>8. x \in Int /\ \A y \in t : y \in Int /\ y \in s
    BY <2>2, <2>3, <2>5
  <2>9. CASE t = {}
    <3>1. \A y \in s : x >= y
      BY <2>5, <2>8, <2>9
    <3> QED BY <2>2, <2>3, <3>1
  <2>10. ASSUME NEW y \in t, \A z \in t : y >= z
         PROVE  FALSE
    <3>1. x >= y => \A z \in s : x >= z
      BY <2>5, <2>8, <2>10
    <3>2. y >= x => \A z \in s : y >= z
      BY <2>5, <2>8, <2>10
    <3>3. x >= y \/ y >= x
      BY <2>8, <2>10
    <3>4. y \in s
      BY <2>8, <2>10
    <3> QED BY <2>2, <2>3, <3>1, <3>2, <3>3, <3>4
  <2> QED BY <2>7, <2>9, <2>10
<1>2. S \in SUBSET S /\ S \notin Bad
  BY <1>1
<1>3. \E x \in S : \A y \in S : x >= y
  BY <1>2
<1> QED BY <1>3 DEF Max

LEMMA FiniteImage ==
    ASSUME NEW S, IsFiniteSet(S), NEW f
    PROVE  IsFiniteSet({f[x] : x \in S})
<1> DEFINE T == {f[x] : x \in S}
           g == [x \in S |-> f[x]]
<1>1. g \in Surjection(S, T)
  BY DEF Surjection
<1> HIDE DEF g, T
<1>2. IsFiniteSet(T)
  BY <1>1, FS_Surjection
<1> QED BY <1>2 DEF T

(* The largest value of f over a finite set, or nothing.                   *)
LEMMA LargestOf ==
    ASSUME NEW S, IsFiniteSet(S), NEW f, \A x \in S : f[x] \in Nat
    PROVE  LET most == Max({0} \cup {f[x] : x \in S})
           IN  most \in Nat /\ \A x \in S : f[x] <= most
<1> DEFINE V == {0} \cup {f[x] : x \in S}
<1>1. V \subseteq Nat /\ 0 \in V /\ \A x \in S : f[x] \in V
  OBVIOUS
<1>2. IsFiniteSet(V)
  <2> DEFINE W == {f[x] : x \in S}
             Z == {0}
  <2>1. IsFiniteSet(W)
    BY FiniteImage
  <2>2. IsFiniteSet(Z)
    BY FS_Singleton
  <2>3. V = Z \cup W
    OBVIOUS
  <2> HIDE DEF V, W, Z
  <2>4. IsFiniteSet(Z \cup W)
    BY ONLY <2>1, <2>2, FS_Union
  <2> QED BY <2>3, <2>4
<1> HIDE DEF V
<1>5. V # {} /\ V \subseteq Int
  BY <1>1
<1>3. Max(V) \in V /\ \A y \in V : Max(V) >= y
  BY ONLY <1>2, <1>5, MaxOf
<1>4. Max(V) \in Nat /\ \A x \in S : f[x] <= Max(V)
  BY <1>1, <1>3
<1> QED BY <1>4 DEF V

(* ---- What a skill adds, without rounding -------------------------------- *)

MetaTerm(c, s, card, from) ==
    [n \in Int |-> ComboMod(s.combo + n, s.medley)
                   * (IF c[n].frame \in s.fever THEN 2 ELSE 1)
                   * (Multiplier(card, n - from) - Once)]

MetaIn(c, s, card, w) == Total(MetaTerm(c, s, card, w.from), Covered(w))

LEMMA MetaIs ==
    ASSUME NEW card, NEW w
    PROVE  Meta(card, w) = MetaIn(chart, setting, card, w)
<1> DEFINE S == Covered(w)
           g == MetaTerm(chart, setting, card, w.from)
<1>1. \A n \in S : g[n] = ComboAt(n) * FeverAt(n) * (Multiplier(card, n - w.from) - Once)
  BY DEF MetaTerm, ComboAt, FeverAt, Covered
<1> HIDE DEF S, g
<1>2. \A it : IsSum(it, g, S) <=>
          it = [s \in SUBSET S |->
                  IF s = {} THEN 0
                  ELSE ComboAt(Pick(s)) * FeverAt(Pick(s))
                         * (Multiplier(card, Pick(s) - w.from) - Once) + it[s \ {Pick(s)}]]
  BY <1>1, PickIn DEF IsSum, SumStep
<1>3. MapThenSumSet(LAMBDA n : ComboAt(n) * FeverAt(n) * (Multiplier(card, n - w.from) - Once), S)
        = Total(g, S)
  BY ONLY <1>2 DEF Total, MapThenSumSet, MapThenFoldSet, Pick
<1> QED BY <1>3 DEF Meta, MetaIn, S, g

(* The same after a step that keeps the song.                              *)
LEMMA MetaStays ==
    ASSUME chart' = chart, setting' = setting, NEW card, NEW w
    PROVE  Meta(card, w)' = MetaIn(chart, setting, card, w)
<1> DEFINE S == Covered(w)
           g == MetaTerm(chart, setting, card, w.from)
<1>1. \A n \in S : g[n] = ComboAt(n)' * FeverAt(n)' * (Multiplier(card, n - w.from) - Once)
  BY DEF MetaTerm, ComboAt, FeverAt, Covered
<1> HIDE DEF S, g
<1>2. \A it : IsSum(it, g, S) <=>
          it = [s \in SUBSET S |->
                  IF s = {} THEN 0
                  ELSE ComboAt(Pick(s))' * FeverAt(Pick(s))'
                         * (Multiplier(card, Pick(s) - w.from) - Once) + it[s \ {Pick(s)}]]
  BY <1>1, PickIn DEF IsSum, SumStep
<1>3. Meta(card, w)' = Total(g, S)
  BY ONLY <1>2 DEF Meta, Total, MapThenSumSet, MapThenFoldSet, Pick, S
<1> QED BY <1>3 DEF MetaIn, S, g

LEMMA ComboNat == ASSUME NEW n \in Nat, NEW b PROVE ComboMod(n, b) \in Nat
<1>1. CeilDiv(n, 50) \in Nat /\ CeilDiv(n, 100) \in Nat
  BY DEF CeilDiv
<1> QED BY <1>1 DEF ComboMod

LEMMA RiseNat ==
    ASSUME NEW card \in Cards, NEW k \in Nat
    PROVE  Multiplier(card, k) - Once \in Nat
<1>1. Skills[card].up \in Nat
  BY ScoresAssumption DEF Skill
<1>2. ASSUME Skills[card].up <= RateUpCap
      PROVE  Min({k, RateUpCap - Skills[card].up}) \in Nat
  <2> DEFINE m == RateUpCap - Skills[card].up
  <2>1. m \in Nat
    BY <1>1, <1>2 DEF RateUpCap
  <2> HIDE DEF m
  <2>2. \E x \in {k, m} : \A y \in {k, m} : x <= y
    BY <2>1
  <2>3. Min({k, m}) \in {k, m}
    BY <2>2 DEF Min
  <2> QED BY <2>1, <2>3 DEF m
<1> DEFINE extra == Min({k, RateUpCap - Skills[card].up})
<1>3. Skills[card].up <= RateUpCap => extra \in Nat
  BY <1>2
<1> HIDE DEF extra
<1>4. Multiplier(card, k) = Once + Skills[card].up
          + (IF Skills[card].rateup /\ Skills[card].up <= RateUpCap THEN extra ELSE 0)
  BY DEF Multiplier, extra
<1> QED BY <1>1, <1>3, <1>4 DEF Once

LEMMA ProductNat == ASSUME NEW a \in Nat, NEW b \in Nat PROVE a * b \in Nat
  OBVIOUS

LEMMA TermNat ==
    ASSUME NEW c, NEW s \in Setting, NEW card \in Cards, NEW w \in Coverage,
           NEW n \in Covered(w)
    PROVE  MetaTerm(c, s, card, w.from)[n] \in Nat
<1>1. n \in Nat /\ n - w.from \in Nat /\ s.combo \in Nat
  BY DEF Coverage, Covered, Setting
<1>2. s.combo + n \in Nat
  BY <1>1
<1> DEFINE combo == ComboMod(s.combo + n, s.medley)
           fever == IF c[n].frame \in s.fever THEN 2 ELSE 1
           more == Multiplier(card, n - w.from) - Once
<1>3. combo \in Nat /\ fever \in Nat /\ more \in Nat
  BY <1>1, <1>2, ComboNat, RiseNat
<1>4. MetaTerm(c, s, card, w.from)[n] = combo * fever * more
  BY <1>1 DEF MetaTerm
<1> HIDE DEF combo, fever, more
<1>5. combo * fever \in Nat
  BY <1>3, ProductNat
<1>6. combo * fever * more \in Nat
  BY <1>3, <1>5, ProductNat
<1> QED BY <1>4, <1>6

LEMMA CoveredFinite == ASSUME NEW w \in Coverage PROVE IsFiniteSet(Covered(w))
<1>1. w.from + 1 \in Int /\ w.to \in Int
  BY DEF Coverage
<1> QED BY <1>1, FS_Interval DEF Covered

LEMMA MetaNat ==
    ASSUME NEW c, NEW s \in Setting, NEW card \in Cards, NEW w \in Coverage
    PROVE  MetaIn(c, s, card, w) \in Nat
<1> DEFINE g == MetaTerm(c, s, card, w.from)
           S == Covered(w)
<1>1. IsFiniteSet(S) /\ \A n \in S : g[n] \in Nat
  BY CoveredFinite, TermNat
<1>2. {} \in SUBSET S
  OBVIOUS
<1> HIDE DEF g, S
<1>3. Total(g, S) \in Int /\ Total(g, {}) <= Total(g, S) /\ Total(g, {}) = 0
  BY <1>1, <1>2, TotalGrows, TotalEmpty
<1> QED BY <1>3 DEF MetaIn, g, S

(* A longer window from the same start adds more.                          *)
LEMMA MetaGrows ==
    ASSUME NEW c, NEW s \in Setting, NEW card \in Cards, NEW v \in Coverage, NEW w \in Coverage,
           v.from = w.from, v.to <= w.to
    PROVE  MetaIn(c, s, card, v) <= MetaIn(c, s, card, w)
<1> DEFINE g == MetaTerm(c, s, card, w.from)
           S == Covered(v)
           T == Covered(w)
<1>1. IsFiniteSet(T) /\ \A n \in T : g[n] \in Nat
  BY CoveredFinite, TermNat
<1>2. S \in SUBSET T
  BY DEF Covered, Coverage
<1>3. MetaIn(c, s, card, v) = Total(g, S) /\ MetaIn(c, s, card, w) = Total(g, T)
  BY DEF MetaIn
<1> HIDE DEF g, S, T
<1>4. Total(g, S) <= Total(g, T)
  BY <1>1, <1>2, TotalGrows
<1> QED BY <1>3, <1>4

(* ---- The triggers of a chart -------------------------------------------- *)

(* Every activation has its judgement.                                     *)
LEMMA NodesExist ==
    ASSUME chart \in Charts, nodeOf = SkillNodeIndices, NEW a \in Activations
    PROVE  /\ nodeOf[a] \in DOMAIN chart /\ chart[nodeOf[a]].skill
           /\ Cardinality(SkillsUpTo(nodeOf[a])) = a
<1>1. DOMAIN chart = 1 .. Len(chart) /\ Len(chart) \in Nat /\ a \in Nat \ {0} /\ a <= Size + 1
  BY ChartFacts, SizeFacts
<1> DEFINE Reached == {n \in Nat : n <= Len(chart) /\ a <= Cardinality(SkillsUpTo(n))}
<1>2. Len(chart) \in Reached
  <2>1. SkillsUpTo(Len(chart)) = {n \in DOMAIN chart : chart[n].skill}
    BY <1>1 DEF SkillsUpTo
  <2>2. Cardinality(SkillsUpTo(Len(chart))) = Size + 1
    BY <2>1, SkillsAssumption
  <2> QED BY <1>1, <2>2
<1>3. PICK n \in Reached : \A m \in Reached : n <= m
  <2>1. Reached \subseteq Nat /\ Reached # {}
    BY <1>2
  <2> HIDE DEF Reached
  <2> QED BY ONLY <2>1, NatLeast
<1>4. n \in Nat /\ n <= Len(chart) /\ a <= Cardinality(SkillsUpTo(n))
  OBVIOUS
<1>5. n # 0
  <2> SUFFICES ASSUME n = 0 PROVE FALSE
    OBVIOUS
  <2>1. SkillsUpTo(0) = {}
    BY DEF SkillsUpTo
  <2>2. Cardinality(SkillsUpTo(n)) = 0
    BY <2>1, FS_EmptySet
  <2> QED BY <1>1, <1>4, <2>2
<1>6. ~(a <= Cardinality(SkillsUpTo(n - 1))) /\ n - 1 \in Nat
  <2>1. n - 1 \in Nat /\ n - 1 <= Len(chart) /\ ~(n <= n - 1)
    BY <1>1, <1>4, <1>5
  <2>2. n - 1 \notin Reached
    <3> HIDE DEF Reached
    <3> QED BY <1>3, <2>1
  <2> QED BY <2>1, <2>2
<1>7. Cardinality(SkillsUpTo(n - 1)) \in Nat
  BY <1>6, SkillsFinite
<1>8. Cardinality(SkillsUpTo(n)) = Cardinality(SkillsUpTo(n - 1)) + IF chart[n].skill THEN 1 ELSE 0
  BY <1>4, <1>5, SkillsStep
<1>9. n \in DOMAIN chart /\ chart[n].skill /\ Cardinality(SkillsUpTo(n)) = a
  BY <1>1, <1>4, <1>5, <1>6, <1>7, <1>8
<1>10. nodeOf[a] = CHOOSE m \in DOMAIN chart : chart[m].skill /\ Cardinality(SkillsUpTo(m)) = a
  BY DEF SkillNodeIndices, SkillsUpTo
<1> QED BY <1>9, <1>10

LEMMA NodeFrame ==
    ASSUME chart \in Charts, nodeOf = SkillNodeIndices, NEW a \in Activations
    PROVE  nodeOf[a] \in DOMAIN chart /\ nodeOf[a] \in Nat /\ chart[nodeOf[a]].frame \in Nat
<1>1. nodeOf[a] \in DOMAIN chart
  BY NodesExist
<1> QED BY <1>1, ChartFacts

(* ---- The schedulers of skills that are all of one duration -------------- *)

LatestStep(f, a, c, at, d) ==
    IF a = 0 THEN Fresh ELSE After(Schedule(f[a - 1], c[at[a]].frame, d))

LatestTo(f, n, c, at, d) == f = [a \in 0 .. n |-> LatestStep(f, a, c, at, d)]

LatestOf(c, at, d) == CHOOSE f : LatestTo(f, Size + 1, c, at, d)

LEMMA LatestExists ==
    ASSUME NEW n \in Nat, NEW c, NEW at, NEW d
    PROVE  \E f : LatestTo(f, n, c, at, d)
<1> DEFINE Bad == {m \in Nat : ~\E f : LatestTo(f, m, c, at, d)}
<1> SUFFICES ASSUME Bad # {} PROVE FALSE
  OBVIOUS
<1>1. PICK m \in Bad : \A k \in Bad : m <= k
  <2>1. Bad \subseteq Nat
    OBVIOUS
  <2> HIDE DEF Bad
  <2> QED BY <2>1, NatLeast
<1>2. m \in Nat /\ ~\E f : LatestTo(f, m, c, at, d)
  OBVIOUS
<1>4. \E g : m # 0 => LatestTo(g, m - 1, c, at, d)
  <2> SUFFICES ASSUME m # 0 PROVE \E g : LatestTo(g, m - 1, c, at, d)
    OBVIOUS
  <2>1. m - 1 \in Nat /\ ~(m <= m - 1)
    BY <1>2
  <2>2. m - 1 \notin Bad
    BY <1>1, <2>1
  <2> QED BY <2>1, <2>2
<1>5. PICK g : m # 0 => LatestTo(g, m - 1, c, at, d)
  BY <1>4
<1> DEFINE f == [a \in 0 .. m |-> IF a = m THEN LatestStep(g, m, c, at, d) ELSE g[a]]
<1>6. ASSUME NEW a \in 0 .. m
      PROVE  f[a] = LatestStep(f, a, c, at, d)
  <2>1. a # 0 => f[a - 1] = g[a - 1]
    BY <1>2, <1>6
  <2>2. LatestStep(f, a, c, at, d) = LatestStep(g, a, c, at, d)
    <3> HIDE DEF f
    <3> QED BY <2>1 DEF LatestStep
  <2>3. a # m => g[a] = LatestStep(g, a, c, at, d)
    BY <1>2, <1>5, <1>6 DEF LatestTo
  <2> QED BY <2>2, <2>3
<1>7. f = [a \in 0 .. m |-> LatestStep(f, a, c, at, d)]
  <2>1. f = [a \in 0 .. m |-> f[a]]
    OBVIOUS
  <2> HIDE DEF f
  <2> QED BY <1>6, <2>1
<1>8. LatestTo(f, m, c, at, d)
  <2> HIDE DEF f
  <2> QED BY <1>7 DEF LatestTo
<1> QED BY <1>2, <1>8

LEMMA LatestFacts ==
    ASSUME NEW c, NEW at, NEW d
    PROVE  /\ LatestOf(c, at, d)[0] = Fresh
           /\ \A a \in Activations :
                 LatestOf(c, at, d)[a]
                   = After(Schedule(LatestOf(c, at, d)[a - 1], c[at[a]].frame, d))
<1>1. Size + 1 \in Nat
  BY SizeFacts
<1>2. LatestTo(LatestOf(c, at, d), Size + 1, c, at, d)
  BY <1>1, LatestExists DEF LatestOf
<1> DEFINE f == LatestOf(c, at, d)
<1> HIDE DEF f
<1>3. \A a \in 0 .. Size + 1 : f[a] = LatestStep(f, a, c, at, d)
  BY <1>2 DEF LatestTo, f
<1>4. 0 \in 0 .. Size + 1 /\ \A a \in Activations : a \in 0 .. Size + 1 /\ a # 0
  BY SizeFacts
<1>5. f[0] = Fresh
  BY <1>3, <1>4 DEF LatestStep
<1>6. \A a \in Activations : f[a] = After(Schedule(f[a - 1], c[at[a]].frame, d))
  BY <1>3, <1>4 DEF LatestStep
<1> QED BY <1>5, <1>6 DEF f

LEMMA SchedulersAre == ASSUME NEW d PROVE Schedulers(d) = LatestOf(chart, nodeOf, d)
  BY DEF Schedulers, LatestOf, LatestTo, LatestStep

LEMMA SchedulersStay ==
    ASSUME chart' = chart, nodeOf' = nodeOf, NEW d
    PROVE  Schedulers(d)' = LatestOf(chart, nodeOf, d)
  BY DEF Schedulers, LatestOf, LatestTo, LatestStep

(* A scheduler that is later than another stays later if its skill is no   *)
(* shorter.                                                                *)
Regular(s) == s \in Scheduler /\ (s = Fresh \/ s.next = s.until + 2)

Later(s, r) == s.until <= r.until /\ s.next <= r.next

LEMMA LaterKept ==
    ASSUME NEW s, NEW r, Regular(s), Regular(r), Later(s, r),
           NEW t \in Nat, NEW d \in Nat, NEW e \in Nat, d <= e
    PROVE  /\ Regular(After(Schedule(r, t, e)))
           /\ Later(After(Schedule(s, t, d)), After(Schedule(r, t, e)))
           /\ Queued(s, t) => Queued(r, t)
<1>1. /\ s.until \in Int /\ s.next \in Int /\ r.until \in Int /\ r.next \in Int
      /\ s \in Scheduler /\ r \in Scheduler
  BY DEF Regular, Scheduler
<1>2. t <= r.until => r.next = r.until + 2
  BY <1>1, FreshFacts DEF Regular
<1> DEFINE v == Schedule(s, t, d)
           w == Schedule(r, t, e)
<1>3. /\ v.end \in Int /\ w.end \in Int
      /\ t <= s.until => v.end = s.next + d
      /\ ~(t <= s.until) => v.end = t + 1 + d
      /\ t <= r.until => w.end = r.next + e
      /\ ~(t <= r.until) => w.end = t + 1 + e
  BY <1>1, ScheduleEnd
<1>4. /\ After(v).until = v.end + 46 /\ After(v).next = v.end + 48
      /\ After(w).until = w.end + 46 /\ After(w).next = w.end + 48
      /\ After(w) \in Scheduler
  BY <1>1, AfterFields, ScheduleFacts
<1> HIDE DEF v, w
<1>5. v.end <= w.end
  BY <1>1, <1>2, <1>3 DEF Later
<1>6. Later(After(v), After(w))
  BY <1>3, <1>4, <1>5 DEF Later
<1>7. Regular(After(w))
  BY <1>3, <1>4 DEF Regular
<1>8. Queued(s, t) => Queued(r, t)
  BY <1>1 DEF Later, Queued
<1> QED BY <1>6, <1>7, <1>8 DEF v, w

(* ---- The table holds schedulers ----------------------------------------- *)

LEMMA DurationsFinite == IsFiniteSet(Durations) /\ Durations \subseteq Nat /\ Limit \in Durations
<1>1. Durations \in SUBSET Nat /\ Limit \in Nat /\ \A d \in Durations : d <= Limit
  BY DurationsAssumption
<1>2. IsFiniteSet(Durations)
  BY <1>1, FS_BoundedSetOfNaturals
<1> QED BY <1>1, <1>2, LimitAssumption

HoldsSchedulers(S) == IsFiniteSet(S) /\ S \subseteq Scheduler

LEMMA SuccessorsHold ==
    ASSUME chart \in Charts, nodeOf = SkillNodeIndices, NEW a \in Activations,
           NEW S, HoldsSchedulers(S)
    PROVE  HoldsSchedulers(Successors(S, a))
<1> DEFINE next(s, d) == After(Schedule(s, chart[nodeOf[a]].frame, d))
           pairs == S \X Durations
           f == [p \in pairs |-> next(p[1], p[2])]
<1>1. IsFiniteSet(pairs)
  BY DurationsFinite, FS_Product DEF HoldsSchedulers
<1>2. Successors(S, a) \subseteq {f[p] : p \in pairs}
  <2>1. ASSUME NEW s \in S, NEW d \in Durations
        PROVE  next(s, d) \in {f[p] : p \in pairs}
    <3>1. <<s, d>> \in pairs /\ f[<<s, d>>] = next(s, d)
      OBVIOUS
    <3> HIDE DEF f, pairs, next
    <3> QED BY <3>1
  <2>2. Successors(S, a) = {next(s, d) : s \in S, d \in Durations}
    BY DEF Successors
  <2> HIDE DEF f, pairs, next
  <2> QED BY <2>1, <2>2
<1>3. IsFiniteSet({f[p] : p \in pairs})
  <2> HIDE DEF f, pairs
  <2> QED BY <1>1, FiniteImage
<1>4. IsFiniteSet(Successors(S, a))
  <2> HIDE DEF f, pairs
  <2> QED BY <1>2, <1>3, FS_Subset
<1>5. Successors(S, a) \subseteq Scheduler
  <2>1. chart[nodeOf[a]].frame \in Nat
    BY NodeFrame
  <2>2. \A s \in S, d \in Durations : next(s, d) \in Scheduler
    BY <2>1, DurationsFinite, ScheduleFacts DEF HoldsSchedulers
  <2>3. Successors(S, a) = {next(s, d) : s \in S, d \in Durations}
    BY DEF Successors
  <2> HIDE DEF next
  <2> QED BY <2>2, <2>3
<1> QED BY <1>4, <1>5 DEF HoldsSchedulers

LEMMA RawHolds ==
    ASSUME chart \in Charts, nodeOf = SkillNodeIndices
    PROVE  \A a \in Activations : HoldsSchedulers(RawStates[a])
<1> DEFINE Bad == {a \in Nat : a \in Activations /\ ~HoldsSchedulers(RawStates[a])}
<1> SUFFICES ASSUME Bad # {} PROVE FALSE
  BY SizeFacts
<1>1. PICK a \in Bad : \A b \in Bad : a <= b
  <2>1. Bad \subseteq Nat
    OBVIOUS
  <2> HIDE DEF Bad
  <2> QED BY <2>1, NatLeast
<1>2. a \in Nat /\ a \in 1 .. Size + 1 /\ ~HoldsSchedulers(RawStates[a])
  BY SizeFacts
<1>3. a # 1
  <2>1. HoldsSchedulers({Fresh})
    BY FreshFacts, FS_Singleton DEF HoldsSchedulers
  <2> QED BY <1>2, <2>1, RawFacts
<1>4. a - 1 \in 1 .. Size /\ a - 1 \in Activations /\ a - 1 \in Nat /\ ~(a <= a - 1)
      /\ (a - 1) + 1 = a
  BY <1>2, <1>3, SizeFacts
<1>5. a - 1 \notin Bad
  <2> HIDE DEF Bad
  <2> QED BY <1>1, <1>4
<1>6. HoldsSchedulers(RawStates[a - 1])
  BY <1>4, <1>5
<1>7. RawStates[a] = Successors(RawStates[a - 1], a - 1)
  BY <1>4, RawFacts
<1>8. HoldsSchedulers(Successors(RawStates[a - 1], a - 1))
  BY <1>4, <1>6, SuccessorsHold
<1> QED BY <1>2, <1>7, <1>8

TypedTable(m) == \A a \in Activations : HoldsSchedulers(DOMAIN m[a])

LEMMA MachineTyped ==
    ASSUME chart \in Charts, nodeOf = SkillNodeIndices
    PROVE  TypedTable(Machine)
<1> DEFINE layers == Merged(RawStates)
           raw == RawStates
<1>1. ASSUME NEW a \in Activations
      PROVE  DOMAIN Machine[a] = raw[a]
  <2>1. Machine[a] = layers[a].rows
    BY DEF Machine
  <2>2. layers[a] = Layer(layers[a + 1], a, raw[a])
    BY MergedFacts
  <2> HIDE DEF layers, raw
  <2>3. PICK layer : layer = Layer(layers[a + 1], a, raw[a])
    OBVIOUS
  <2>4. layer.rows = [s \in raw[a] |-> Row(layers[a + 1], a, s)]
    BY <2>3, LayerFacts
  <2> QED BY <2>1, <2>2, <2>3, <2>4
<1> QED BY <1>1, RawHolds DEF TypedTable

(* ---- The bounds are built ----------------------------------------------- *)

(* The windows that are asked for, and those that pruning thinks possible. *)
WindowsOf(a, d) ==
    WindowsBehind(a, d) \cup WindowsInTable(a, d) \cup {OrdinaryWindow(chart, nodeOf[a], d)}

PossibleWindows(card, a, queue) ==
    CASE queue = "none" -> {OrdinaryWindow(chart, nodeOf[a], team[card])}
      [] queue = "single" -> WindowsBehind(a, team[card])
      [] queue = "chain" -> WindowsInTable(a, team[card])

Nodes == chart \in Charts /\ nodeOf = SkillNodeIndices

LEMMA WindowTypes ==
    ASSUME Nodes, RightTable(machine), TypedTable(machine), NEW a \in Activations, NEW d \in Durations
    PROVE  /\ WindowsOf(a, d) \subseteq Coverage
           /\ IsFiniteSet(WindowsBehind(a, d)) /\ IsFiniteSet(WindowsInTable(a, d))
<1>1. nodeOf[a] \in DOMAIN chart /\ d \in Nat /\ Fresh \in Scheduler
  BY NodeFrame, DurationsFinite, FreshFacts DEF Nodes
<1>2. OrdinaryWindow(chart, nodeOf[a], d) \in Coverage
  BY <1>1, WindowType DEF OrdinaryWindow, Nodes
<1>3. WindowsBehind(a, d) \subseteq Coverage /\ IsFiniteSet(WindowsBehind(a, d))
  <2>1. CASE a = 1
    BY <1>2, <2>1, FS_Singleton DEF WindowsBehind
  <2>2. CASE a # 1
    <3>1. a - 1 \in Activations
      BY <2>2, SizeFacts
    <3>2. chart[nodeOf[a - 1]].frame \in Nat
      BY <3>1, NodeFrame DEF Nodes
    <3> DEFINE f == [e \in Durations |->
                        PredecessorWindow(chart, nodeOf[a - 1], e, nodeOf[a], d)]
    <3>3. \A e \in Durations : f[e] \in Coverage
      <4> TAKE e \in Durations
      <4>1. After(Schedule(Fresh, chart[nodeOf[a - 1]].frame, e)) \in Scheduler
        BY <1>1, <3>2, DurationsFinite, ScheduleFacts
      <4>2. PredecessorWindow(chart, nodeOf[a - 1], e, nodeOf[a], d) \in Coverage
        BY <1>1, <4>1, WindowType DEF PredecessorWindow, Nodes
      <4> QED BY <4>2
    <3>4. WindowsBehind(a, d) = {f[e] : e \in Durations}
      BY <2>2 DEF WindowsBehind
    <3> HIDE DEF f
    <3>5. IsFiniteSet({f[e] : e \in Durations})
      BY ONLY DurationsFinite, FiniteImage
    <3> QED BY <3>3, <3>4, <3>5
  <2> QED BY <2>1, <2>2
<1>4. WindowsInTable(a, d) \subseteq Coverage /\ IsFiniteSet(WindowsInTable(a, d))
  <2> DEFINE D == DOMAIN machine[a]
             f == [s \in D |-> machine[a][s][d].window]
  <2>1. IsFiniteSet(D) /\ D \subseteq Scheduler
    BY DEF TypedTable, HoldsSchedulers
  <2>2. \A s \in D : f[s] \in Coverage
    <3> TAKE s \in D
    <3>1. f[s] = WindowRange(chart, nodeOf[a], ScheduledAt(s, a, d))
      BY DEF RightTable, RightAt
    <3>2. s \in Scheduler
      BY <2>1
    <3>3. WindowRange(chart, nodeOf[a], ScheduledAt(s, a, d)) \in Coverage
      BY <1>1, <3>2, WindowType DEF ScheduledAt, Nodes
    <3> QED BY <3>1, <3>3
  <2>3. WindowsInTable(a, d) = {f[s] : s \in D}
    BY DEF WindowsInTable
  <2> HIDE DEF f, D
  <2>4. IsFiniteSet({f[s] : s \in D})
    BY ONLY <2>1, FiniteImage
  <2> QED BY <2>2, <2>3, <2>4
<1> QED BY <1>2, <1>3, <1>4 DEF WindowsOf

GainsRight(g) ==
    \A a \in Activations, d \in Durations :
        \A w \in WindowsOf(a, d), card \in Cards :
            g[w][card].meta = MetaIn(chart, setting, card, w)

LEMMA GainsBuilt == GainsRight(Gains)
<1> SUFFICES ASSUME NEW a \in Activations, NEW d \in Durations, NEW w \in WindowsOf(a, d),
                    NEW card \in Cards
             PROVE  Gains[w][card].meta = MetaIn(chart, setting, card, w)
  BY DEF GainsRight
<1>1. w \in AskedWindows
  <2> DEFINE All == {WindowsBehind(b, e) \cup WindowsInTable(b, e)
                       \cup {OrdinaryWindow(chart, nodeOf[b], e)} :
                       b \in Activations, e \in Durations}
  <2>1. WindowsOf(a, d) \in All
    BY DEF WindowsOf
  <2>2. AskedWindows = UNION All
    BY DEF AskedWindows
  <2> HIDE DEF All
  <2> QED BY <2>1, <2>2
<1>2. Gains[w][card].meta = Meta(card, w)
  BY <1>1 DEF Gains
<1> QED BY <1>2, MetaIs

LEMMA UpperHolds ==
    ASSUME Nodes, RightTable(machine), TypedTable(machine), GainsRight(gains),
           setting \in Settings, NEW card \in Cards, team[card] \in Durations,
           NEW a \in Activations, NEW queue \in {"none", "single", "chain"}
    PROVE  \A w \in PossibleWindows(card, a, queue) :
               MetaIn(chart, setting, card, w) <= MetaUpper(card, a, queue)
<1> DEFINE P == PossibleWindows(card, a, queue)
           f == [w \in P |-> gains[w][card].meta]
<1>1. P \subseteq WindowsOf(a, team[card]) /\ IsFiniteSet(P)
  <2>1. /\ IsFiniteSet(WindowsBehind(a, team[card])) /\ IsFiniteSet(WindowsInTable(a, team[card]))
        /\ IsFiniteSet({OrdinaryWindow(chart, nodeOf[a], team[card])})
    BY WindowTypes, FS_Singleton
  <2>2. CASE queue = "none"
    BY <2>1, <2>2 DEF PossibleWindows, WindowsOf
  <2>3. CASE queue = "single"
    BY <2>1, <2>3 DEF PossibleWindows, WindowsOf
  <2>4. CASE queue = "chain"
    BY <2>1, <2>4 DEF PossibleWindows, WindowsOf
  <2> QED BY <2>2, <2>3, <2>4
<1>2. ASSUME NEW w \in P
      PROVE  f[w] = MetaIn(chart, setting, card, w) /\ f[w] \in Nat
  <2>1. w \in WindowsOf(a, team[card])
    BY <1>1
  <2>2. gains[w][card].meta = MetaIn(chart, setting, card, w)
    BY <2>1 DEF GainsRight
  <2>3. w \in Coverage
    BY <2>1, WindowTypes
  <2>4. setting \in Setting
    BY ScoresAssumption
  <2>5. MetaIn(chart, setting, card, w) \in Nat
    BY <2>3, <2>4, MetaNat
  <2> QED BY <2>2, <2>5
<1>3. MetaUpper(card, a, queue) = Max({0} \cup {f[w] : w \in P})
  <2>1. {f[w] : w \in P} = {gains[w][card].meta : w \in P}
    OBVIOUS
  <2>2. MetaUpper(card, a, queue) = Max({0} \cup {gains[w][card].meta : w \in P})
    BY DEF MetaUpper, PossibleWindows
  <2> QED BY <2>1, <2>2
<1> HIDE DEF P, f
<1>4. \A w \in P : f[w] <= Max({0} \cup {f[v] : v \in P})
  <2>1. IsFiniteSet(P) /\ \A w \in P : f[w] \in Nat
    BY <1>1, <1>2
  <2> QED BY ONLY <2>1, LargestOf
<1>5. \A w \in P : MetaIn(chart, setting, card, w) <= MetaUpper(card, a, queue)
  BY <1>2, <1>3, <1>4
<1> QED BY <1>5 DEF P

LEMMA KindIs == QueueKind(Limit) \in {"none", "single", "chain"}
  BY DEF QueueKind

(* The window of as many judgements as a skill may cover from judgement n. *)
AnyFrom(card, n) == [from |-> n - 1, to |-> UpTo(chart, chart[n].frame + team[card] + 2)]

LatestEnd(a) == Schedule(LatestOf(chart, nodeOf, top)[a - 1], chart[nodeOf[a]].frame, top).end

AtRight(b) ==
    \A card \in Cards, a \in Activations :
        \A w \in PossibleWindows(card, a, QueueKind(Limit)) :
            MetaIn(chart, setting, card, w) <= b.at[card][a]

AnyRight(b) ==
    \A card \in Cards :
        /\ b.any[card] \in Nat
        /\ \A n \in DOMAIN chart :
              MetaIn(chart, setting, card, AnyFrom(card, n)) <= b.any[card]

NotesRight(b) ==
    \A a \in Activations : nodeOf[a] + 1 .. UpTo(chart, LatestEnd(a)) \subseteq b.notes

LEMMA AnyBuilt ==
    ASSUME chart \in Charts, setting \in Settings, NEW card \in Cards, team[card] \in Durations
    PROVE  /\ AnyWindow(card) \in Nat
           /\ \A n \in DOMAIN chart :
                 MetaIn(chart, setting, card, AnyFrom(card, n)) <= AnyWindow(card)
<1>1. /\ DOMAIN chart = 1 .. Len(chart) /\ Len(chart) \in Nat
      /\ \A n \in DOMAIN chart : chart[n].frame \in Nat
  BY ChartFacts
<1> DEFINE D == DOMAIN chart
           f == [n \in D |-> MetaIn(chart, setting, card, AnyFrom(card, n))]
<1>2. IsFiniteSet(D)
  BY <1>1, FS_Interval
<1>3. \A n \in D : f[n] \in Nat
  <2> TAKE n \in D
  <2>1. n \in Nat \ {0} /\ chart[n].frame \in Nat
    BY <1>1
  <2>2. team[card] \in Nat
    BY DurationsFinite
  <2>3. n - 1 \in Nat /\ chart[n].frame + team[card] + 2 \in Int
    BY <2>1, <2>2
  <2>4. UpTo(chart, chart[n].frame + team[card] + 2) \in Nat
    BY <2>3, UpToSets
  <2>5. AnyFrom(card, n) \in Coverage
    BY <2>3, <2>4 DEF AnyFrom, Coverage
  <2>6. setting \in Setting
    BY ScoresAssumption
  <2>7. MetaIn(chart, setting, card, AnyFrom(card, n)) \in Nat
    BY <2>5, <2>6, MetaNat
  <2> QED BY <2>7
<1>4. AnyWindow(card) = Max({0} \cup {f[n] : n \in D})
  <2>1. \A n \in D : Meta(card, AnyFrom(card, n)) = f[n]
    BY MetaIs
  <2>2. AnyWindow(card) = Max({0} \cup {Meta(card, AnyFrom(card, n)) : n \in D})
    BY DEF AnyWindow, AnyFrom
  <2> HIDE DEF f, D
  <2>3. {Meta(card, AnyFrom(card, n)) : n \in D} = {f[n] : n \in D}
    BY <2>1
  <2> QED BY <2>2, <2>3
<1>5. \A n \in D : f[n] = MetaIn(chart, setting, card, AnyFrom(card, n))
  OBVIOUS
<1> HIDE DEF f, D
<1>6. /\ Max({0} \cup {f[k] : k \in D}) \in Nat
      /\ \A n \in D : f[n] <= Max({0} \cup {f[k] : k \in D})
  BY ONLY <1>2, <1>3, LargestOf
<1>7. AnyWindow(card) \in Nat /\ \A n \in D : f[n] <= AnyWindow(card)
  BY <1>4, <1>6
<1> QED BY <1>5, <1>7 DEF D

LEMMA BoundsBuilt ==
    ASSUME Nodes, RightTable(machine), TypedTable(machine), GainsRight(gains),
           setting \in Settings, \A card \in Cards : team[card] \in Durations
    PROVE  AtRight(Bounds) /\ AnyRight(Bounds) /\ NotesRight(Bounds)
<1>1. AtRight(Bounds)
  <2> SUFFICES ASSUME NEW card \in Cards, NEW a \in Activations,
                      NEW w \in PossibleWindows(card, a, QueueKind(Limit))
               PROVE  MetaIn(chart, setting, card, w) <= Bounds.at[card][a]
    BY DEF AtRight
  <2>1. Bounds.at[card][a] = MetaUpper(card, a, QueueKind(Limit))
    BY DEF Bounds
  <2>2. MetaIn(chart, setting, card, w) <= MetaUpper(card, a, QueueKind(Limit))
    BY KindIs, UpperHolds
  <2> QED BY <2>1, <2>2
<1>2. AnyRight(Bounds)
  <2> SUFFICES ASSUME NEW card \in Cards
               PROVE  /\ Bounds.any[card] \in Nat
                      /\ \A n \in DOMAIN chart :
                            MetaIn(chart, setting, card, AnyFrom(card, n)) <= Bounds.any[card]
    BY DEF AnyRight
  <2>1. Bounds.any[card] = AnyWindow(card)
    BY DEF Bounds
  <2> QED BY <2>1, AnyBuilt DEF Nodes
<1>3. NotesRight(Bounds)
  <2>1. Bounds.notes = PossibleNotes(top)
    BY DEF Bounds
  <2>2. PossibleNotes(top)
          = UNION {nodeOf[a] + 1 .. UpTo(chart, LatestEnd(a)) : a \in Activations}
    BY SchedulersAre DEF PossibleNotes, LatestEnd
  <2> QED BY <2>1, <2>2 DEF NotesRight
<1> QED BY <1>1, <1>2, <1>3

(* While the song and the table stay, what is said of the bounds stays.    *)
LEMMA SongKept ==
    ASSUME chart' = chart, nodeOf' = nodeOf, machine' = machine, team' = team, top' = top,
           setting' = setting
    PROVE  /\ \A d : QueuedAt(d)' = QueuedAt(d)
           /\ QueueKind(Limit)' = QueueKind(Limit)
           /\ \A a, d : WindowsInTable(a, d)' = WindowsInTable(a, d)
           /\ \A a : LatestEnd(a)' = LatestEnd(a)
           /\ TypedTable(machine) => TypedTable(machine)'
<1>1. \A d : QueuedAt(d)' = QueuedAt(d)
  BY SchedulersAre, SchedulersStay DEF QueuedAt
<1>2. QueueKind(Limit)' = QueueKind(Limit)
  BY <1>1 DEF QueueKind
<1>3. \A a, d : WindowsInTable(a, d)' = WindowsInTable(a, d)
  BY DEF WindowsInTable
<1>4. \A a : LatestEnd(a)' = LatestEnd(a)
  BY DEF LatestEnd
<1> QED BY <1>1, <1>2, <1>3, <1>4 DEF TypedTable

(* ---- The song, and what pruning believes of it --------------------------- *)

SameSong ==
    /\ chart' = chart /\ nodeOf' = nodeOf /\ machine' = machine /\ team' = team /\ top' = top
    /\ setting' = setting

LEMMA WindowsStay ==
    ASSUME SameSong
    PROVE  /\ \A a, d : WindowsOf(a, d)' = WindowsOf(a, d)
           /\ \A card, a : PossibleWindows(card, a, QueueKind(Limit))'
                             = PossibleWindows(card, a, QueueKind(Limit))
<1>1. \A a, d : WindowsInTable(a, d)' = WindowsInTable(a, d)
  BY SongKept DEF SameSong
<1>2. \A a, d : WindowsBehind(a, d)' = WindowsBehind(a, d)
  BY DEF SameSong, WindowsBehind
<1>3. QueueKind(Limit)' = QueueKind(Limit)
  BY SongKept DEF SameSong
<1> QED BY <1>1, <1>2, <1>3 DEF SameSong, WindowsOf, PossibleWindows

Believed(b) == AtRight(b) /\ AnyRight(b) /\ NotesRight(b)

Song ==
    /\ setting \in Settings
    /\ machine # <<>> => TypedTable(machine)
    /\ gains # <<>> => GainsRight(gains)
    /\ bounds # <<>> => Believed(bounds)

LEMMA GainsStay ==
    ASSUME SameSong, NEW g, GainsRight(g), gains' = g
    PROVE  GainsRight(gains)'
<1>1. \A a, d : WindowsOf(a, d)' = WindowsOf(a, d)
  BY WindowsStay
<1>2. chart' = chart /\ setting' = setting
  BY DEF SameSong
<1> QED BY <1>1, <1>2 DEF GainsRight, Activations, Size

LEMMA BoundsStay ==
    ASSUME SameSong, NEW b, Believed(b), bounds' = b
    PROVE  Believed(bounds)'
<1>1. /\ chart' = chart /\ setting' = setting /\ nodeOf' = nodeOf /\ team' = team
  BY DEF SameSong
<1>2. AtRight(bounds)'
  BY <1>1, WindowsStay DEF Believed, AtRight, Activations, Size
<1>3. AnyRight(bounds)'
  BY <1>1 DEF Believed, AnyRight, AnyFrom
<1>4. NotesRight(bounds)'
  <2>1. \A a : LatestEnd(a)' = LatestEnd(a)
    BY SongKept DEF SameSong
  <2> QED BY <1>1, <2>1 DEF Believed, NotesRight, Activations, Size
<1> QED BY <1>2, <1>3, <1>4 DEF Believed

LEMMA SongStart == QueueInit => Song
  BY DEF QueueInit, NothingPrepared, Song

LEMMA SongStep ==
    ASSUME IInv, Walks, Song, [QueueNext]_queueVars
    PROVE  Song'
<1>1. Nodes
  BY DEF Nodes, IInv, Inputs, Walks, Prepared
<1>2. \A card \in Cards : team[card] \in Durations
  BY DEF IInv, Inputs
<1>3. CASE BuildMachine
  <2>1. /\ machine = <<>> /\ machine' = Machine /\ setting' = setting
        /\ gains' = <<>> /\ bounds' = <<>>
    BY <1>3 DEF BuildMachine, Walks, Prepared
  <2> DEFINE m == Machine
  <2>2. TypedTable(m) /\ machine' = m
    BY <1>1, <2>1, MachineTyped DEF Nodes
  <2> HIDE DEF m
  <2>3. TypedTable(machine)'
    BY <2>2 DEF TypedTable, Activations, Size
  <2> QED BY <2>1, <2>3 DEF Song
<1>4. CASE BuildGains
  <2>1. /\ SameSong /\ machine # <<>> /\ gains = <<>> /\ gains' = Gains /\ bounds' = <<>>
    BY <1>4 DEF BuildGains, Walks, Prepared, SameSong, vars
  <2> DEFINE g == Gains
  <2>2. GainsRight(g) /\ gains' = g
    BY <2>1, GainsBuilt
  <2> HIDE DEF g
  <2>3. GainsRight(gains)'
    BY <2>1, <2>2, GainsStay
  <2>4. TypedTable(machine)'
    BY <2>1, SongKept DEF Song, SameSong
  <2> QED BY <2>1, <2>3, <2>4 DEF Song, SameSong
<1>5. CASE BuildBounds
  <2>1. /\ SameSong /\ machine # <<>> /\ gains # <<>> /\ gains' = gains /\ bounds' = Bounds
    BY <1>5 DEF BuildBounds, Walks, Prepared, SameSong, vars
  <2>2. RightTable(machine) /\ TypedTable(machine) /\ GainsRight(gains)
    BY <2>1 DEF Walks, Song
  <2> DEFINE b == Bounds
  <2>3. Believed(b) /\ bounds' = b
    BY <1>1, <1>2, <2>1, <2>2, BoundsBuilt DEF Song, Believed
  <2> HIDE DEF b
  <2>4. Believed(bounds)'
    BY <2>1, <2>3, BoundsStay
  <2>5. GainsRight(gains)'
    BY <2>1, <2>2, GainsStay
  <2>6. TypedTable(machine)'
    BY <2>1, SongKept DEF Song, SameSong
  <2> QED BY <2>1, <2>4, <2>5, <2>6 DEF Song, SameSong
<1>6. ASSUME SameSong, gains' = gains, bounds' = bounds
      PROVE  Song'
  <2>1. gains' # <<>> => GainsRight(gains)'
    BY <1>6, GainsStay DEF Song
  <2>2. bounds' # <<>> => Believed(bounds)'
    BY <1>6, BoundsStay DEF Song
  <2>3. machine' # <<>> => TypedTable(machine)'
    BY <1>6, SongKept DEF Song, SameSong
  <2> QED BY <1>6, <2>1, <2>2, <2>3 DEF Song, SameSong
<1>7. FindAnswer \/ QueuePlay \/ (\E card \in Cards : QueueTrigger(card)) \/ UNCHANGED queueVars
         => SameSong /\ gains' = gains /\ bounds' = bounds
  BY DEF FindAnswer, QueuePlay, Play, QueueTrigger, Trigger, queueVars, prepared, vars, SameSong
<1> QED BY <1>3, <1>4, <1>5, <1>6, <1>7 DEF QueueNext, Prepare

(* ---- What was played, against what was believed --------------------------- *)

(* The judgement from which on activation a cannot last longer than its    *)
(* duration is the first one of its window, wherever the window starts.    *)
ShortEnough(w, card) ==
    \A n \in DOMAIN chart : n = w.from + 1 => w.to <= UpTo(chart, chart[n].frame + team[card] + 2)

SeenAt(w, a, card) ==
    /\ w \in WindowsInTable(a, team[card])
    /\ nodeOf[a] <= w.from
    /\ w.to <= UpTo(chart, LatestEnd(a))
    /\ ShortEnough(w, card)

WindowsSeen == \A a \in 1 .. Len(order) : triggers[a] = nodeOf[a] /\ SeenAt(windows[a], a, order[a])

(* skill_queue_kind with the longest duration of the team, and with the    *)
(* longest that there is: the latter is later at every trigger.            *)
LimitNow == LatestOf(chart, nodeOf, Limit)[Len(order)]

Ahead ==
    /\ longest = LatestOf(chart, nodeOf, top)[Len(order)]
    /\ Regular(longest) /\ Regular(LimitNow) /\ Later(longest, LimitNow)

(* What the team has queued, the limit queues too.                         *)
QueuedOnce == QueuedAt(Limit) # {}

QueuedTwice == \E a \in QueuedAt(Limit) : a + 1 \in QueuedAt(Limit)

KindSeen ==
    /\ previousQueued => Len(order) \in QueuedAt(Limit)
    /\ kind # "none" => QueuedOnce
    /\ kind = "chain" => QueuedTwice

Played == Len(order) <= Size + 1 /\ WindowsSeen /\ Ahead /\ KindSeen

LEMMA PlayedStart == QueueInit => Played
<1> SUFFICES ASSUME QueueInit PROVE Played
  OBVIOUS
<1>1. order = <<>> /\ longest = Fresh /\ previousQueued = FALSE /\ kind = "none"
  BY DEF QueueInit, Init
<1>2. Len(order) = 0 /\ 1 .. Len(order) = {}
  BY <1>1
<1>3. Ahead
  BY <1>1, <1>2, LatestFacts, FreshFacts DEF Ahead, LimitNow, Regular, Later, Scheduler
<1> QED BY <1>1, <1>2, <1>3, SizeFacts DEF Played, WindowsSeen, KindSeen

LEMMA PlayedStays ==
    ASSUME SameSong, order' = order, windows' = windows, triggers' = triggers,
           longest' = longest, previousQueued' = previousQueued, kind' = kind, Played
    PROVE  Played'
<1>1. /\ chart' = chart /\ nodeOf' = nodeOf /\ team' = team /\ top' = top
      /\ \A a, d : WindowsInTable(a, d)' = WindowsInTable(a, d)
      /\ \A a : LatestEnd(a)' = LatestEnd(a)
      /\ QueuedAt(Limit)' = QueuedAt(Limit)
  BY SongKept DEF SameSong
<1>2. WindowsSeen'
  BY <1>1 DEF Played, WindowsSeen, SeenAt, ShortEnough
<1>3. Ahead'
  BY <1>1 DEF Played, Ahead, LimitNow
<1>4. KindSeen'
  BY <1>1 DEF Played, KindSeen, QueuedOnce, QueuedTwice
<1> QED BY <1>2, <1>3, <1>4 DEF Played, Size

(* The window of the skill that is triggered.                              *)
LEMMA NewSeen ==
    ASSUME IInv, Walks, Ahead, NEW card \in Cards, QueueTrigger(card)
    PROVE  SeenAt(windows'[Len(order) + 1], Len(order) + 1, card)
<1> DEFINE a == Len(order) + 1
           d == team[card]
           t == chart[i].frame
           s == Schedule(sched, t, d)
           l == Schedule(longest, t, top)
           w == WindowRange(chart, i, s)
<1>1. Trigger(card) /\ machine # <<>>
  BY DEF QueueTrigger, Walks, Prepared
<1>2. /\ chart \in Charts /\ t \in Nat /\ i \in Nat /\ d \in Nat /\ top \in Nat /\ d <= top
      /\ sched.until \in Int /\ sched.next \in Int
      /\ i \in DOMAIN chart /\ chart[i].skill /\ sched \in Scheduler /\ longest \in Scheduler
  BY <1>1, TriggerNumbers DEF IInv, SchedulerTypes, Trigger
<1>3. a \in Activations /\ nodeOf[a] = i /\ Len(order) \in Nat
  BY <1>2, TriggerIsNode DEF Walks, Prepared, IInv, Progress
<1>4. windows'[a] = w
  BY <1>1, Appended DEF IInv
<1>5. w \in WindowsInTable(a, d)
  <2>1. machine[a][state][d].window = windows'[a]
    BY TableStep
  <2>2. state \in DOMAIN machine[a]
    BY <1>1, <1>3, SizeFacts DEF Walks, InTable
  <2> QED BY <1>4, <2>1, <2>2 DEF WindowsInTable
<1>6. /\ s.event \in Int /\ s.end \in Int
      /\ t <= sched.until => s.event = sched.next - 1 /\ s.end = sched.next + d
      /\ ~(t <= sched.until) => s.event = t /\ s.end = t + 1 + d
  BY <1>2 DEF Scheduler, Schedule, Queued
<1>7. t <= sched.until => sched.next = sched.until + 2
  BY <1>2, <1>1, FreshFacts, Appended DEF IInv, Releases
<1>8. /\ t <= sched.until => t < s.event /\ s.end = s.event + 1 + d
      /\ ~(t <= sched.until) => s.event = t /\ s.end = t + 1 + d
  <2> HIDE DEF d, t, s, w, l, a
  <2> QED BY <1>2, <1>6, <1>7
<1>9. w \in Coverage /\ w.to = UpTo(chart, s.end)
      /\ w.from = IF s.event > t THEN UpTo(chart, s.event) ELSE i
  <2>1. w \in Coverage
    BY <1>2, WindowType
  <2> QED BY <2>1 DEF WindowRange
<1>10. s.end <= l.end /\ l.end \in Int
  <2>1. LongestIsLatest'
    BY <1>1, TriggerReleases DEF IInv, Releases
  <2>2. sched' = After(s) /\ longest' = After(l)
    BY <1>1, Appended DEF IInv
  <2>3. l.end \in Int
    BY <1>2, ScheduleEnd
  <2>4. After(s).until = s.end + 46 /\ After(l).until = l.end + 46
    BY AfterFields
  <2> HIDE DEF d, t, s, w, l, a
  <2> QED BY <1>6, <2>1, <2>2, <2>3, <2>4 DEF LongestIsLatest
<1>11. LatestEnd(a) = l.end
  <2>1. a - 1 = Len(order)
    BY <1>3
  <2> HIDE DEF a
  <2> QED BY <1>3, <2>1 DEF LatestEnd, Ahead
<1> HIDE DEF d, t, s, w, l, a
<1>12. w.to <= UpTo(chart, LatestEnd(a))
  BY <1>2, <1>6, <1>9, <1>10, <1>11, UpToMonotone
<1>13. nodeOf[a] <= w.from
  <2>1. CASE s.event > t
    <3>1. i <= UpTo(chart, s.event)
      BY <1>2, <1>6, <2>1, UpToReaches DEF t
    <3> QED BY <1>3, <1>9, <2>1, <3>1
  <2>2. CASE ~(s.event > t)
    BY <1>2, <1>3, <1>9, <2>2
  <2> QED BY <2>1, <2>2
<1>14. ShortEnough(w, card)
  <2> SUFFICES ASSUME NEW n \in DOMAIN chart, n = w.from + 1
               PROVE  w.to <= UpTo(chart, chart[n].frame + d + 2)
    BY DEF ShortEnough, d
  <2>1. n \in Nat /\ chart[n].frame \in Nat
    BY <1>2, ChartFacts
  <2>2. s.end <= chart[n].frame + d + 2
    <3>1. CASE s.event > t
      <4>1. ~(chart[n].frame <= s.event)
        <5> SUFFICES ASSUME chart[n].frame <= s.event PROVE FALSE
          OBVIOUS
        <5>1. n <= UpTo(chart, s.event) /\ UpTo(chart, s.event) \in Nat
          BY <1>2, <1>6, UpToReaches, UpToSets
        <5> QED BY <1>9, <2>1, <3>1, <5>1
      <4>2. s.end = s.event + 1 + d
        BY <1>2, <1>6, <1>8, <3>1
      <4> QED BY <1>2, <1>6, <2>1, <4>1, <4>2
    <3>2. CASE ~(s.event > t)
      <4>1. n = i + 1
        BY <1>9, <3>2
      <4>2. t <= chart[n].frame
        BY <1>2, <2>1, <4>1, ChartFacts DEF t
      <4>3. s.end = t + 1 + d
        BY <1>2, <1>6, <1>8, <3>2
      <4> QED BY <1>2, <2>1, <4>2, <4>3
    <3> QED BY <3>1, <3>2
  <2>3. chart[n].frame + d + 2 \in Int
    BY <1>2, <2>1
  <2> QED BY <1>2, <1>6, <1>9, <2>2, <2>3, UpToMonotone
<1>15. SeenAt(w, a, card)
  BY <1>5, <1>12, <1>13, <1>14 DEF SeenAt, d
<1> QED BY <1>4, <1>15 DEF a

(* The schedulers and the kind after the trigger.                          *)
LEMMA NewAhead ==
    ASSUME IInv, Walks, Ahead, KindSeen, NEW card \in Cards, QueueTrigger(card)
    PROVE  Ahead' /\ KindSeen'
<1> DEFINE a == Len(order) + 1
           t == chart[i].frame
           f == LatestOf(chart, nodeOf, Limit)
           h == LatestOf(chart, nodeOf, top)
<1>1. Trigger(card)
  BY DEF QueueTrigger
<1>2. /\ t \in Nat /\ top \in Nat /\ Limit \in Nat /\ top <= Limit
      /\ i \in DOMAIN chart /\ chart[i].skill
  BY <1>1, TriggerNumbers DEF IInv, Trigger
<1>3. a \in Activations /\ nodeOf[a] = i /\ Len(order) \in Nat
  BY <1>2, TriggerIsNode DEF Walks, Prepared, IInv, Progress
<1>4. a - 1 = Len(order) /\ Len(order') = a
  BY <1>1, <1>3, Appended DEF IInv
<1>5. /\ chart' = chart /\ nodeOf' = nodeOf /\ top' = top
      /\ longest' = After(Schedule(longest, t, top))
      /\ previousQueued' = Queued(longest, t)
      /\ kind' = IF ~Warned(chart) THEN "none"
                 ELSE IF kind = "chain" \/ (Queued(longest, t) /\ previousQueued) THEN "chain"
                 ELSE IF Queued(longest, t) THEN "single" ELSE kind
  BY <1>1 DEF Trigger, Bound, LatestRelease, QueueTrigger, prepared
<1>6. longest = h[Len(order)] /\ LimitNow = f[Len(order)]
  BY DEF Ahead, LimitNow
<1>7. h[a] = After(Schedule(longest, t, top)) /\ f[a] = After(Schedule(LimitNow, t, Limit))
  <2>1. h[a] = After(Schedule(h[a - 1], chart[nodeOf[a]].frame, top))
        /\ f[a] = After(Schedule(f[a - 1], chart[nodeOf[a]].frame, Limit))
    BY <1>3, LatestFacts
  <2> HIDE DEF a, f, h
  <2> QED BY <1>3, <1>4, <1>6, <2>1
<1>8. /\ Regular(After(Schedule(longest, t, top)))
      /\ Regular(After(Schedule(LimitNow, t, Limit)))
      /\ Later(After(Schedule(longest, t, top)), After(Schedule(LimitNow, t, Limit)))
      /\ Queued(longest, t) => Queued(LimitNow, t)
  <2>1. Regular(longest) /\ Regular(LimitNow) /\ Later(longest, LimitNow)
    BY DEF Ahead
  <2>2. Later(longest, longest)
    BY <2>1 DEF Later, Regular, Scheduler
  <2>3. Regular(After(Schedule(longest, t, top)))
    BY <1>2, <2>1, <2>2, LaterKept
  <2> HIDE DEF t
  <2> QED BY <1>2, <2>1, <2>3, LaterKept
<1>9. LimitNow' = f[a] /\ LatestOf(chart', nodeOf', top')[Len(order')] = h[a]
  <2> HIDE DEF a
  <2> QED BY <1>4, <1>5 DEF LimitNow
<1>10. Ahead'
  BY <1>5, <1>7, <1>8, <1>9 DEF Ahead
<1>11. Queued(longest, t) => a \in QueuedAt(Limit)
  <2>1. Schedulers(Limit)[a - 1] = LimitNow
    BY <1>4, <1>6, SchedulersAre
  <2> QED BY <1>3, <1>8, <2>1 DEF QueuedAt
<1>12. QueuedAt(Limit)' = QueuedAt(Limit)
  BY <1>5, SchedulersAre, SchedulersStay DEF QueuedAt
<1>13. Queued(longest, t) /\ previousQueued => QueuedTwice
  BY <1>3, <1>11 DEF KindSeen, QueuedTwice
<1>14. Queued(longest, t) => QueuedOnce
  BY <1>11 DEF QueuedOnce
<1>15. QueuedOnce' = QueuedOnce /\ QueuedTwice' = QueuedTwice
  BY <1>12 DEF QueuedOnce, QueuedTwice
<1>16. QueuedTwice => QueuedOnce
  BY DEF QueuedTwice, QueuedOnce
<1>17. KindSeen'
  <2> DEFINE queued == Queued(longest, t)
  <2>1. previousQueued' => Len(order)' \in QueuedAt(Limit)'
    BY <1>4, <1>5, <1>11, <1>12
  <2> HIDE DEF queued, t, a
  <2>2. kind' # "none" => QueuedOnce
    BY <1>5, <1>13, <1>14, <1>16 DEF KindSeen
  <2>3. kind' = "chain" => QueuedTwice
    BY <1>5, <1>13 DEF KindSeen
  <2> QED BY <1>15, <2>1, <2>2, <2>3 DEF KindSeen
<1> QED BY <1>10, <1>17

LEMMA PlayedStep ==
    ASSUME IInv, Walks, Played, [QueueNext]_queueVars
    PROVE  Played'
<1>1. CASE BuildMachine
  <2>1. /\ chart' = chart /\ nodeOf' = nodeOf /\ order' = order /\ top' = top
        /\ longest' = longest /\ previousQueued' = previousQueued /\ kind' = kind
        /\ order = <<>>
    BY <1>1 DEF BuildMachine, vars, timeline, bound, Walks, Prepared
  <2>2. WindowsSeen'
    BY <2>1 DEF WindowsSeen
  <2>3. Ahead'
    BY <2>1 DEF Played, Ahead, LimitNow
  <2>4. QueuedAt(Limit)' = QueuedAt(Limit)
    BY <2>1, SchedulersAre, SchedulersStay DEF QueuedAt
  <2>5. KindSeen'
    BY <2>1, <2>4 DEF Played, KindSeen, QueuedOnce, QueuedTwice
  <2> QED BY <2>1, <2>2, <2>3, <2>5 DEF Played, Size
<1>2. CASE BuildGains \/ BuildBounds \/ FindAnswer \/ QueuePlay \/ UNCHANGED queueVars
  <2>1. /\ SameSong /\ order' = order /\ windows' = windows /\ triggers' = triggers
        /\ longest' = longest /\ previousQueued' = previousQueued /\ kind' = kind
    BY <1>2 DEF BuildGains, BuildBounds, FindAnswer, QueuePlay, Play, queueVars, prepared, vars,
                timeline, bound, SameSong
  <2> QED BY <2>1, PlayedStays
<1>3. ASSUME NEW card \in Cards, QueueTrigger(card)
      PROVE  Played'
  <2>1. Trigger(card) /\ SameSong
    BY <1>3 DEF QueueTrigger, Trigger, prepared, SameSong
  <2>2. /\ Len(order) \in Nat /\ Len(order') = Len(order) + 1
        /\ order'[Len(order) + 1] = card /\ triggers'[Len(order) + 1] = i
        /\ \A a \in 1 .. Len(order) : /\ windows'[a] = windows[a] /\ order'[a] = order[a]
                                     /\ triggers'[a] = triggers[a]
    BY <2>1, Appended DEF IInv
  <2>3. Len(order) + 1 \in Activations /\ nodeOf[Len(order) + 1] = i
    BY <2>1, TriggerIsNode DEF Walks, Prepared, Trigger
  <2>4. SeenAt(windows'[Len(order) + 1], Len(order) + 1, card)
    BY <1>3, NewSeen DEF Played
  <2>5. \A w, a, c : SeenAt(w, a, c)' = SeenAt(w, a, c)
    <3>1. /\ chart' = chart /\ nodeOf' = nodeOf /\ team' = team
          /\ \A a, d : WindowsInTable(a, d)' = WindowsInTable(a, d)
          /\ \A a : LatestEnd(a)' = LatestEnd(a)
      BY <2>1, SongKept DEF SameSong
    <3> QED BY <3>1 DEF SeenAt, ShortEnough
  <2>6. ASSUME NEW a \in 1 .. Len(order')
        PROVE  triggers'[a] = nodeOf[a] /\ SeenAt(windows'[a], a, order'[a])
    <3>1. a \in 1 .. Len(order) \/ a = Len(order) + 1
      BY <2>2
    <3>2. CASE a \in 1 .. Len(order)
      BY <2>2, <3>2 DEF Played, WindowsSeen
    <3>3. CASE a = Len(order) + 1
      BY <2>2, <2>3, <2>4, <3>3
    <3> QED BY <3>1, <3>2, <3>3
  <2>7. WindowsSeen'
    <3>1. /\ chart' = chart /\ nodeOf' = nodeOf /\ team' = team
          /\ \A a, d : WindowsInTable(a, d)' = WindowsInTable(a, d)
          /\ \A a : LatestEnd(a)' = LatestEnd(a)
      BY <2>1, SongKept DEF SameSong
    <3> QED BY <3>1, <2>6 DEF WindowsSeen, SeenAt, ShortEnough
  <2>8. Ahead' /\ KindSeen'
    BY <1>3, NewAhead DEF Played
  <2>9. (Len(order) <= Size + 1)'
    BY <2>2, <2>3, SizeFacts DEF Size
  <2> QED BY <2>7, <2>8, <2>9 DEF Played
<1> QED BY <1>1, <1>2, <1>3 DEF QueueNext, Prepare

(* A window that was played is one of those that pruning thought possible. *)
LEMMA WindowPossible ==
    ASSUME IInv, Played, NEW a \in DOMAIN windows
    PROVE  windows[a] \in PossibleWindows(order[a], a, QueueKind(Limit))
<1>1. /\ a \in 1 .. Len(order) /\ triggers[a] = nodeOf[a]
      /\ windows[a] \in WindowsInTable(a, team[order[a]])
  BY DEF IInv, Progress, Played, WindowsSeen, SeenAt
<1>2. order[a] \in Cards /\ team[order[a]] \in Durations
  BY <1>1 DEF IInv, Inputs, Progress
<1>3. CASE QueueKind(Limit) = "none"
  <2>1. ~Warned(chart) \/ QueuedAt(Limit) = {}
    BY <1>3 DEF QueueKind
  <2>2. kind = "none"
    BY <2>1 DEF Played, KindSeen, QueuedOnce, IInv, KindFacts
  <2>3. windows[a] = Ordinary(a)
    BY <2>2 DEF IInv, WindowsKnown
  <2> QED BY <1>1, <1>3, <2>3 DEF PossibleWindows, Ordinary
<1>4. CASE QueueKind(Limit) = "single"
  <2>1. ~QueuedTwice
    BY <1>4 DEF QueueKind, QueuedTwice
  <2>2. kind # "chain"
    BY <2>1 DEF Played, KindSeen
  <2>3. CASE a = 1
    <3>1. windows[a] = Ordinary(a)
      BY <2>3 DEF IInv, WindowsKnown
    <3> QED BY <1>1, <1>4, <2>3, <3>1 DEF PossibleWindows, WindowsBehind, Ordinary
  <2>4. CASE a # 1
    <3>1. a > 1 /\ a - 1 \in 1 .. Len(order)
      BY <1>1, <2>4
    <3>2. windows[a] = Pair(a)
      BY <2>2, <3>1 DEF IInv, WindowsKnown
    <3>3. triggers[a - 1] = nodeOf[a - 1]
      BY <3>1 DEF Played, WindowsSeen
    <3>4. team[order[a - 1]] \in Durations
      BY <3>1 DEF IInv, Inputs, Progress
    <3>5. windows[a] = PredecessorWindow(chart, nodeOf[a - 1], team[order[a - 1]],
                                         nodeOf[a], team[order[a]])
      BY <1>1, <3>2, <3>3 DEF Pair
    <3>6. windows[a] \in WindowsBehind(a, team[order[a]])
      BY <2>4, <3>4, <3>5 DEF WindowsBehind
    <3> QED BY <1>4, <3>6 DEF PossibleWindows
  <2> QED BY <2>3, <2>4
<1>5. CASE QueueKind(Limit) = "chain"
  BY <1>1, <1>5 DEF PossibleWindows
<1> QED BY <1>3, <1>4, <1>5, KindIs

(* The schedulers of the longest skills are schedulers.                    *)
LEMMA LatestTyped ==
    ASSUME chart \in Charts, nodeOf = SkillNodeIndices, NEW d \in Nat
    PROVE  \A a \in Activations : LatestOf(chart, nodeOf, d)[a - 1] \in Scheduler
<1> DEFINE f == LatestOf(chart, nodeOf, d)
           Bad == {k \in Nat : k <= Size + 1 /\ f[k] \notin Scheduler}
<1> SUFFICES ASSUME Bad # {} PROVE FALSE
  BY SizeFacts
<1>1. PICK k \in Bad : \A m \in Bad : k <= m
  <2>1. Bad \subseteq Nat
    OBVIOUS
  <2> HIDE DEF Bad
  <2> QED BY <2>1, NatLeast
<1>2. k \in Nat /\ k <= Size + 1 /\ f[k] \notin Scheduler
  OBVIOUS
<1>3. k # 0
  BY <1>2, LatestFacts, FreshFacts
<1>4. k \in Activations /\ k - 1 \in Nat /\ k - 1 <= Size + 1 /\ ~(k <= k - 1)
  BY <1>2, <1>3, SizeFacts
<1>5. k - 1 \notin Bad
  <2> HIDE DEF Bad
  <2> QED BY <1>1, <1>4
<1>6. f[k - 1] \in Scheduler
  BY <1>4, <1>5
<1>7. f[k] = After(Schedule(f[k - 1], chart[nodeOf[k]].frame, d))
  BY <1>4, LatestFacts
<1> HIDE DEF f
<1>8. chart[nodeOf[k]].frame \in Nat
  BY <1>4, NodeFrame
<1>9. After(Schedule(f[k - 1], chart[nodeOf[k]].frame, d)) \in Scheduler
  BY <1>6, <1>8, ScheduleFacts
<1> QED BY <1>2, <1>7, <1>9

LEMMA UpToLength ==
    ASSUME NEW c \in Charts, NEW f \in Int
    PROVE  UpTo(c, f) <= Len(c)
<1>1. DOMAIN c = 1 .. Len(c) /\ Len(c) \in Nat
  BY ChartFacts
<1>2. {n \in DOMAIN c : c[n].frame <= f} \in SUBSET (1 .. Len(c))
  BY <1>1
<1>3. IsFiniteSet(1 .. Len(c)) /\ Cardinality(1 .. Len(c)) = Len(c)
  <2>1. PICK k \in Nat : k = Len(c)
    BY <1>1
  <2>2. IsFiniteSet(1 .. k) /\ Cardinality(1 .. k) = IF 1 > k THEN 0 ELSE k - 1 + 1
    BY FS_Interval
  <2> QED BY <2>1, <2>2
<1> QED BY <1>2, <1>3, FS_Subset DEF UpTo

(* The bound for any window holds for a window that is short enough.       *)
LEMMA ShortBelow ==
    ASSUME chart \in Charts, setting \in Setting, NEW card \in Cards, team[card] \in Nat,
           NEW w \in Coverage, w.to <= Len(chart), ShortEnough(w, card), AnyRight(bounds)
    PROVE  MetaIn(chart, setting, card, w) <= bounds.any[card]
<1>1. DOMAIN chart = 1 .. Len(chart) /\ Len(chart) \in Nat
  BY ChartFacts
<1>2. w.from \in Nat /\ w.to \in Nat /\ bounds.any[card] \in Nat
  BY DEF Coverage, AnyRight
<1>3. CASE w.from + 1 \in DOMAIN chart
  <2>1. PICK n \in DOMAIN chart : n = w.from + 1
    BY <1>3
  <2>2. n \in Nat /\ chart[n].frame \in Nat
    BY <1>1, <2>1, ChartFacts
  <2>3. chart[n].frame + team[card] + 2 \in Int
    BY <2>2
  <2>4. AnyFrom(card, n) \in Coverage /\ AnyFrom(card, n).from = w.from
        /\ w.to <= AnyFrom(card, n).to
    <3>1. UpTo(chart, chart[n].frame + team[card] + 2) \in Nat
      BY <2>3, UpToSets
    <3>2. w.to <= UpTo(chart, chart[n].frame + team[card] + 2)
      BY <2>1 DEF ShortEnough
    <3>3. n - 1 \in Nat /\ n - 1 = w.from
      BY <1>2, <2>1
    <3> QED BY <3>1, <3>2, <3>3 DEF AnyFrom, Coverage
  <2>5. MetaIn(chart, setting, card, w) <= MetaIn(chart, setting, card, AnyFrom(card, n))
    BY <2>4, MetaGrows
  <2>6. MetaIn(chart, setting, card, AnyFrom(card, n)) <= bounds.any[card]
    BY <2>1 DEF AnyRight
  <2>7. /\ MetaIn(chart, setting, card, w) \in Nat
        /\ MetaIn(chart, setting, card, AnyFrom(card, n)) \in Nat
    BY <2>4, MetaNat
  <2> QED BY <1>2, <2>5, <2>6, <2>7
<1>4. CASE w.from + 1 \notin DOMAIN chart
  <2>1. Covered(w) = {}
    BY <1>1, <1>2, <1>4 DEF Covered
  <2>2. MetaIn(chart, setting, card, w) = 0
    BY <2>1, TotalEmpty DEF MetaIn
  <2> QED BY <1>2, <2>2
<1> QED BY <1>3, <1>4

(* What pruning believes before it knows an order holds of every order     *)
(* that is played (skill_meta_upper_values, optimistic_skill_meta_any_-    *)
(* window, native_possible_skill_notes): no skill adds more than the       *)
(* bounds of its card, and it covers only judgements that were thought     *)
(* possible, however many skills are queued.  For every chart, team,       *)
(* setting and set of durations.                                           *)
THEOREM BoundsSafe == QueueSpec => []BoundsHold
<1> DEFINE All == IInv /\ Walks /\ Song /\ Played
<1>1. QueueInit => All
  BY InitIInv, WalksStart, SongStart, PlayedStart DEF QueueInit
<1>2. All /\ [QueueNext]_queueVars => All'
  <2> SUFFICES ASSUME All, [QueueNext]_queueVars PROVE All'
    OBVIOUS
  <2>1. IInv' /\ Walks'
    BY QueueStep, InvKept, WalksKept
  <2>2. Song'
    BY SongStep
  <2>3. Played'
    BY PlayedStep
  <2> QED BY <2>1, <2>2, <2>3
<1>3. All => BoundsHold
  <2> SUFFICES ASSUME All, NEW a \in DOMAIN windows
               PROVE  /\ Meta(order[a], windows[a]) <= bounds.at[order[a]][a]
                      /\ Meta(order[a], windows[a]) <= bounds.any[order[a]]
                      /\ Covered(windows[a]) \subseteq bounds.notes
    BY DEF BoundsHold
  <2> DEFINE w == windows[a]
             card == order[a]
  <2>1. a \in 1 .. Len(order) /\ w \in Coverage /\ card \in Cards /\ a \in Activations
    BY SizeFacts DEF IInv, Progress, Played
  <2>2. Believed(bounds)
    <3>1. order # <<>>
      BY <2>1
    <3> QED BY <3>1 DEF Walks, Prepared, Song
  <2>3. chart \in Charts /\ team[card] \in Nat /\ setting \in Setting
    BY <2>1, DurationsFinite, ScoresAssumption DEF IInv, Inputs, Song
  <2>4. Meta(card, w) = MetaIn(chart, setting, card, w)
    BY MetaIs
  <2>5. SeenAt(w, a, card)
    BY <2>1 DEF Played, WindowsSeen
  <2>6. w \in PossibleWindows(card, a, QueueKind(Limit))
    BY WindowPossible
  <2> HIDE DEF w, card
  <2>7. MetaIn(chart, setting, card, w) <= bounds.at[card][a]
    BY <2>1, <2>2, <2>6 DEF Believed, AtRight
  <2>8. LatestEnd(a) \in Int
    <3>1. chart[nodeOf[a]].frame \in Nat /\ top \in Nat
      BY <2>1, <2>3, NodeFrame, DurationsFinite DEF Walks, Prepared, IInv, Inputs
    <3>2. \A b \in Activations : LatestOf(chart, nodeOf, top)[b - 1] \in Scheduler
      BY <2>3, <3>1, LatestTyped DEF Walks, Prepared
    <3>3. LatestOf(chart, nodeOf, top)[a - 1] \in Scheduler
      BY <2>1, <3>2
    <3> QED BY <3>1, <3>3, ScheduleEnd DEF LatestEnd
  <2>9. UpTo(chart, LatestEnd(a)) \in Nat /\ UpTo(chart, LatestEnd(a)) <= Len(chart)
        /\ Len(chart) \in Nat
    BY <2>3, <2>8, UpToSets, UpToLength, ChartFacts
  <2>10. nodeOf[a] <= w.from /\ w.to <= UpTo(chart, LatestEnd(a)) /\ ShortEnough(w, card)
    BY <2>5 DEF SeenAt
  <2>11. w.from \in Nat /\ w.to \in Nat /\ nodeOf[a] \in Nat
    BY <2>1, <2>3, NodeFrame DEF Coverage, Walks, Prepared
  <2>12. w.to <= Len(chart)
    BY <2>9, <2>10, <2>11
  <2>13. MetaIn(chart, setting, card, w) <= bounds.any[card]
    BY <2>1, <2>2, <2>3, <2>10, <2>12, ShortBelow DEF Believed
  <2>14. Covered(w) \subseteq bounds.notes
    <3>1. nodeOf[a] + 1 .. UpTo(chart, LatestEnd(a)) \subseteq bounds.notes
      BY <2>1, <2>2 DEF Believed, NotesRight
    <3>2. Covered(w) \subseteq nodeOf[a] + 1 .. UpTo(chart, LatestEnd(a))
      BY <2>9, <2>10, <2>11 DEF Covered
    <3> QED BY <3>1, <3>2
  <2> QED BY <2>4, <2>7, <2>13, <2>14 DEF w, card
<1> QED BY <1>1, <1>2, <1>3, PTL DEF QueueSpec

=============================================================================
