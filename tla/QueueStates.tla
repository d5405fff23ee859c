----------------------------- MODULE QueueStates -----------------------------
(***************************************************************************)
(* What the judgements of a chart score (crates/core, model/chart.rs,      *)
(* chart/native.rs and chart/compressed.rs), and the search for the best   *)
(* order of the five skills (queue/state.rs and assignment.rs).            *)
(*                                                                         *)
(* A judgement scores its share of the team's power times the combo,       *)
(* rounded down, and that times the multiplier of the skill in effect and  *)
(* of the fever, rounded down again.  So a score is no product: what a     *)
(* skill adds has to be summed over the judgements of its window.          *)
(*                                                                         *)
(* The sum is taken in two ways.  The plain one visits every judgement.    *)
(* The compressed one visits the runs of judgements of the same combo,     *)
(* which score the same without a skill; it is used when there is no       *)
(* fever.  A skill whose multiplier rises with every judgement it covers   *)
(* must be at the right place of its rise when a run starts inside its     *)
(* window.  Combos are percents, multipliers half percents: one step of a  *)
(* rising skill.                                                           *)
(*                                                                         *)
(* When skills queue one behind the other, a table of states replaces the  *)
(* scheduler: layer by layer the schedulers that some durations reach, of  *)
(* which those are merged that no continuation can tell apart.  A search   *)
(* over the cards used so far and the state of the table then finds the    *)
(* best order.  One integer per node holds the score and, below it, the    *)
(* order of the cards in digits, so that the maximum has the highest score *)
(* and among equal scores the first order.                                 *)
(*                                                                         *)
(* The walk of SkillQueue is followed in the table, and every order of the *)
(* cards it can play is compared with the order the search returned.       *)
(***************************************************************************)
EXTENDS SkillQueue, FiniteSetsExt, TLC

CONSTANTS Skills,    \* what the skill of every card does
          NoteShare, \* the share of a judgement in the power (native_base)
          Settings   \* the combo before a chart, medley or not, its fever

Once == 200          \* a multiplier of one
RateUpCap == 300     \* the most a rising skill adds

Skill == [up : Nat, rateup : BOOLEAN]
Setting == [combo : Nat, medley : BOOLEAN, fever : SUBSET Nat]

ASSUME ScoresAssumption ==
    /\ Skills \in [Cards -> Skill]
    /\ NoteShare \in Nat \ {0}
    /\ \A s \in Settings : s \in Setting

(* The cards are numbered, as in the team's array.                         *)
ASSUME CardsAssumption == IsFiniteSet(Cards) /\ Cards = 1 .. Cardinality(Cards)

(* Windows that are longer than the longest duration have no bound.        *)
ASSUME LimitAssumption == Limit \in Durations

VARIABLES
    setting, \* the setting of the chart
    state,   \* the state of the table that the walk has reached
    seed,    \* the order that is kept if no other is better
    answer,  \* what the search returned
    nodeOf,  \* the judgements that trigger the activations (skill_node_indices)
    machine, \* the table of states of the chart
    gains,   \* what the skills add over the windows that orders can give them
    bounds,  \* what pruning believes them to add at most
    points,  \* the score of the judgements played so far
    rise     \* how many of them the skill in effect has covered

prepared == <<setting, nodeOf, machine, gains, bounds, seed, answer>>

queueVars == <<vars, prepared, state, points, rise>>

Size == Cardinality(Cards)

Activations == 1 .. Size + 1

(* An order of the skills: the cards one after another, then the captain.  *)
Orders == {o \in [Activations -> Cards] :
             \A a, b \in 1 .. Size : a # b => o[a] # o[b]}

SkillNodeIndices ==
    [a \in Activations |->
        CHOOSE n \in DOMAIN chart :
            chart[n].skill /\ Cardinality({m \in 1 .. n : chart[m].skill}) = a]

(* A chart has a skill for every activation: any other count is an error,  *)
(* and no table is made for it.                                            *)
ASSUME SkillsAssumption ==
    \A c \in Charts : Cardinality({n \in DOMAIN c : c[n].skill}) = Size + 1

-----------------------------------------------------------------------------
(* One judgement.                                                          *)

CeilDiv(m, n) == (m + n - 1) \div n

(* get_combo_mod *)
ComboMod(combo, medley) ==
    IF combo <= 20 THEN 100
    ELSE IF combo <= 300 THEN 100 + CeilDiv(combo, 50)
    ELSE IF combo <= 700 \/ (medley /\ combo <= 3000) THEN 103 + CeilDiv(combo, 100)
    ELSE IF medley THEN 134 ELSE 111

ComboAt(n) == ComboMod(setting.combo + n, setting.medley)

FeverAt(n) == IF chart[n].frame \in setting.fever THEN 2 ELSE 1

First(n) == (NoteShare * ComboAt(n)) \div 100

Settle(first, multiplier, fever) == (first * multiplier * fever) \div Once

(* The multiplier of the k-th judgement that a card's skill covers.  A     *)
(* skill that adds more than the cap does not rise.                        *)
Multiplier(card, k) ==
    LET s == Skills[card]
    IN  Once + s.up + IF s.rateup /\ s.up <= RateUpCap
                      THEN Min({k, RateUpCap - s.up}) ELSE 0

-----------------------------------------------------------------------------
(* What a skill adds over the window w.                                    *)

Covered(w) == w.from + 1 .. w.to

PlainDelta(card, w) ==
    MapThenSumSet(LAMBDA n : Settle(First(n), Multiplier(card, n - w.from), FeverAt(n))
                             - Settle(First(n), Once, FeverAt(n)),
                  Covered(w))

(* The runs of judgements of one combo (push_run).                         *)
ComboRuns ==
    LET starts == {n \in DOMAIN chart : n = 1 \/ ComboAt(n) # ComboAt(n - 1)}
    IN  {[from |-> n,
          to |-> Min({m - 1 : m \in {k \in starts : k > n}} \cup {Len(chart)})] : n \in starts}

(* The judgements of run r in a window; a rising skill is counted from the *)
(* start of the window, any other one once for the run.                    *)
RunDeltaRestarted(r, card, w) ==
    LET start == Max({r.from, w.from + 1})
        end == Min({r.to, w.to})
        base == First(r.from)
    IN  IF Skills[card].rateup
        THEN MapThenSumSet(LAMBDA n : Settle(base, Multiplier(card, n - start + 1), 1) - base,
                           start .. end)
        ELSE (Settle(base, Multiplier(card, 1), 1) - base) * (end - start + 1)

RunDelta(r, card, w) ==
    LET start == Max({r.from, w.from + 1})
        end == Min({r.to, w.to})
        base == First(r.from)
    IN  IF Skills[card].rateup
        THEN MapThenSumSet(LAMBDA n : Settle(base, Multiplier(card, n - w.from), 1) - base,
                           start .. end)
        ELSE (Settle(base, Multiplier(card, 1), 1) - base) * (end - start + 1)

CompressedDelta(card, w) ==
    MapThenSumSet(LAMBDA r : RunDelta(r, card, w), {r \in ComboRuns : r.to > w.from /\ r.from <= w.to})

Compressed == setting.fever = {}

(* Of equal skills only the first is summed up, its row is copied.         *)
SameSkill(card, other) ==
    team[card] = team[other] /\ Skills[card] = Skills[other]

RowOf(card) == Min({other \in Cards : other <= card /\ SameSkill(card, other)})

Delta(card, w) ==
    IF w.from >= w.to THEN 0
    ELSE IF Compressed THEN CompressedDelta(RowOf(card), w)
    ELSE PlainDelta(RowOf(card), w)

(* The score without any skill, by runs or by judgements.                  *)
Base ==
    IF Compressed
    THEN MapThenSumSet(LAMBDA r : First(r.from) * (r.to - r.from + 1), ComboRuns)
    ELSE MapThenSumSet(LAMBDA n : Settle(First(n), Once, FeverAt(n)), DOMAIN chart)

-----------------------------------------------------------------------------
(* The same without rounding, in some unit: an estimate, and the measure   *)
(* by which skills are compared before any power is known.                 *)
Meta(card, w) ==
    MapThenSumSet(LAMBDA n : ComboAt(n) * FeverAt(n) * (Multiplier(card, n - w.from) - Once),
                  Covered(w))

(* optimistic_skill_meta_any_window: the best the skill could do from any  *)
(* judgement on, for the time it lasts at most, frame rates included.      *)
AnyWindow(card) ==
    Max({0} \cup
        {Meta(card, [from |-> n - 1, to |-> UpTo(chart, chart[n].frame + team[card] + 2)]) :
            n \in DOMAIN chart})

-----------------------------------------------------------------------------
(* The best order when no window depends on another skill.                 *)

(* The cards for the first activations, by the sets of cards they may be;  *)
(* between equal values the highest card comes last (skill_assignment.rs). *)
Assignment(value) ==
    LET best[S \in SUBSET Cards] ==
            IF S = {} THEN [value |-> 0, order |-> <<>>]
            ELSE LET at(card) == best[S \ {card}].value + value[card][Cardinality(S)]
                     last == CHOOSE card \in S : \A other \in S :
                                \/ at(other) < at(card)
                                \/ at(other) = at(card) /\ other <= card
                 IN  [value |-> at(last), order |-> Append(best[S \ {last}].order, last)]
    IN  best[Cards]

(* The captain plays last; between equal values the lowest card.           *)
CaptainAmong(value) ==
    LET p == Cardinality(Cards) + 1
    IN  CHOOSE card \in Cards : \A other \in Cards :
            \/ value[other][p] < value[card][p]
            \/ value[other][p] = value[card][p] /\ card <= other

BestAssignment(value) ==
    LET captain == CaptainAmong(value)
    IN  [value |-> Assignment(value).value + value[captain][Cardinality(Cards) + 1],
         order |-> Append(Assignment(value).order, captain)]

-----------------------------------------------------------------------------
(* The table (QueueStateMachine::new).                                     *)

(* The schedulers that can be reached before every activation.             *)
Successors(S, a) ==
    {After(Schedule(s, chart[nodeOf[a]].frame, d)) : s \in S, d \in Durations}

RawStates ==
    LET raw[a \in Activations] ==
            IF a = 1 THEN {Fresh} ELSE Successors(raw[a - 1], a - 1)
    IN  raw

(* States are merged if every duration gives them the same window AND the  *)
(* same merged successor.                                                  *)
SameWindows(r, s) == \A d \in Durations : r[d].window = s[d].window

SameRow(r, s) ==
    \A d \in Durations : r[d].window = s[d].window /\ r[d].next = s[d].next

(* The row of a state: for every duration the window and, when the next    *)
(* layer is merged, the successor.                                         *)
Row(after, a, s) ==
    [d \in Durations |->
        LET w == Schedule(s, chart[nodeOf[a]].frame, d)
        IN  [window |-> WindowRange(chart, nodeOf[a], w),
             next   |-> IF a = Size + 1 THEN Fresh ELSE after.representative[After(w)]]]

(* The choice of f from {f} makes TLC compute the function once.           *)
Tabulated(f) == CHOOSE g \in {f} : g = f

(* The rows of all the states, and for each the state that represents it.  *)
Layer(after, a, S) ==
    LET rows == Tabulated([s \in S |-> Tabulated(Row(after, a, s))])
    IN  [rows |-> rows,
         representative |->
            Tabulated([s \in S |-> CHOOSE r \in S : SameRow(rows[r], rows[s])])]

(* Layer by layer from the last one.                                       *)
Merged(raw) ==
    LET layer[a \in 1 .. Size + 2] ==
            IF a = Size + 2
            THEN [rows |-> <<>>, representative |-> <<>>]
            ELSE Layer(layer[a + 1], a, raw[a])
    IN  layer

Machine == LET layers == Merged(RawStates)
           IN  [a \in Activations |-> layers[a].rows]

-----------------------------------------------------------------------------
(* The kind of a chart before it is played (skill_queue_kind).             *)
Schedulers(d) ==
    LET after[a \in 0 .. Size + 1] ==
            IF a = 0 THEN Fresh
            ELSE After(Schedule(after[a - 1], chart[nodeOf[a]].frame, d))
    IN  after

QueuedAt(d) ==
    {a \in Activations : Queued(Schedulers(d)[a - 1], chart[nodeOf[a]].frame)}

QueueKind(d) ==
    LET queued == QueuedAt(d)
    IN  IF ~Warned(chart) \/ queued = {} THEN "none"
        ELSE IF \E a \in queued : a + 1 \in queued THEN "chain" ELSE "single"

(* Whether any two neighbours may overlap (team_skills_may_overlap).       *)
MayOverlap(d) ==
    /\ Warned(chart)
    /\ \E a \in 1 .. Size :
          chart[nodeOf[a + 1]].frame - chart[nodeOf[a]].frame <= d + 47

-----------------------------------------------------------------------------
(* Bounds for pruning.                                                     *)

(* The judgements that some skill may cover: from every trigger on to the  *)
(* end that its skill has when all skills are as long as the longest.      *)
PossibleUndelayed(d) ==
    UNION {Covered(OrdinaryWindow(chart, nodeOf[a], d)) : a \in Activations}

PossibleNotes(d) ==
    UNION {LET n == nodeOf[a]
               latest == Schedule(Schedulers(d)[a - 1], chart[n].frame, d)
           IN  n + 1 .. UpTo(chart, latest.end) : a \in Activations}

(* The windows of a skill at activation a behind any predecessor, and in   *)
(* any state of the table.                                                 *)
WindowsBehind(a, duration) ==
    IF a = 1 THEN {OrdinaryWindow(chart, nodeOf[a], duration)}
    ELSE {PredecessorWindow(chart, nodeOf[a - 1], d, nodeOf[a], duration) :
            d \in Durations}

WindowsInTable(a, duration) == {machine[a][s][duration].window : s \in DOMAIN machine[a]}

(* What every skill adds over every window that is asked for, exactly and  *)
(* without rounding, computed once (the matrices of scores and the rows of *)
(* the states).                                                            *)
AskedWindows ==
    UNION {WindowsBehind(a, d) \cup WindowsInTable(a, d)
             \cup {OrdinaryWindow(chart, nodeOf[a], d)} : a \in Activations, d \in Durations}

Gains == [w \in AskedWindows |->
            [card \in Cards |-> [score |-> Delta(card, w), meta |-> Meta(card, w)]]]

(* The most a card's skill adds at activation a, without rounding, where   *)
(* skills of the longest possible duration queue like that.                *)
MetaUpperOfPairs(card, a, queue) ==
    Max({0} \cup {gains[w][card].meta : w \in WindowsBehind(a, team[card])})

MetaUpper(card, a, queue) ==
    LET possible ==
            CASE queue = "none" -> {OrdinaryWindow(chart, nodeOf[a], team[card])}
              [] queue = "single" -> WindowsBehind(a, team[card])
              [] queue = "chain" -> WindowsInTable(a, team[card])
    IN  Max({0} \cup {gains[w][card].meta : w \in possible})

Bounds ==
    LET queue == QueueKind(Limit)
    IN  [at    |-> [card \in Cards |-> [a \in Activations |-> MetaUpper(card, a, queue)]],
         any   |-> [card \in Cards |-> AnyWindow(card)],
         notes |-> PossibleNotes(top)]

-----------------------------------------------------------------------------
Digit == Size + 1

(* The weight of the digit of activation a, the first one highest; in the  *)
(* code three bits per activation.                                         *)
WeightReversed(a) == Digit ^ (a - 1)

Weight(a) == Digit ^ (Size + 1 - a)

Scale == Digit ^ (Size + 1)

(* Unpacking: the score is the ceiling, the digits are what is missing.    *)
ScoreOf(best) == (best + Scale - 1) \div Scale

OrderOf(best) ==
    LET path == ScoreOf(best) * Scale - best
    IN  [a \in Activations |-> (path \div Weight(a)) % Digit]

Highest(S) == CHOOSE x \in S : \A y \in S : y <= x

(* The cards that may be used for activation a.                            *)
Free(a, used) == IF a = Size + 1 THEN Cards ELSE Cards \ used

(* StateSkillScores::maximum over the nodes of TeamPlan.                   *)
BestFrom ==
    LET best[a \in Activations] ==
            [used \in SUBSET Cards |-> [s \in DOMAIN machine[a] |->
                Highest({LET edge == machine[a][s][team[card]]
                         IN  gains[edge.window][card].score * Scale - card * Weight(a)
                             + IF a = Size + 1 THEN 0
                               ELSE best[a + 1][used \cup {card}][edge.next] :
                         card \in Free(a, used)})]]
    IN  best[1]

(* assignment.rs: the windows depend on the predecessor, 0 for none.       *)
PairWindow(a, before, card) ==
    IF before = 0
    THEN OrdinaryWindow(chart, nodeOf[a], team[card])
    ELSE PredecessorWindow(chart, nodeOf[a - 1], team[before],
                           nodeOf[a], team[card])

BestAfter ==
    LET best[a \in Activations] ==
            [used \in SUBSET Cards |-> [before \in Cards \cup {0} |->
                Highest({gains[PairWindow(a, before, card)][card].score * Scale
                         - card * Weight(a)
                         + IF a = Size + 1 THEN 0 ELSE best[a + 1][used \cup {card}][card] :
                         card \in Free(a, used)})]]
    IN  best[1]

(* The independent matrix: every window on its own, by card and            *)
(* activation.                                                             *)
AloneMatrix ==
    [card \in Cards |-> [a \in Activations |-> gains[PairWindow(a, 0, card)][card].score]]

InMatrix(matrix, o) == FoldFunction(+, 0, [a \in Activations |-> matrix[o[a]][a]])

(* get_max_meta_order: the best order by the windows without rounding.     *)
MaxMetaOrder ==
    BestAssignment([card \in Cards |->
        [a \in Activations |-> gains[PairWindow(a, 0, card)][card].meta]]).order

(* StateSkillScores::score and maximum: a seed that ties is kept.          *)
InMachine(o) ==
    LET reached[a \in 0 .. Size + 1] ==
            IF a = 0 THEN Fresh
            ELSE machine[a][reached[a - 1]][team[o[a]]].next
    IN  FoldFunction(+, 0, [a \in Activations |->
            gains[machine[a][reached[a - 1]][team[o[a]]].window][o[a]].score])

Packed(best) == [score |-> Base + ScoreOf(best), order |-> OrderOf(best)]

(* get_max_score_order_from_exact_windows: a seed that ties is kept by the *)
(* table and by the independent matrix (max_order), not by the pairs.      *)
SearchAlone(start) ==
    LET best == BestAssignment(AloneMatrix)
    IN  [score |-> Base + best.value,
         order |-> IF InMatrix(AloneMatrix, start) = best.value THEN start ELSE best.order]

SearchPairs(start) == Packed(BestAfter[{}][0])

SearchStates(start) ==
    LET found == Packed(BestFrom[{}][Fresh])
    IN  IF Base + InMachine(start) = found.score
        THEN [found EXCEPT !.order = start] ELSE found

Search(start) ==
    IF ~MayOverlap(top) THEN SearchAlone(start)
    ELSE IF QueueKind(top) = "single" THEN SearchPairs(start)
    ELSE SearchStates(start)

-----------------------------------------------------------------------------
(* What is computed before any order is played, each from what is there.   *)
BuildMachine ==
    /\ machine = <<>>
    /\ machine' = Machine
    /\ UNCHANGED <<vars, setting, nodeOf, gains, bounds, seed, answer, state, points, rise>>

BuildGains ==
    /\ machine # <<>> /\ gains = <<>>
    /\ gains' = Gains
    /\ UNCHANGED <<vars, setting, nodeOf, machine, bounds, seed, answer, state, points, rise>>

BuildBounds ==
    /\ gains # <<>> /\ bounds = <<>>
    /\ bounds' = Bounds
    /\ seed' = MaxMetaOrder
    /\ UNCHANGED <<vars, setting, nodeOf, machine, gains, answer, state, points, rise>>

FindAnswer ==
    /\ bounds # <<>> /\ answer = <<>>
    /\ answer' = Search(seed)
    /\ UNCHANGED <<vars, setting, nodeOf, machine, gains, bounds, seed, state, points, rise>>

Prepare == BuildMachine \/ BuildGains \/ BuildBounds \/ FindAnswer

NothingPrepared ==
    /\ nodeOf = SkillNodeIndices
    /\ machine = <<>> /\ gains = <<>> /\ bounds = <<>> /\ seed = <<>> /\ answer = <<>>
    /\ state = Fresh
    /\ points = 0 /\ rise = 0

QueueInit == Init /\ setting \in Settings /\ NothingPrepared

(* A judgement is scored under the skill in effect; a rising skill rises   *)
(* with every judgement from its start on (native_score_notes).            *)
RiseNow == IF ActiveNow = active THEN rise + 1 ELSE 1

PointsNow ==
    points + Settle(First(i),
                    IF ActiveNow = 0 THEN Once ELSE Multiplier(order[ActiveNow], RiseNow),
                    FeverAt(i))

QueuePlay ==
    /\ answer # <<>>
    /\ Play
    /\ points' = PointsNow
    /\ rise' = RiseNow
    /\ UNCHANGED <<state, prepared>>

QueueTrigger(card) ==
    /\ answer # <<>>
    /\ MayTrigger(card) /\ Trigger(card)
    /\ state' = machine[Len(order) + 1][state][team[card]].next
    /\ points' = PointsNow
    /\ rise' = IF active' = ActiveNow THEN RiseNow ELSE 0
    /\ UNCHANGED prepared

QueueNext == Prepare \/ QueuePlay \/ \E card \in Cards : QueueTrigger(card)

QueueSpec == QueueInit /\ [][QueueNext]_queueVars

-----------------------------------------------------------------------------
(* The table is exact (test minimized_states_preserve_all_duration_-       *)
(* transitions, for every sequence of skills): the window it gives an      *)
(* activation is the scheduler's, though states were merged on the way.    *)
MachineExact ==
    [][order' # order =>
          LET a == Len(order')
          IN  machine[a][state][team[order'[a]]].window = windows'[a]]_queueVars

Finished == i = Len(chart) + 1

(* o comes before p in the order of their first different card.            *)
Before(o, p) == \E a \in Activations :
                   o[a] < p[a] /\ \A b \in 1 .. a - 1 : o[b] = p[b]

(* The search is exact (chart.rs, get_max_score_order_from_exact_windows,  *)
(* against get_score): no order that is played judgement by judgement      *)
(* scores more than its answer, its answer scores what it says when it is  *)
(* played, and among the best orders the packed search returns the first,  *)
(* unless the seed was as good (queue.rs, test packed_assignment_-         *)
(* preserves_optimum_and_lexicographic_ties).  So the windows, the runs of *)
(* equal combo, the rise inside a window and the packing all agree with    *)
(* the play.                                                               *)
SearchIsBest ==
    Finished =>
        /\ points <= answer.score
        /\ order = answer.order => points = answer.score
        /\ kind # "none" /\ points = answer.score
              => \/ ~Before(order, answer.order)
                 \/ kind = "chain" /\ answer.order = seed

(* What pruning believes before it knows an order (skill_meta_upper_values *)
(* and optimistic_skill_meta_any_window, native_possible_skill_notes): no  *)
(* skill that is played adds more than the bound of its card at that       *)
(* activation or at any window, and it covers only judgements that were    *)
(* thought possible, however many skills are queued.                       *)
BoundsHold ==
    Finished =>
        \A a \in DOMAIN windows :
            LET estimate == Meta(order[a], windows[a])
            IN  /\ estimate <= bounds.at[order[a]][a]
                /\ estimate <= bounds.any[order[a]]
                /\ Covered(windows[a]) \subseteq bounds.notes
=============================================================================
