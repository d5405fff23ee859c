----------------------------- MODULE EventSearch -----------------------------
(***************************************************************************)
(* The search for the team with the most event points in one song          *)
(* (pt_maximize/search.rs and distribution.rs), which works through        *)
(* combinations of items and modes like the search for the highest score   *)
(* (SingleSearch), but keeps one best team over all of them and passes     *)
(* over a mode whose bound cannot beat it.                                 *)
(*                                                                         *)
(* Skills come in a random order: where a card is shown decides how often  *)
(* it comes at which place (SkillShuffle), and a team counts by its       *)
(* average points, then its average score.  Points are a product: a fixed  *)
(* score and the team's score, times one plus the bonuses of the team.  A  *)
(* card may be replaced by one whose product is no lower for the lowest    *)
(* and for the highest bonus of the teammates.  In a cooperative live a    *)
(* team is a captain and four fillers: only the captain plays, beside four *)
(* other players, and the fillers count by power and bonus alone.  Events  *)
(* that put the bonus into the power of cards have cards of bonus 0, for   *)
(* which the products compare like the scores (TeamPrune).                 *)
(*                                                                         *)
(* Left out: the tie of equal points and scores, which goes to the lower   *)
(* card ids; charts on which skills queue; and the caches.                 *)
(***************************************************************************)
EXTENDS SingleSearch, EventPoints, SkillShuffle

CONSTANTS Requests,        \* the requests
          OtherShare,      \* scores of other players count for a tenth: 10
          FeverWeight, FeverBase   \* values of the chart with its fever section

ASSUME OtherShareAssumption == OtherShare \in Nat \ {0}

ASSUME FeverAssumption ==
    FeverWeight \in [Durations -> [1 .. Captain -> Nat]] /\ FeverBase \in Nat

VARIABLES request,   \* the request, None for a search by score
          found      \* the value of the best team so far

eventVars == <<vars, request, found>>

-----------------------------------------------------------------------------
(* Which cards are left out (single/candidate.rs, single/dominance.rs and  *)
(* team_prune with a point bonus).                                         *)

Lowest(n, values) == Min(Sums(n, values))
Highest(n, values) == Max(Sums(n, values))

(* What TeamSize - 1 cards of different characters give, at least and at    *)
(* most (four_card_bonus_bounds).                                           *)
BonusRange(cards, m) ==
    LET allowed == Allowed(cards, m)
        bonus == [c \in allowed |-> c.bonus]
    IN  IF Cardinality(Characters(allowed)) < TeamSize - 1
        THEN [low |-> 0, high |-> 0]
        ELSE [low |-> Lowest(TeamSize - 1, LowestOf(allowed, bonus)),
              high |-> Highest(TeamSize - 1, HighestOf(allowed, bonus))]

(* What is fixed while cards are dropped: the mode, the combination of      *)
(* items, the bonuses of teammates, the score that the fixed points are     *)
(* worth, whether there is a least power, and in a cooperative live the     *)
(* other players (None: the team's own skills).                             *)
Setting(r, m, i) ==
    [mode |-> m, item |-> i,
     bonus |-> BonusRange(r.cards, m),
     fixed |-> Rule[r.event].fixed * Rule[r.event].divisor * Unit,
     keepPower |-> r.minimum # None,
     players |-> r.players]

PlayerMeta(player, place) == Weight[player.duration][place] * player.scoreUp

(* The other players' skills in the places the captain's leaves free        *)
(* (fixed_teammate_meta_bounds_for_chart).                                  *)
PlayerSkills(players) ==
    LET mates == DOMAIN players
        places == {f \in [mates -> Places] : \A i, j \in mates : i # j => f[i] # f[j]}
        normal(f) == MapThenSumSet(LAMBDA i : PlayerMeta(players[i], f[i]), mates)
        all == {normal(f) : f \in places}
        coupled == {normal(f) + PlayerMeta(players[i], Captain) : f \in places, i \in mates}
    IN  [normal |-> [low |-> Min(all), high |-> Max(all)],
         withCaptain |-> [low |-> Min(coupled), high |-> Max(coupled)]]

(* The other players' power, as far as their scores count                   *)
(* (cooperative_teammate_effective_stat).                                   *)
EffectivePower(players) ==
    MapThenSumSet(LAMBDA i : players[i].power, DOMAIN players) \div OtherShare

(* build_signature_context_bounds. *)
EventTeammates(cards, setting) ==
    IF setting.players = None THEN Teammates(cards, setting.mode, setting.item)
    ELSE LET power == [c \in cards |-> c.power[setting.item]]
             other == EffectivePower(setting.players)
             skills == PlayerSkills(setting.players)
         IN  [power |-> [low |-> other + Lowest(TeamSize - 1, LowestOf(cards, power)),
                         high |-> other + Highest(TeamSize - 1, HighestOf(cards, power))],
              normal |-> skills.normal, withCaptain |-> skills.withCaptain]

(* same_shape_prefilter. *)
EventPrefilter(cards, m, i) ==
    LET allowed == Allowed(cards, m)
    IN  {c \in allowed : ~ \E d \in allowed \ {c} :
            ShapeDominates(d, c, m, i) /\ d.bonus >= c.bonus}

(* What multiplies the points of a team with card c (point_bonus_scaled_model). *)
Multiplier(c, matesBonus) == Whole + (c.bonus + matesBonus) \div Micros

(* The least difference of the two products, without what the teammates     *)
(* score among themselves (contribution_min_margin).                        *)
ProductMargin(l, r, setting, role, mates, bonus) ==
    LET skills == IF role.captain THEN mates.normal ELSE mates.withCaptain
        ml == Multiplier(l, bonus)
        mr == Multiplier(r, bonus)
        pl == l.power[setting.item]
        pr == r.power[setting.item]
        vl == RoleMeta(l, setting.mode, role)
        vr == RoleMeta(r, setting.mode, role)
        power == pl * ml - pr * mr
        meta == vl * ml - vr * mr
        x == Base + (IF power >= 0 THEN skills.low ELSE skills.high)
        y == IF meta >= 0 THEN mates.power.low ELSE mates.power.high
    IN  power * x + meta * y + (pl * vl + setting.fixed) * ml - (pr * vr + setting.fixed) * mr

(* What rounding can take from the difference (rounding_budget); the other  *)
(* players' scores are rounded as well.                                     *)
ProductBudget(l, r, setting) ==
    LET own == IF l.bonus >= r.bonus THEN l.bonus ELSE r.bonus
        scores == IF setting.players = None THEN RoundingBudget
                  ELSE RoundingBudget + DivCeil((TeamSize - 1) * RoundingBudget, OtherShare)
    IN  scores * (Whole + (own + setting.bonus.high) \div Micros)

(* card_can_replace_with_models; the difference is linear in the bonus of   *)
(* the teammates, so its ends decide (joint_point_bonus_endpoints).         *)
ProductDominates(l, r, setting, mates) ==
    LET margins == {ProductMargin(l, r, setting, role, mates, bonus) - ProductBudget(l, r, setting) :
                        role \in Roles, bonus \in {setting.bonus.low, setting.bonus.high}}
    IN  /\ setting.keepPower => l.power[setting.item] >= r.power[setting.item]
        /\ \A m \in margins : m >= 0
        /\ (\E m \in margins : m > 0) \/ l.id < r.id

(* The cards of the pool that can replace card t. *)
EventDominators(t, cards, setting, mates) ==
    {d \in cards \ {t} :
        \/ HardDominates(d, t, setting.mode, setting.item) /\ d.bonus >= t.bonus
        \/ EnoughTeammates(cards) /\ ProductDominates(d, t, setting, mates)}

(* same_shape_contribution_active_indices_with_dominance. *)
EventSameShape(cards, setting) ==
    LET mates == EventTeammates(cards, setting)
    IN  {t \in cards : ~ \E d \in EventDominators(t, cards, setting, mates) :
            d.character = t.character /\ d.duration = t.duration}

EventSameCharacterSurvivors(cards, setting) ==
    LET mates == EventTeammates(cards, setting)
    IN  {t \in cards : \A d \in EventDominators(t, cards, setting, mates) :
                            d.character # t.character}

EventCrossCharacterSurvivors(cards, setting) ==
    LET mates == EventTeammates(cards, setting)
    IN  {t \in cards : ~ Covered(t, EventDominators(t, cards, setting, mates), cards, setting.mode)}

(* One pass of signature_active_card_indices. *)
EventPass(cards, setting) ==
    EventCrossCharacterSurvivors(EventSameCharacterSurvivors(cards, setting), setting)

(* filler_pruned_card_indices: power and bonus within a character. *)
FillerPool(cards, m, i) ==
    LET allowed == Allowed(cards, m)
    IN  {c \in allowed : ~ \E d \in allowed \ {c} :
            /\ d.character = c.character
            /\ d.power[i] >= c.power[i] /\ d.bonus >= c.bonus
            /\ d.power[i] > c.power[i] \/ d.bonus > c.bonus \/ d.id < c.id}

-----------------------------------------------------------------------------
(* Charts, points and values.                                              *)

Plain == [base |-> Base, weight |-> Weight]
WithFever == [base |-> FeverBase, weight |-> FeverWeight]

ChartOf(live) == IF live \in {"festival", "cooperative"} THEN WithFever ELSE Plain

SkillValue(chart, s, place) == chart.weight[s.duration][place] * s.scoreUp

BestNormal(chart, s) == Max({SkillValue(chart, s, p) : p \in Places})

(* The score of a power with skills in an order, the captain's at the end.  *)
PlayScore(chart, power, order, captain) ==
    Part(power * chart.base) + Part(power * SkillValue(chart, captain, Captain))
      + MapThenSumSet(LAMBDA p : Part(power * SkillValue(chart, order[p], p)), Places)

TeamPoints(score, bonus) == PointsFor(request.event, score, BasisPoints(bonus), request.support)

(* cooperative_points. *)
CooperativePoints(personal, total, bonus) ==
    LET rule == Rule[request.event]
        inner == rule.fixed + personal \div rule.divisor
                   + (total - personal) \div (OtherShare * rule.divisor)
    IN  ApplyPointBonus(inner, BasisPoints(bonus)) + (IF rule.supported THEN request.support ELSE 0)

(* A value is the sums of points and scores over count plays; averages are  *)
(* compared as fractions (better, summary_better).                          *)
BetterValue(a, b) ==
    \/ b = None
    \/ a.points * b.count > b.points * a.count
    \/ a.points * b.count = b.points * a.count /\ a.score * b.count > b.score * a.count

BestOf(values, best0) ==
    FoldSet(LAMBDA v, b : IF BetterValue(v, b) THEN v ELSE b, best0, values)

(* Whether a team with these bounds can be better: by points, or with the   *)
(* same points by score.                                                    *)
CanBeat(score, bonus, value) ==
    LET points == TeamPoints(score, bonus)
    IN  value # None =>
            \/ points * value.count > value.points
            \/ points * value.count = value.points /\ score * value.count > value.score

BelowOrAtAverage(points, value) == value # None /\ points * value.count <= value.points

BelowAverage(points, value) == value # None /\ points * value.count < value.points

-----------------------------------------------------------------------------
(* A team that plays its own skills (native_full_team_summary).            *)

(* A card with its power and the value of its skill in the mode. *)
EventCard(c, m, i) ==
    [id |-> c.id, character |-> c.character, power |-> c.power[i], bonus |-> c.bonus,
     duration |-> c.duration, scoreUp |-> ScoreUp(c, m)]

SumOf(cards, values) == MapThenSumSet(LAMBDA c : values[c], cards)

PowerOf(cards) == MapThenSumSet(LAMBDA c : c.power, cards)
TeamBonus(cards) == MapThenSumSet(LAMBDA c : c.bonus, cards)

PowerSuffices(power) == request.minimum # None => power >= request.minimum

(* meta_score_upper_bound_cached: the best order and the best captain.      *)
LeafUpper(team, chart) ==
    LET orders == {f \in [Places -> team] : \A p, q \in Places : p # q => f[p] # f[q]}
        normal == Max({MapThenSumSet(LAMBDA p : SkillValue(chart, f[p], p), Places) : f \in orders})
        captain == Max({SkillValue(chart, c, Captain) : c \in team})
    IN  ScoreUpper(PowerOf(team), chart.base + normal + captain)

(* The layouts of a team, each with the sums over the orders it leads to    *)
(* (weighted_layout_subset_summary); layout[p] is the card shown at p.      *)
LayoutValues(team, chart) ==
    LET layouts == DisplayLayouts(team)
        score == [f \in layouts, c \in team |-> PlayScore(chart, PowerOf(team), f, c)]
        points == [f \in layouts, c \in team |-> TeamPoints(score[f, c], TeamBonus(team))]
        total(f, values) == MapThenSumSet(LAMBDA turn :
                                ShuffleWeight[turn] * values[OrderOf(f, turn), f[CaptainSlot]], Turns)
    IN  [best |-> {[points |-> total(f, points), score |-> total(f, score),
                    count |-> PathCount] : f \in layouts},
         highest |-> Max({score[f, c] : f \in layouts, c \in team})]

(* evaluate_selected_team. *)
EvaluateTeam(team, best0) ==
    LET chart == ChartOf(request.live)
        bonus == TeamBonus(team)
        values == LayoutValues(team, chart)
    IN  IF \/ ~ PowerSuffices(PowerOf(team))
           \/ BelowAverage(TeamPoints(LeafUpper(team, chart), bonus), best0)
           \/ BelowAverage(TeamPoints(values.highest, bonus), best0)
        THEN best0
        ELSE BestOf(values.best, best0)

(* prune_same_skill_dominated_cards. *)
PruneSameSkill(cards) ==
    {c \in cards : ~ \E d \in cards \ {c} :
        /\ d.duration = c.duration /\ d.scoreUp = c.scoreUp
        /\ d.power >= c.power /\ d.bonus >= c.bonus
        /\ d.power > c.power \/ d.bonus > c.bonus \/ d.id < c.id}

RECURSIVE InOrder(_, _)
InOrder(cards, key) ==
    IF cards = {} THEN <<>>
    ELSE LET first == CHOOSE c \in cards : \A d \in cards : key[c] <= key[d]
         IN  <<first>> \o InOrder(cards \ {first}, key)

(* resolve_role_card_groups: characters in order, their cards in order. *)
SkillGroups(cards, m, i) ==
    LET resolved == {EventCard(c, m, i) : c \in cards}
        ids == [c \in resolved |-> c.id]
        group(h) == InOrder(PruneSameSkill({c \in resolved : c.character = h}), ids)
        heads == Characters(cards)
    IN  [n \in 1 .. Cardinality(heads) |-> group(InOrder(heads, [h \in heads |-> h])[n])]

(* The n highest of the groups' best cards, whatever the card               *)
(* (CharacterModeUpper, suffix_bounds).                                     *)
HighestOver(groups, n, values) ==
    HighestSum(n, {<<Max({values[c] : c \in ToSet(groups[g])}), g>> : g \in DOMAIN groups})

UpperOver(selected, groups, best0) ==
    LET needed == TeamSize - Cardinality(selected)
        left == selected \cup UNION {ToSet(groups[g]) : g \in DOMAIN groups}
        metas == [c \in left |-> BestNormal(Plain, c)]
        power == PowerOf(selected) + HighestOver(groups, needed, [c \in left |-> c.power])
        bonus == TeamBonus(selected) + HighestOver(groups, needed, [c \in left |-> c.bonus])
        normal == SumOf(selected, metas) + HighestOver(groups, needed, metas)
        captain == Max({SkillValue(Plain, c, Captain) : c \in left})
    IN  PowerSuffices(power)
        /\ CanBeat(ScoreUpper(power, Base + normal + captain), bonus, best0)

(* branch_meta_can_beat. *)
BranchCanBeat(selected, groups, best0) ==
    best0 = None \/ request.live = "festival" \/ UpperOver(selected, groups, best0)

(* enumerate_teams: cards of different groups, in the order of the groups.  *)
RECURSIVE EnumerateTeams(_, _, _)
EnumerateTeams(groups, selected, best0) ==
    LET needed == TeamSize - Cardinality(selected)
        rest(g) == SubSeq(groups, g + 1, Len(groups))
        tries == FlattenSeq([g \in 1 .. Len(groups) - needed + 1 |->
                    [n \in DOMAIN groups[g] |-> [card |-> groups[g][n], group |-> g]]])
    IN  IF needed = 0 THEN EvaluateTeam(selected, best0)
        ELSE IF Len(groups) < needed \/ ~ BranchCanBeat(selected, groups, best0) THEN best0
        ELSE FoldLeft(LAMBDA b, t : EnumerateTeams(rest(t.group), selected \cup {t.card}, b),
                      best0, tries)

-----------------------------------------------------------------------------
(* A cooperative live: the captain's skill, the other players' and fillers. *)

(* Who may play the last skill (cooperative_repeated_player_indices);       *)
(* player 0 is the own team.                                                *)
RepeatedPlayers(power) ==
    LET powers == (0 :> power) @@ [j \in DOMAIN request.players |-> request.players[j].power]
    IN  CASE request.leader.is = "max" -> {j \in DOMAIN powers : \A k \in DOMAIN powers : powers[k] <= powers[j]}
          [] request.leader.is = "random" -> DOMAIN powers
          [] OTHER -> {request.leader.player}

(* evaluate_cooperative_layouts: every order of the five skills.            *)
CooperativeValue(captain, power, bonus) ==
    LET skills == (0 :> captain) @@ request.players
        powers == (0 :> power) @@ [j \in DOMAIN request.players |-> request.players[j].power]
        orders == {f \in [Places -> DOMAIN skills] : \A p, q \in Places : p # q => f[p] # f[q]}
        plays == orders \X RepeatedPlayers(power)
        score(j, play) == PlayScore(WithFever, powers[j], [p \in Places |-> skills[play[1][p]]],
                                    skills[play[2]])
        total(play) == MapThenSumSet(LAMBDA j : score(j, play), DOMAIN skills)
    IN  [points |-> MapThenSumSet(LAMBDA play :
                        CooperativePoints(score(0, play), total(play), bonus), plays),
         score |-> MapThenSumSet(LAMBDA play : score(0, play), plays),
         count |-> Cardinality(plays)]

(* cooperative_branch_upper and the bound of evaluate_cooperative_selection. *)
CooperativeUpper(captain, power, bonus) ==
    LET skills == (0 :> captain) @@ request.players
        factor == FeverBase + MapThenSumSet(LAMBDA j : BestNormal(WithFever, skills[j]), DOMAIN skills)
                    + Max({SkillValue(WithFever, skills[j], Captain) : j \in DOMAIN skills})
        own == ScoreUpper(power, factor)
        others == MapThenSumSet(LAMBDA j : DivCeil(request.players[j].power * factor, Unit),
                                DOMAIN request.players)
    IN  CooperativePoints(own, own + others, bonus)

(* The powers and bonuses of the fillers beside a captain: of those with    *)
(* one bonus the highest power                                              *)
(* (cooperative_filler_selections_without_character).                       *)
FillerSelections(fillers, character) ==
    LET lineups == Lineups(TeamSize - 1, {c \in fillers : c.character # character})
        bonuses == {TeamBonus(l) : l \in lineups}
    IN  {[bonus |-> b, power |-> Max({PowerOf(l) : l \in {x \in lineups : TeamBonus(x) = b}})] :
            b \in bonuses}

(* enumerate_cooperative_teams and evaluate_cooperative_selection. *)
EnumerateCooperative(groups, fillers, best0) ==
    LET captains == FlattenSeq(groups)
        byBonus(selections) == InOrder(selections, [s \in selections |-> 0 - s.bonus])
        tries == FlattenSeq([n \in DOMAIN captains |->
                    LET beside == byBonus(FillerSelections(fillers, captains[n].character))
                    IN  [s \in DOMAIN beside |-> [captain |-> captains[n], fillers |-> beside[s]]]])
        evaluate(b, t) ==
            LET power == t.captain.power + t.fillers.power
                bonus == t.captain.bonus + t.fillers.bonus
            IN  IF ~ PowerSuffices(power) \/ BelowAverage(CooperativeUpper(t.captain, power, bonus), b)
                THEN b
                ELSE BestOf({CooperativeValue(t.captain, power, bonus)}, b)
    IN  FoldLeft(evaluate, best0, tries)

-----------------------------------------------------------------------------
(* The calculation.                                                        *)

(* mode_meta_upper_can_beat: every card of the mode at the best of its      *)
(* character, before any card is dropped.                                   *)
ModeCanBeat(m, i) ==
    LET groups == SkillGroups(Allowed(deck, m), m, i)
        needed == request.live \notin {"festival", "cooperative"}
                    /\ (found # None \/ request.minimum # None)
    IN  needed => Len(groups) >= TeamSize /\ UpperOver({}, groups, found)

(* With a best team at hand all cards of the mixed mode are searched: the   *)
(* bounds of branches do more than dropping cards.                          *)
SearchesAll(m) ==
    found # None /\ m = Mixed /\ request.live \notin {"festival", "cooperative"}

SearchTeams(cards) ==
    LET groups == SkillGroups(cards, mode, item)
        fillers == {EventCard(c, mode, item) : c \in FillerPool(deck, mode, item)}
    IN  IF request.live = "cooperative"
        THEN IF groups = <<>> \/ Cardinality(Characters(fillers)) < TeamSize - 1
             THEN found ELSE EnumerateCooperative(groups, fillers, found)
        ELSE IF Len(groups) < TeamSize THEN found ELSE EnumerateTeams(groups, {}, found)

EventInit ==
    /\ request \in Requests
    /\ deck = request.cards
    /\ phase = "start"
    /\ items = {} /\ item = None /\ modes = <<>> /\ mode = None /\ pool = {}
    /\ itemBest = None /\ best = None /\ problem = {}
    /\ found = None

(* search_single_song_with_metrics. *)
EventStart ==
    /\ phase = "start"
    /\ phase' = "item" /\ items' = UndominatedItems(deck)
    /\ UNCHANGED <<deck, item, modes, mode, pool, itemBest, best, problem, request, found>>

EventItem == StartItem /\ UNCHANGED <<request, found>>

PassMode ==
    /\ phase = "mode" /\ modes # <<>> /\ ~ ModeCanBeat(Head(modes), item)
    /\ modes' = Tail(modes)
    /\ UNCHANGED <<deck, phase, items, item, mode, pool, itemBest, best, problem, request, found>>

EventMode ==
    /\ phase = "mode" /\ modes # <<>> /\ ModeCanBeat(Head(modes), item)
    /\ mode' = Head(modes) /\ modes' = Tail(modes)
    /\ IF SearchesAll(mode')
       THEN pool' = Allowed(deck, mode') /\ phase' = "search"
       ELSE pool' = EventPrefilter(deck, mode', item) /\ phase' = "shape"
    /\ UNCHANGED <<deck, items, item, itemBest, best, problem, request, found>>

EventDropByShape ==
    /\ phase = "shape"
    /\ pool' = {c \in EventSameShape(pool, Setting(request, mode, item)) : CanComplete(c, pool, mode)}
    /\ phase' = "passes"
    /\ UNCHANGED <<deck, items, item, modes, mode, itemBest, best, problem, request, found>>

EventDropCovered ==
    /\ phase = "passes"
    /\ pool' = EventPass(pool, Setting(request, mode, item))
    /\ phase' = IF Cardinality(pool') = Cardinality(pool) THEN "search" ELSE "passes"
    /\ UNCHANGED <<deck, items, item, modes, mode, itemBest, best, problem, request, found>>

EventSearchPool ==
    /\ phase = "search"
    /\ found' = SearchTeams(pool)
    /\ pool' = {} /\ phase' = "mode"
    /\ UNCHANGED <<deck, items, item, modes, mode, itemBest, best, problem, request>>

EventEndItem ==
    /\ phase = "mode" /\ modes = <<>>
    /\ phase' = "item"
    /\ UNCHANGED <<deck, items, item, modes, mode, pool, itemBest, best, problem, request, found>>

EventFinish ==
    /\ phase = "item" /\ items = {}
    /\ phase' = IF found = None THEN "failed" ELSE "found"
    /\ UNCHANGED <<deck, items, item, modes, mode, pool, itemBest, best, problem, request, found>>

EventNext ==
    /\ request # None
    /\ \/ EventStart \/ EventItem \/ PassMode \/ EventMode \/ EventDropByShape \/ EventDropCovered
       \/ EventSearchPool \/ EventEndItem \/ EventFinish

(* A calculation is for the highest score or for the most points. *)
SongInit == (Init /\ request = None /\ found = None) \/ EventInit

SongNext == (request = None /\ Next /\ UNCHANGED <<request, found>>) \/ EventNext

SongSpec == SongInit /\ [][SongNext]_eventVars

-----------------------------------------------------------------------------
(* Properties.                                                             *)

(* The values of the teams of the cards, with every combination of items,   *)
(* every captain and the power asked for.                                   *)
EventValues ==
    LET values(team, i) ==
            LET played == {EventCard(c, KindOf(team), i) : c \in team}
                power == PowerOf(played)
            IN  IF ~ PowerSuffices(power) THEN {}
                ELSE IF request.live = "cooperative"
                THEN {CooperativeValue(c, power, TeamBonus(played)) : c \in played}
                ELSE LayoutValues(played, ChartOf(request.live)).best
    IN  UNION {values(team, i) : team \in Teams(deck), i \in Items}

(* The documentation calls the pruning strict: a calculation shows a team   *)
(* with the most points on average, and of those the highest score, and     *)
(* fails only if no team of the cards has the power                         *)
(* (docs/pt-maximize-design-draft.md).                                      *)
FindsMostPoints ==
    request # None /\ phase \in {"found", "failed"} =>
        LET optimum == BestOf(EventValues, None)
        IN  IF optimum = None THEN found = None
            ELSE found # None /\ ~ BetterValue(optimum, found) /\ ~ BetterValue(found, optimum)

(* In some mode a card may go for one with a lower bonus: the products      *)
(* compare what the two cards add, but the lower bonus also multiplies what *)
(* the teammates score.                                                     *)
TradesBonus(r) ==
    \E m \in ToSet(ModeCandidates(r.cards)), i \in Items :
        LET cards == EventPrefilter(r.cards, m, i)
            setting == Setting(r, m, i)
        IN  EnoughTeammates(cards) /\
            LET mates == EventTeammates(cards, setting)
            IN  \E c \in cards : \E d \in EventDominators(c, cards, setting, mates) : d.bonus < c.bonus

(* What the code keeps of it: a calculation fails only if no team of the    *)
(* cards has the power; what it shows is never more than a team can have;   *)
(* and unless a bonus is traded it is the most points, with the highest     *)
(* score.  Whatever items, modes, cards and branches were passed over, and  *)
(* in whatever order best teams were found on the way.                      *)
FindsMostUntraded ==
    request # None /\ phase \in {"found", "failed"} =>
        LET optimum == BestOf(EventValues, None)
        IN  /\ (found = None) = (optimum = None)
            /\ found # None => ~ BetterValue(found, optimum)
            /\ found # None /\ ~ TradesBonus(request) => ~ BetterValue(optimum, found)

=============================================================================
