----------------------------- MODULE MedleyPrune -----------------------------
(***************************************************************************)
(* Which cards and teams the search for a medley leaves out (medley/team.rs *)
(* and crates/core/src/team_prune, called for three teams).                *)
(*                                                                         *)
(* A medley has three songs and a team for each, and no card is used       *)
(* twice.  A card must be as good as another in every song to replace it,  *)
(* and its replacements can be blocked by its teammates or be in use in    *)
(* the other two teams.  With a plan at hand (the incumbent) cards are     *)
(* left out as well that can be in no better plan, and the comparison of   *)
(* cards may assume teams strong enough for one.                           *)
(*                                                                         *)
(* For one song the measures are those of TeamPrune, which also lists what *)
(* is left out; Song(s) are its operators with the values of song s.       *)
(***************************************************************************)
EXTENDS TeamModes

CONSTANTS Items, Durations, Unit,
          SongWeight, SongBase   \* Weight and Base of each song

SongIds == 1 .. 3

ASSUME SongAssumption ==
    /\ Durations \subseteq Nat /\ Items \subseteq Nat /\ Unit \in Nat \ {0}
    /\ SongBase \in [SongIds -> Nat]
    /\ SongWeight \in [SongIds -> [Durations -> [1 .. TeamSize + 1 -> Nat]]]

Song(s) == INSTANCE TeamPrune WITH Weight <- SongWeight[s], Base <- SongBase[s]

Roles == [place : Places, captain : BOOLEAN]

Power(cards, item) == MapThenSumSet(LAMBDA c : c.power[item], cards)

(* The score of a power with skills can be no higher. *)
ScoreUpper(power, meta) == (power * meta) \div Unit + 1

Normal(s, c, mode) == Max({Song(s)!Meta(c, mode, p) : p \in Places})
CaptainMeta(s, c, mode) == Song(s)!Meta(c, mode, Captain)
BestMeta(s, c, mode) == Max({Song(s)!Meta(c, mode, p) : p \in 1 .. Captain})

(* seed_signatures: every mode some card of the pool fits. *)
SeedModes(cards) ==
    {Mixed} \cup UNION {[band : {c.band, None}, attribute : {c.attribute, None}] : c \in cards}

-----------------------------------------------------------------------------
(* Bounds on the score of a team.                                          *)

(* The n highest values of characters; fewer if there are not n             *)
(* (top_character_values_sum).  A value is that of a character's best card. *)
TopSum(n, cards, values) ==
    LET best == [h \in Characters(cards) |-> Max({values[c] : c \in {x \in cards : x.character = h}})]
        size == Min({n, Cardinality(DOMAIN best)})
    IN  Max({MapThenSumSet(LAMBDA h : best[h], S) : S \in kSubset(size, DOMAIN best)})

(* best_any_team_score_upper_bound: each value from another card. *)
CoarseUpper(s, cards, item) ==
    LET power == [c \in cards |-> c.power[item]]
        value(c) == IF c.unified = None THEN c.usual ELSE Max({c.usual, c.unified})
        meta == [c \in cards |-> Max({SongWeight[s][c.duration][p] * value(c) : p \in 1 .. Captain})]
    IN  ScoreUpper(TopSum(TeamSize, cards, power),
                   SongBase[s] + TopSum(TeamSize, cards, meta) + TopSum(1, cards, meta))

(* same_team_chart_signature_upper_bound: the values of one team, each in   *)
(* its best place.                                                          *)
ModeUpper(s, cards, item, mode) ==
    LET allowed == Allowed(cards, mode)
        normal == [c \in allowed |-> Normal(s, c, mode)]
        captain == [c \in allowed |-> CaptainMeta(s, c, mode)]
        upper(team) ==
            Power(team, item) * (SongBase[s] + MapThenSumSet(LAMBDA c : normal[c], team)
                                   + Max({captain[c] : c \in team}))
    IN  Max({0} \cup {upper(team) : team \in Teams(allowed)})

(* medley_chart_item_score_upper_bound. *)
SongUpper(s, cards, item) ==
    LET highest == Max({ModeUpper(s, cards, item, m) : m \in SeedModes(cards)})
    IN  (highest + Unit - 1) \div Unit

SongUppers(cards, item) ==
    <<SongUpper(1, cards, item), SongUpper(2, cards, item), SongUpper(3, cards, item)>>

OneOther(uppers, s) == uppers[(s % 3) + 1]

Others(uppers, s) == MapThenSumSet(LAMBDA o : uppers[o], SongIds \ {s})

(* The score of a team of the mode with card c can be no higher             *)
(* (forced_team_score_upper_bound, teammate_upper_bound).                   *)
ForcedUpper(s, c, cards, item, mode) ==
    LET mates == {x \in Allowed(cards, mode) : x.character # c.character}
        meta == [x \in mates |-> BestMeta(s, x, mode)]
        own == BestMeta(s, c, mode)
    IN  ScoreUpper(c.power[item] + TopSum(TeamSize - 1, mates, [x \in mates |-> x.power[item]]),
                   SongBase[s] + own + TopSum(TeamSize - 1, mates, meta)
                     + Max({own, TopSum(1, mates, meta)}))

(* signature_can_beat_incumbent. *)
CanBeat(c, cards, item, mode, uppers, incumbent) ==
    \E s \in SongIds : ForcedUpper(s, c, cards, item, mode) + Others(uppers, s) > incumbent

(* The songs in which a card may be part of a better plan                   *)
(* (card_chart_eligibility_masks).                                          *)
EligibleSongs(c, cards, item, uppers, incumbent) ==
    {s \in SongIds :
        \/ incumbent <= 0
        \/ Others(uppers, s) > incumbent
        \/ \E m \in SeedModes(cards) :
            Allows(m, c) /\ ForcedUpper(s, c, cards, item, m) + Others(uppers, s) > incumbent}

-----------------------------------------------------------------------------
(* When a card can be replaced.                                            *)

(* What a team must score in a song for a better plan                       *)
(* (seed_score_floor_by_chart_from_upper_bounds).                           *)
ScoreFloor(uppers, incumbent, s) ==
    IF incumbent <= 0 THEN 0 ELSE Max({0, incumbent - Others(uppers, s)})

NoFloor == [s \in SongIds |-> 0]

SongFloors(uppers, incumbent) == [s \in SongIds |-> ScoreFloor(uppers, incumbent, s)]

(* The power needed for a score with skills of at most meta                 *)
(* (signature_team_stat_floor).                                             *)
PowerFloor(floor, meta) ==
    IF floor <= 0 \/ meta <= 0 THEN 0 ELSE ((floor - 1) * Unit) \div meta

(* The teammates in teams of exactly this mode, and what they add           *)
(* (forced_teammate_bounds_by_excluded_character).                          *)
ForcedMates(c, pool, mode) ==
    {mates \in Lineups(TeamSize - 1, {x \in pool : x.character # c.character}) :
        Song(1)!BreaksUnity(c, mates, mode)}

(* The least power of the teammates, over all cards, when a team must reach *)
(* the floor; None if no card has teammates.                                *)
ForcedPower(pool, mode, item, s, role, floor) ==
    LET needed(c) ==
            LET choices == ForcedMates(c, pool, mode)
                most == Max({MapThenSumSet(LAMBDA x : Normal(s, x, mode), mates)
                               + (IF role.captain THEN 0
                                  ELSE Max({CaptainMeta(s, x, mode) : x \in mates})) : mates \in choices})
                power == PowerFloor(floor, SongBase[s] + Song(s)!RoleMeta(c, mode, role) + most)
            IN  IF choices = {} THEN {}
                ELSE {Max({Min({Power(mates, item) : mates \in choices}), power - c.power[item]})}
        all == UNION {needed(c) : c \in pool}
    IN  IF all = {} THEN None ELSE Min(all)

(* The same for a mode of one band or attribute: one bound for all roles.   *)
CommonPower(pool, mode, item, s, floor, coarse) ==
    LET most == Max({MapThenSumSet(LAMBDA c : Normal(s, c, mode), team)
                       + Max({CaptainMeta(s, c, mode) : c \in team}) : team \in Teams(pool)})
    IN  IF Teams(pool) = {} THEN None
        ELSE Max({coarse, PowerFloor(floor, SongBase[s] + most) - Max({c.power[item] : c \in pool})})

(* The bounds under which cards are compared, for every song and role; None *)
(* if there are none (build_signature_context_bounds).                      *)
ContextOf(pool, mode, item, floors, mates) ==
    LET coarse == mates[1].power.low
        least(s, role) == IF floors = NoFloor THEN coarse
                          ELSE IF mode = Mixed THEN ForcedPower(pool, mode, item, s, role, floors[s])
                          ELSE CommonPower(pool, mode, item, s, floors[s], coarse)
        bounds == {[song |-> s, role |-> role, least |-> least(s, role), mates |-> mates[s]] :
                        s \in SongIds, role \in Roles}
    IN  IF \/ ~ Song(1)!EnoughTeammates(pool)
           \/ \E x \in bounds : x.least = None \/ x.least > x.mates.power.high
        THEN None
        ELSE {[x EXCEPT !.mates.power.low = x.least] : x \in bounds}

Context(pool, mode, item, floors) ==
    ContextOf(pool, mode, item, floors,
              <<Song(1)!Teammates(pool, mode, item), Song(2)!Teammates(pool, mode, item),
                Song(3)!Teammates(pool, mode, item)>>)

(* card_can_replace_with_models: better in no song by less than rounding.   *)
ContributionDominates(l, r, mode, item, context) ==
    LET margins == {Song(x.song)!MinMargin(l, r, mode, item, x.role, x.mates)
                        - Song(x.song)!RoundingBudget : x \in context}
    IN  /\ \A m \in margins : m >= 0
        /\ (\E m \in margins : m > 0) \/ l.id < r.id

(* medley_card_dominates_for_signature. *)
HardDominates(l, r, mode, item) ==
    /\ l.duration >= r.duration
    /\ ScoreUp(l, mode) >= ScoreUp(r, mode)
    /\ l.power[item] >= r.power[item]
    /\ \A s \in SongIds, p \in 1 .. Captain : Song(s)!Meta(l, mode, p) >= Song(s)!Meta(r, mode, p)
    /\ \/ l.power[item] > r.power[item]
       \/ \E s \in SongIds, p \in 1 .. Captain : Song(s)!Meta(l, mode, p) > Song(s)!Meta(r, mode, p)
       \/ l.id < r.id

(* replacement_comparison_for_signature: the cards that can replace card t. *)
Dominators(t, pool, mode, item, context) ==
    {d \in pool \ {t} : \/ HardDominates(d, t, mode, item)
                        \/ context # None /\ ContributionDominates(d, t, mode, item, context)}

-----------------------------------------------------------------------------
(* When a card may go.                                                     *)

CoveredByTwo(replacements) == Cardinality(replacements) >= Cardinality(SongIds) - 1

(* Of one character a team holds one card: with three replacements one is   *)
(* left (same_group_dominator_cover).                                       *)
CoveredAlike(replacements) == Cardinality(replacements) >= Cardinality(SongIds)

(* same_shape_contribution_active_indices. *)
SameShape(cards, mode, item) ==
    LET pool == Allowed(cards, mode)
        context == Context(pool, mode, item, NoFloor)
    IN  {t \in pool : ~ CoveredAlike(
            {d \in Dominators(t, pool, mode, item, context) :
                d.character = t.character /\ d.duration = t.duration})}

(* divided_same_character_survivors. *)
SameCharacterSurvivors(pool, mode, item, floors) ==
    LET context == Context(pool, mode, item, floors)
    IN  {t \in pool : ~ CoveredAlike({d \in Dominators(t, pool, mode, item, context) :
                                            d.character = t.character})}

CoarselyCoveredOneTeam(t, dominators) ==
    \A blocked \in SUBSET (Characters(dominators) \ {t.character}) :
        Cardinality(blocked) <= TeamSize - 1 =>
            LET left == {d \in dominators : d.character \notin blocked}
            IN  Cardinality(left) > Min({TeamSize, Cardinality(Characters(left))})

(* More replacements are left after the characters of the teammates than    *)
(* the two other teams can hold                                             *)
(* (dominator_cover_summary_after_worst_teammate_groups).                   *)
CoarselyCovered(t, dominators) ==
    \A blocked \in SUBSET (Characters(dominators) \ {t.character}) :
        Cardinality(blocked) <= TeamSize - 1 =>
            LET left == {d \in dominators : d.character \notin blocked}
                held(h) == Min({2, Cardinality({d \in left : d.character = h})})
            IN  Cardinality(left) > Min({2 * TeamSize, MapThenSumSet(held, Characters(left))})

(* Another team can hold these cards: of different characters, in a song in *)
(* which each may be part of a better plan.                                 *)
Holds(s, cards, eligible) ==
    /\ Cardinality(cards) <= TeamSize /\ Cardinality(Characters(cards)) = Cardinality(cards)
    /\ \A c \in cards : s \in eligible[c]

(* In whichever song, and with whichever teammates that make a team of      *)
(* exactly this mode, the other two teams cannot hold all replacements left *)
(* (minimum_cover).                                                         *)
PreciselyCovered(t, dominators, pool, mode, eligible) ==
    LET choices == ForcedMates(t, pool, mode)
        left(mates) == {d \in dominators : d.character \notin Characters(mates)}
    IN  /\ choices # {}
        /\ \A s \in SongIds, mates \in choices :
            ~ \E first \in SUBSET left(mates) :
                /\ Holds((s % 3) + 1, first, eligible)
                /\ Holds(((s + 1) % 3) + 1, left(mates) \ first, eligible)

(* divided_cross_character_survivors. *)
CrossCharacterSurvivors(pool, mode, item, floors, eligible) ==
    LET context == Context(pool, mode, item, floors)
        covered(t) ==
            LET dominators == Dominators(t, pool, mode, item, context)
            IN  /\ dominators # {}
                /\ \/ CoarselyCovered(t, dominators)
                   \/ PreciselyCovered(t, dominators, pool, mode, eligible)
    IN  {t \in pool : ~ covered(t)}

(* One pass of signature_active_card_indices. *)
Pass(pool, mode, item, floors, eligible) ==
    CrossCharacterSurvivors(SameCharacterSurvivors(pool, mode, item, floors),
                            mode, item, floors, eligible)

-----------------------------------------------------------------------------
(* Which teams of a pool become candidates (medley/enumeration.rs).        *)

(* The uppers with which candidates are compared                            *)
(* (CandidateIncumbentFilter).                                              *)
CoarseUppers(cards, item) ==
    <<CoarseUpper(1, cards, item), CoarseUpper(2, cards, item), CoarseUpper(3, cards, item)>>

(* PrefixUpperBoundFilter: the cards chosen so far, and the cards of        *)
(* characters after theirs for the free places (partial_team_can_beat_incumbent). *)
PrefixCanBeat(chosen, later, item, mode, uppers, incumbent) ==
    LET free == TeamSize - Cardinality(chosen)
        power == Power(chosen, item) + TopSum(free, later, [c \in later |-> c.power[item]])
        normal(s) == MapThenSumSet(LAMBDA c : Normal(s, c, mode), chosen)
                       + TopSum(free, later, [c \in later |-> Normal(s, c, mode)])
        captain(s) == Max({0} \cup {CaptainMeta(s, c, mode) : c \in chosen \cup later})
    IN  /\ free <= Cardinality(Characters(later))
        /\ \E s \in SongIds : ScoreUpper(power, SongBase[s] + normal(s) + captain(s))
                              + Others(uppers, s) > incumbent

(* enumerate_signature_teams: characters in their order; a branch ends with *)
(* the first prefix that cannot be in a better plan.                        *)
EveryPrefixCanBeat(team, pool, item, mode, uppers, incumbent) ==
    \A n \in 0 .. TeamSize - 1 :
        LET chosen == {c \in team : Cardinality({x \in team : x.character < c.character}) < n}
            later == {c \in pool : \A x \in chosen : x.character < c.character}
        IN  PrefixCanBeat(chosen, later, item, mode, uppers, incumbent)

(* The last card is checked on its own (final_layer_can_beat_mask).         *)
LastCardCanBeat(team, item, mode, uppers, incumbent) ==
    PrefixCanBeat(team, {}, item, mode, uppers, incumbent)

(* A team belongs to the pool of its mode only (PrefixSignatureState).      *)
OfMode(team, mode) == KindOf(team) = mode

(* candidate_can_beat_incumbent: with its own scores. *)
ScoresCanBeat(scores, uppers, incumbent) ==
    \E s \in SongIds : scores[s] + Others(uppers, s) > incumbent

(* enumerate_signature_pool: teams of exactly this mode; without an         *)
(* incumbent all of them.                                                   *)
PoolTeams(pool, item, mode, scoresOf, uppers, incumbent) ==
    {team \in Teams(pool) :
        /\ OfMode(team, mode)
        /\ incumbent > 0 =>
            /\ EveryPrefixCanBeat(team, pool, item, mode, uppers, incumbent)
            /\ LastCardCanBeat(team, item, mode, uppers, incumbent)
            /\ ScoresCanBeat(scoresOf[team], uppers, incumbent)}

=============================================================================
