------------------------------ MODULE TeamPrune ------------------------------
(***************************************************************************)
(* Which cards the search for the best team of one song leaves out         *)
(* (crates/team-prune and crates/core/src/team_prune, called for one team  *)
(* by single/dominance.rs).                                                *)
(*                                                                         *)
(* A search looks at one mode at a time: all teams (mixed), or those of    *)
(* one band, of one attribute, or of both; a skill may be stronger in a    *)
(* team of its band or attribute.  In a mode a card may be replaced by     *)
(* another that gives no lower score in any place of any team.  A card     *)
(* goes when its teammates cannot block all of its replacements: they      *)
(* block a card by being of its character, as a team has no character      *)
(* twice.                                                                  *)
(*                                                                         *)
(* Scores are integers: a card has its power (with the area items), its    *)
(* skill has a value for each place (Weight), Base is the value of the     *)
(* notes without skills and Unit what each product is divided by, rounding *)
(* down.  Left out: charts on which skills queue, skills that grow         *)
(* (rateup), the three parts of power, and pools of more than 128 cards,   *)
(* which the code halves.                                                  *)
(***************************************************************************)
EXTENDS TeamModes

CONSTANTS Items,       \* combinations of area items
          Durations,   \* of skills
          Weight,      \* value of a skill by its duration and place
          Base, Unit

ASSUME WeightAssumption ==
    /\ Durations \subseteq Nat /\ Items \subseteq Nat
    /\ Base \in Nat /\ Unit \in Nat \ {0}
    /\ Weight \in [Durations -> [1 .. Captain -> Nat]]

(* What the search uses of a prepared card.  unified is the value of its    *)
(* skill in a team that meets its conditions (None: no such value), ifBand  *)
(* and ifAttribute the conditions (None: any).                              *)
Cards == [id : Nat, character : Nat, band : Bands, attribute : Attributes,
          power : [Items -> Nat], duration : Durations,
          usual : Nat, unified : Nat \cup {None},
          ifBand : Bands \cup {None}, ifAttribute : Attributes \cup {None}]

-----------------------------------------------------------------------------
(* Modes, skills and teams.                                                *)

(* The value of a card's skill in a place (skill meta). *)
Meta(c, mode, place) == Weight[c.duration][place] * ScoreUp(c, mode)

Power(cards, item) == MapThenSumSet(LAMBDA c : c.power[item], cards)

-----------------------------------------------------------------------------
(* When a card can be replaced by another.                                 *)

(* l in place of r is no worse whatever the place and the teammates, in a  *)
(* skill of the same duration (same_shape_prefilter).                      *)
ShapeDominates(l, r, mode, item) ==
    /\ l.character = r.character /\ l.duration = r.duration
    /\ l.power[item] >= r.power[item]
    /\ ScoreUp(l, mode) >= ScoreUp(r, mode)
    /\ \/ l.power[item] > r.power[item]
       \/ ScoreUp(l, mode) > ScoreUp(r, mode)
       \/ l.id < r.id

SameShapePrefilter(cards, mode, item) ==
    LET allowed == Allowed(cards, mode)
    IN  {c \in allowed : ~ \E d \in allowed \ {c} : ShapeDominates(d, c, mode, item)}

(* The same for any character and duration: every value of the skill counts *)
(* (signature_hard_model_dominates).                                        *)
HardDominates(l, r, mode, item) ==
    /\ l.duration >= r.duration
    /\ ScoreUp(l, mode) >= ScoreUp(r, mode)
    /\ l.power[item] >= r.power[item]
    /\ \A p \in 1 .. Captain : Meta(l, mode, p) >= Meta(r, mode, p)
    /\ \/ l.power[item] > r.power[item]
       \/ \E p \in 1 .. Captain : Meta(l, mode, p) > Meta(r, mode, p)
       \/ l.id < r.id

(* Sums over n of the characters: the values of a card are between low and  *)
(* high.                                                                    *)
LowestOf(cards, low) ==
    [h \in Characters(cards) |-> Min({low[c] : c \in {x \in cards : x.character = h}})]

HighestOf(cards, high) ==
    [h \in Characters(cards) |-> Max({high[c] : c \in {x \in cards : x.character = h}})]

Sums(n, values) ==
    {MapThenSumSet(LAMBDA h : values[h], S) : S \in kSubset(n, DOMAIN values)}

(* What TeamSize - 1 teammates from the pool may add: their power, and the  *)
(* values of their skills without and with the captain's                    *)
(* (build_signature_context_bounds).  There are enough of them.             *)
Teammates(pool, mode, item) ==
    LET power == [c \in pool |-> c.power[item]]
        low == [c \in pool |-> Min({Meta(c, mode, p) : p \in Places})]
        high == [c \in pool |-> Max({Meta(c, mode, p) : p \in Places})]
        mates == TeamSize - 1
        others(values, c) == [h \in DOMAIN values \ {c.character} |-> values[h]]
    IN  [power |-> [low |-> Min(Sums(mates, LowestOf(pool, power))),
                    high |-> Max(Sums(mates, HighestOf(pool, power)))],
         normal |-> [low |-> Min(Sums(mates, LowestOf(pool, low))),
                     high |-> Max(Sums(mates, HighestOf(pool, high)))],
         withCaptain |->
            [low |-> Min({low[c] + Meta(c, mode, Captain)
                            + Min(Sums(mates - 1, others(LowestOf(pool, low), c))) : c \in pool}),
             high |-> Max({high[c] + Meta(c, mode, Captain)
                            + Max(Sums(mates - 1, others(HighestOf(pool, high), c))) : c \in pool})]]

EnoughTeammates(pool) == Cardinality(Characters(pool)) >= TeamSize - 1

(* The roles of a card: in a place, as the captain or not. *)
Roles == [place : Places, captain : BOOLEAN]

RoleMeta(c, mode, role) ==
    Meta(c, mode, role.place) + (IF role.captain THEN Meta(c, mode, Captain) ELSE 0)

(* How much more a team scores at least with l than with r in the role.     *)
(* With power y and skills x of the teammates, a card of power s and skill  *)
(* m adds s * x + m * y + s * m; the least difference is at a corner of the *)
(* bounds (affine_contribution_min_margin).                                 *)
MinMargin(l, r, mode, item, role, mates) ==
    LET skills == IF role.captain THEN mates.normal ELSE mates.withCaptain
        power == l.power[item] - r.power[item]
        meta == RoleMeta(l, mode, role) - RoleMeta(r, mode, role)
        x == Base + (IF power >= 0 THEN skills.low ELSE skills.high)
        y == IF meta >= 0 THEN mates.power.low ELSE mates.power.high
    IN  power * x + meta * y
          + l.power[item] * RoleMeta(l, mode, role) - r.power[item] * RoleMeta(r, mode, role)

(* What rounding down each product of a team can take from a difference. *)
RoundingBudget == (TeamSize + 2) * Unit

(* card_can_replace_with_models. *)
ContributionDominates(l, r, mode, item, mates) ==
    LET margins == {MinMargin(l, r, mode, item, role, mates) - RoundingBudget : role \in Roles}
    IN  /\ \A m \in margins : m >= 0
        /\ (\E m \in margins : m > 0) \/ l.id < r.id

(* The cards of the pool that can replace card t. *)
Dominators(t, pool, mode, item, mates) ==
    {d \in pool \ {t} : \/ HardDominates(d, t, mode, item)
                        \/ EnoughTeammates(pool) /\ ContributionDominates(d, t, mode, item, mates)}

(* same_shape_contribution_active_indices. *)
SameShapeContribution(pool, mode, item) ==
    LET mates == Teammates(pool, mode, item)
    IN  {t \in pool : ~ \E d \in Dominators(t, pool, mode, item, mates) :
            d.character = t.character /\ d.duration = t.duration}

-----------------------------------------------------------------------------
(* When a card may go.                                                     *)

(* signature_can_complete_with_card. *)
CanComplete(c, cards, mode) ==
    Allows(mode, c) /\ Cardinality(Characters(Allowed(cards, mode))) >= TeamSize

Unblocked(dominators, characters) == \E d \in dominators : d.character \notin characters

CoarselyCoveredOneLess(t, dominators) ==
    \A blocked \in SUBSET (Characters(dominators) \ {t.character}) :
        Cardinality(blocked) <= TeamSize - 2 => Unblocked(dominators, blocked)

(* Some replacement is left whichever TeamSize - 1 characters the teammates *)
(* have (cross_group_dominator_cover).                                      *)
CoarselyCovered(t, dominators) ==
    \A blocked \in SUBSET (Characters(dominators) \ {t.character}) :
        Cardinality(blocked) <= TeamSize - 1 => Unblocked(dominators, blocked)

(* The team is of this mode and of no narrower one: a teammate of another   *)
(* band (attribute) than t is needed unless the mode is of one band         *)
(* (attribute) (card_break_mask, signature_required_break_mask).            *)
BreaksUnity(t, mates, mode) ==
    /\ mode.band = None => \E c \in mates : c.band # t.band
    /\ mode.attribute = None => \E c \in mates : c.attribute # t.attribute

(* Some replacement is left for all teammates the pool has for t in a team  *)
(* of exactly this mode; without any such team t stays (minimum_cover).     *)
PreciselyCovered(t, dominators, pool, mode) ==
    LET choices == {mates \in Lineups(TeamSize - 1, {c \in pool : c.character # t.character}) :
                        BreaksUnity(t, mates, mode)}
    IN  /\ choices # {}
        /\ \A mates \in choices : Unblocked(dominators, Characters(mates))

(* cross_cover is positive. *)
Covered(t, dominators, pool, mode) ==
    CoarselyCovered(t, dominators) \/ PreciselyCovered(t, dominators, pool, mode)

(* divided_same_character_survivors: one replacement of the same character. *)
SameCharacterSurvivors(pool, mode, item) ==
    LET mates == Teammates(pool, mode, item)
    IN  {t \in pool : \A d \in Dominators(t, pool, mode, item, mates) : d.character # t.character}

(* divided_cross_character_survivors. *)
CrossCharacterSurvivors(pool, mode, item) ==
    LET mates == Teammates(pool, mode, item)
    IN  {t \in pool : ~ Covered(t, Dominators(t, pool, mode, item, mates), pool, mode)}

(* One pass of signature_active_card_indices, repeated until it drops none. *)
Pass(pool, mode, item) ==
    CrossCharacterSurvivors(SameCharacterSurvivors(pool, mode, item), mode, item)

=============================================================================
