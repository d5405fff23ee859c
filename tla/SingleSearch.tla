---------------------------- MODULE SingleSearch ----------------------------
(***************************************************************************)
(* The search for the best team of one song (maximize/mod.rs,              *)
(* maximize/single.rs, single.rs, single/mode.rs and single/exact.rs).     *)
(*                                                                         *)
(* A calculation goes through the combinations of area items that are not  *)
(* dominated, for each through the modes that are worth it, and for each   *)
(* mode drops cards (TeamPrune) until nothing changes; the teams of the    *)
(* cards left are searched by branch and bound.  Every step of the loop is *)
(* an action; the recursion of branch and bound is an operator (Solve).    *)
(* Of a result only the score is kept: the team shown is one that has it.  *)
(***************************************************************************)
EXTENDS TeamPrune, Sequences, SequencesExt

CONSTANT Decks     \* the sets of cards a calculation may be asked for

ASSUME DecksAssumption ==
    /\ Decks \subseteq SUBSET Cards
    /\ \A deck \in Decks : \A c, d \in deck : c.id = d.id => c = d
    \* the conditional value of a skill is the stronger one
    /\ \A deck \in Decks : \A c \in deck : c.unified # None => c.unified >= c.usual

\* Modes are tried in the order of the bands' ids and of the attributes.
ASSUME OrderAssumption ==
    /\ Bands = 1 .. Cardinality(Bands) /\ Attributes = 1 .. Cardinality(Attributes)
    /\ Items = 1 .. Cardinality(Items)

VARIABLES deck,       \* the cards
          phase,      \* where the calculation is
          items,      \* the combinations still to go
          item,       \* the combination at hand
          modes,      \* the modes still to go for it
          mode,       \* the mode at hand
          pool,       \* the cards left for it
          itemBest,   \* best score for the combination at hand
          best,       \* best score
          problem     \* history: the teams of the deck and their scores

vars == <<deck, phase, items, item, modes, mode, pool, itemBest, best, problem>>

-----------------------------------------------------------------------------
(* Combinations and modes.                                                 *)

(* prune_dominated_item_combinations. *)
UndominatedItems(cards) ==
    {i \in Items : ~ \E j \in Items \ {i} :
        /\ \A c \in cards : c.power[j] >= c.power[i]
        /\ (\E c \in cards : c.power[j] > c.power[i]) \/ j < i}

ModeOrder ==
    <<Mixed>>
      \o [b \in Bands |-> [band |-> b, attribute |-> None]]
      \o [a \in Attributes |-> [band |-> None, attribute |-> a]]
      \o FlattenSeq([b \in Bands |-> [a \in Attributes |-> [band |-> b, attribute |-> a]]])

CanBuildTeam(cards, m) == Cardinality(Characters(Allowed(cards, m))) >= TeamSize

ImprovesSkill(cards, m) == \E c \in Allowed(cards, m) : ScoreUp(c, m) > c.usual

ModeDominates(cards, stronger, weaker) ==
    \A c \in Allowed(cards, weaker) :
        Allows(stronger, c) /\ ScoreUp(c, stronger) >= ScoreUp(c, weaker)

(* push_useful_mode. *)
PushUsefulMode(cards, chosen, m) ==
    IF \/ ~ CanBuildTeam(cards, m)
       \/ ~ ImprovesSkill(cards, m)
       \/ \E i \in DOMAIN chosen : ModeDominates(cards, chosen[i], m)
    THEN chosen
    ELSE Append(SelectSeq(chosen, LAMBDA e : ~ ModeDominates(cards, m, e)), m)

ModeCandidates(cards) ==
    FoldLeft(LAMBDA chosen, m : PushUsefulMode(cards, chosen, m), <<Mixed>>, Tail(ModeOrder))

-----------------------------------------------------------------------------
(* Scores.                                                                 *)

Part(value) == value \div Unit

(* Each product is rounded down by itself (score_compiled_six_skills).      *)
Score(power, metas, captainMeta) ==
    Part(power * Base) + Part(power * captainMeta)
      + MapThenSumSet(LAMBDA p : Part(power * metas[p]), Places)

(* integer_score_upper rounds outward. *)
ScoreUpper(power, meta) == Part(power * meta) + 1

(* The best score of a team: what the game gives, in the mode it is of. *)
TeamScore(team, i) ==
    LET kind == KindOf(team)
        power == Power(team, i)
        orders == {f \in [Places -> team] : \A p, q \in Places : p < q => f[p].id # f[q].id}
        score(f, captain) == Score(power, [p \in Places |-> Meta(f[p], kind, p)],
                                   Meta(f[captain], kind, Captain))
    IN  Max({score(f, p) : f \in orders, p \in Places})

(* A card with its power and the value of its skill in the mode             *)
(* (resolve_card_indices).                                                  *)
Resolve(c, m, i) ==
    [id |-> c.id, character |-> c.character, power |-> c.power[i], duration |-> c.duration,
     scoreUp |-> ScoreUp(c, m), meta |-> [p \in 1 .. Captain |-> Meta(c, m, p)]]

Higher(a, b) == IF a = None THEN b ELSE IF b = None \/ b <= a THEN a ELSE b

-----------------------------------------------------------------------------
(* Branch and bound over the cards of a pool, by character (exact.rs).      *)

OrderValue(c) == c.power * (Max({c.meta[p] : p \in Places}) + c.meta[Captain])

Before(c, d) ==
    \/ OrderValue(c) > OrderValue(d)
    \/ OrderValue(c) = OrderValue(d) /\ c.id < d.id

RECURSIVE CardOrder(_)
CardOrder(cards) ==
    IF cards = {} THEN <<>>
    ELSE LET first == CHOOSE c \in cards : \A d \in cards \ {c} : Before(c, d)
         IN  <<first>> \o CardOrder(cards \ {first})

GroupBefore(g, h) ==
    LET v == OrderValue(g[1])
        w == OrderValue(h[1])
    IN  \/ v > w
        \/ v = w /\ Len(g) < Len(h)
        \/ v = w /\ Len(g) = Len(h) /\ g[1].character < h[1].character

RECURSIVE GroupOrder(_)
GroupOrder(groups) ==
    IF groups = {} THEN <<>>
    ELSE LET first == CHOOSE g \in groups : \A h \in groups \ {g} : GroupBefore(g, h)
         IN  <<first>> \o GroupOrder(groups \ {first})

(* prepare_cards. *)
PrepareGroups(cards) ==
    LET dominated(c) == \E d \in cards \ {c} :
            /\ d.character = c.character /\ d.duration = c.duration
            /\ d.power >= c.power /\ d.scoreUp >= c.scoreUp
            /\ d.power > c.power \/ d.scoreUp > c.scoreUp \/ d.id < c.id
    IN  GroupOrder({CardOrder({c \in cards : c.character = h /\ ~ dominated(c)}) :
                        h \in Characters(cards)})

(* Bounds on what the groups add in the free places (suffix_bounds): the    *)
(* highest powers, and the best values of skills of a group each.           *)
RECURSIVE HighestSum(_, _)
HighestSum(n, values) ==
    IF n = 0 \/ values = {} THEN 0
    ELSE LET v == CHOOSE x \in values : \A y \in values : y[1] <= x[1]
         IN  v[1] + HighestSum(n - 1, values \ {v})

RECURSIVE BestMetas(_, _)
BestMetas(groups, free) ==
    IF free = {} THEN 0
    ELSE LET rest == Tail(groups)
             used == {c.meta[p] + BestMetas(rest, free \ {p}) : c \in ToSet(Head(groups)), p \in free}
         IN  IF Len(groups) > Cardinality(free)
             THEN Max(used \cup {BestMetas(rest, free)}) ELSE Max(used)

(* placed is a function from some of the places to cards. *)
PlacedPower(placed) == MapThenSumSet(LAMBDA p : placed[p].power, DOMAIN placed)

PlacedMeta(placed) == MapThenSumSet(LAMBDA p : placed[p].meta[p], DOMAIN placed)

UpperBound(placed, groups) ==
    LET free == Places \ DOMAIN placed
        left == UNION {ToSet(groups[i]) : i \in DOMAIN groups}
        highest == {<<Max({c.power : c \in ToSet(groups[i])}), i>> : i \in DOMAIN groups}
        captain == Max({c.meta[Captain] : c \in left \cup Range(placed)})
    IN  ScoreUpper(PlacedPower(placed) + HighestSum(Cardinality(free), highest),
                   Base + PlacedMeta(placed) + BestMetas(groups, free) + captain)

(* A full team, with each card as the captain (score_leaf). *)
ScoreLeaf(placed, best0) ==
    FoldLeft(LAMBDA b, p :
                IF b # None /\ ScoreUpper(PlacedPower(placed),
                        Base + PlacedMeta(placed) + placed[p].meta[Captain]) <= b
                THEN b
                ELSE Higher(b, Score(PlacedPower(placed), [q \in Places |-> placed[q].meta[q]],
                                     placed[p].meta[Captain])),
             best0, [p \in Places |-> p])

(* position_order. *)
RECURSIVE PlaceOrder(_, _)
PlaceOrder(c, free) ==
    IF free = {} THEN <<>>
    ELSE LET first == CHOOSE p \in free : \A q \in free \ {p} :
                        c.meta[p] > c.meta[q] \/ (c.meta[p] = c.meta[q] /\ p < q)
         IN  <<first>> \o PlaceOrder(c, free \ {first})

RECURSIVE Search(_, _, _)
Search(groups, placed, best0) ==
    LET free == Places \ DOMAIN placed
        rest == Tail(groups)
        tries == FlattenSeq([i \in DOMAIN Head(groups) |->
                    LET c == Head(groups)[i]
                        order == PlaceOrder(c, free)
                    IN  [j \in DOMAIN order |-> [place |-> order[j], card |-> c]]])
        tried == FoldLeft(LAMBDA b, t : Search(rest, (t.place :> t.card) @@ placed, b),
                          best0, tries)
    IN  IF free = {} THEN ScoreLeaf(placed, best0)
        ELSE IF \/ Cardinality(free) > Len(groups)
                \/ best0 # None /\ UpperBound(placed, groups) <= best0
        THEN best0
        ELSE IF Len(groups) > Cardinality(free) THEN Search(rest, placed, tried) ELSE tried

(* The best score of a team of the cards, None if there is none. *)
Solve(cards, m, i) ==
    LET groups == PrepareGroups({Resolve(c, m, i) : c \in cards})
    IN  IF Len(groups) < TeamSize THEN None ELSE Search(groups, <<>>, None)

-----------------------------------------------------------------------------
(* The calculation.                                                        *)

(* Those of the modes tried for the cards in which the cards that fit and   *)
(* their skills are those of the team's own mode.                           *)
ModesFor(tried, cards, team) ==
    LET own == KindOf(team)
    IN  {m \in tried :
            /\ Allowed(cards, m) = Allowed(cards, own)
            /\ \A c \in Allowed(cards, own) : ScoreUp(c, m) = ScoreUp(c, own)}

(* The teams of a deck with each combination of items. *)
Problem(cards) ==
    LET tried == ToSet(ModeCandidates(cards))
    IN  {[item |-> i, team |-> t, modes |-> ModesFor(tried, cards, t), score |-> TeamScore(t, i)] :
            i \in Items, t \in Teams(cards)}

ScoresOf(entries) == {e.score : e \in entries}

Init ==
    /\ deck \in Decks
    /\ phase = "start"
    /\ items = {} /\ item = None /\ modes = <<>> /\ mode = None /\ pool = {}
    /\ itemBest = None /\ best = None
    /\ problem = Problem(deck)

(* calculate_best_result_for_items checks the cards before anything else. *)
Start ==
    /\ phase = "start"
    /\ IF Cardinality(deck) < TeamSize \/ Cardinality(Characters(deck)) < TeamSize
       THEN phase' = "failed" /\ UNCHANGED items
       ELSE phase' = "item" /\ items' = UndominatedItems(deck)
    /\ UNCHANGED <<deck, item, modes, mode, pool, itemBest, best, problem>>

StartItemFromZero ==
    /\ phase = "item" /\ items # {}
    /\ item' = Min(items) - 1 /\ items' = items \ {Min(items)}
    /\ modes' = ModeCandidates(deck) /\ itemBest' = None
    /\ phase' = "mode"
    /\ UNCHANGED <<deck, mode, pool, best, problem>>

StartItem ==
    /\ phase = "item" /\ items # {}
    /\ item' = Min(items) /\ items' = items \ {item'}
    /\ modes' = ModeCandidates(deck) /\ itemBest' = None
    /\ phase' = "mode"
    /\ UNCHANGED <<deck, mode, pool, best, problem>>

StartMode ==
    /\ phase = "mode" /\ modes # <<>>
    /\ mode' = Head(modes) /\ modes' = Tail(modes)
    /\ pool' = SameShapePrefilter(deck, mode', item)
    /\ phase' = "shape"
    /\ UNCHANGED <<deck, items, item, itemBest, best, problem>>

DropByShape ==
    /\ phase = "shape"
    /\ pool' = {c \in SameShapeContribution(pool, mode, item) : CanComplete(c, pool, mode)}
    /\ phase' = "passes"
    /\ UNCHANGED <<deck, items, item, modes, mode, itemBest, best, problem>>

DropCovered ==
    /\ phase = "passes"
    /\ pool' = Pass(pool, mode, item)
    /\ phase' = IF Cardinality(pool') = Cardinality(pool) THEN "search" ELSE "passes"
    /\ UNCHANGED <<deck, items, item, modes, mode, itemBest, best, problem>>

(* calculate_single_song; a mode without a team is passed over. *)
SearchPool ==
    /\ phase = "search"
    /\ itemBest' = Higher(itemBest, Solve(pool, mode, item))
    /\ pool' = {} /\ phase' = "mode"
    /\ UNCHANGED <<deck, items, item, modes, mode, best, problem>>

EndItem ==
    /\ phase = "mode" /\ modes = <<>>
    /\ best' = Higher(best, itemBest)
    /\ itemBest' = None /\ phase' = "item"
    /\ UNCHANGED <<deck, items, item, modes, mode, pool, problem>>

(* The error shown is that of the last combination. *)
Finish ==
    /\ phase = "item" /\ items = {}
    /\ phase' = IF best = None THEN "failed" ELSE "found"
    /\ UNCHANGED <<deck, items, item, modes, mode, pool, itemBest, best, problem>>

Next ==
    \/ Start \/ StartItem \/ StartMode \/ DropByShape \/ DropCovered
    \/ SearchPool \/ EndItem \/ Finish

Spec == Init /\ [][Next]_vars

-----------------------------------------------------------------------------
(* Properties.                                                             *)

Scores == Nat \cup {None}

TypeOK ==
    /\ deck \subseteq Cards
    /\ phase \in {"start", "item", "mode", "shape", "passes", "search", "found", "failed"}
    /\ items \subseteq Items /\ item \in Items \cup {None}
    /\ modes \in Seq(Modes) /\ mode \in Modes \cup {None}
    /\ pool \subseteq deck
    /\ itemBest \in Scores /\ best \in Scores

(* What the search has still to look at: the teams of the combinations to   *)
(* go, those of the modes to go for the one at hand, and for the mode at    *)
(* hand the teams of the cards left.                                        *)
InSearch(e) ==
    \/ phase = "start"
    \/ e.item \in items
    \/ /\ phase # "item" /\ e.item = item
       /\ \/ e.modes \cap ToSet(modes) # {}
          \/ phase # "mode" /\ mode \in e.modes /\ e.team \subseteq pool

Promise == INSTANCE Optimum WITH
    possible <- ScoresOf(problem),
    open <- ScoresOf({e \in problem : InSearch(e)}),
    best <- Higher(best, itemBest)

ImplementsOptimum == Promise!Spec

(* A calculation shows the highest score a team of the cards can have, and  *)
(* fails only if they make no team.                                         *)
FindsOptimum ==
    phase \in {"found", "failed"} =>
        best = IF problem = {} THEN None ELSE Max(ScoresOf(problem))

=============================================================================
