---------------------------- MODULE SearchProofs -----------------------------
(***************************************************************************)
(* What the searches rest on, for every value of the constants.            *)
(*                                                                         *)
(* Dropping cards (TeamPrune) is safe for teams of exactly the mode:       *)
(* whenever a card of such a team goes, one of its replacements is free to *)
(* take its place.  The proofs are about the covers (which teammates may   *)
(* block which replacements), for every size of team, deck and table.      *)
(*                                                                         *)
(* The scores that give a number of points are an interval (EventPoints).  *)
(*                                                                         *)
(* Whatever score_range answers makes exactly the points that are missing  *)
(* (ScoreRange, EventPoints): sums over finite sets, the arithmetic of the *)
(* plans of one and two songs, the plan made of a team, and the steps of   *)
(* the search over layers, modes, buckets and batches of items.            *)
(*                                                                         *)
(* The scores that this search gives to teams are those that are played    *)
(* (AutoTimeline): two walks over a chart, on different timelines, agree   *)
(* as long as no judgement meets a risk.                                   *)
(*                                                                         *)
(* A search that keeps the promise of Optimum ends with the optimum.       *)
(***************************************************************************)
EXTENDS TeamPrune, ScoreRange, AutoTimeline, FiniteSetTheorems,
        SequenceTheorems, WellFoundedInduction, TLAPS

(* A card in place of another. *)
Replace(team, t, d) == (team \ {t}) \cup {d}

(* The team is of the mode and of no narrower one. *)
OfExactly(team, unity) == \A t \in team : BreaksUnity(t, team \ {t}, unity)

-----------------------------------------------------------------------------
(* Characters of a set of cards.                                           *)

LEMMA CharacterCount ==
    ASSUME NEW S, IsFiniteSet(S)
    PROVE  /\ IsFiniteSet(Characters(S))
           /\ Cardinality(Characters(S)) \in Nat
           /\ Cardinality(Characters(S)) <= Cardinality(S)
<1> DEFINE f == [c \in S |-> c.character]
<1>1. f \in Surjection(S, Characters(S))
  BY DEF Surjection, Characters
<1>2. IsFiniteSet(Characters(S)) /\ Cardinality(Characters(S)) <= Cardinality(S)
  BY <1>1, FS_Surjection
<1> QED BY <1>2, FS_CardinalityType

(* The other cards of a team: one fewer, none of the card's character. *)
LEMMA Others ==
    ASSUME NEW pool, IsFiniteSet(pool), NEW team \in Teams(pool), NEW t \in team
    PROVE  /\ t.character \notin Characters(team \ {t})
           /\ team \ {t} \in Lineups(TeamSize - 1, {c \in pool : c.character # t.character})
<1> DEFINE mates == team \ {t}
<1>1. /\ team \subseteq pool /\ Cardinality(team) = TeamSize
      /\ Cardinality(Characters(team)) = TeamSize /\ TeamSize \in Nat /\ TeamSize >= 2
  BY TeamSizeAssumption DEF Teams, Lineups
<1>2. IsFiniteSet(team)
  BY <1>1, FS_Subset
<1>3. IsFiniteSet(mates) /\ Cardinality(mates) = TeamSize - 1
  BY <1>1, <1>2, FS_RemoveElement
<1>4. /\ IsFiniteSet(Characters(mates)) /\ Cardinality(Characters(mates)) \in Nat
      /\ Cardinality(Characters(mates)) <= TeamSize - 1
  BY <1>3, CharacterCount
<1>5. Characters(team) = Characters(mates) \cup {t.character}
  BY DEF Characters
<1>6. t.character \notin Characters(mates)
  <2> SUFFICES ASSUME t.character \in Characters(mates) PROVE FALSE
    OBVIOUS
  <2>1. Characters(team) = Characters(mates)
    BY <1>5
  <2> QED BY <1>1, <1>4, <2>1
<1>7. Cardinality(Characters(mates)) = TeamSize - 1
  <2>1. Cardinality(Characters(team)) = Cardinality(Characters(mates)) + 1
    BY <1>4, <1>5, <1>6, FS_AddElement
  <2> QED BY <1>1, <1>4, <2>1
<1>8. mates \subseteq {c \in pool : c.character # t.character}
  BY <1>1, <1>6 DEF Characters
<1> QED BY <1>3, <1>6, <1>7, <1>8 DEF Lineups

(* A card of a character the other cards do not have makes a team of them. *)
LEMMA ReplaceMakesTeam ==
    ASSUME NEW pool, IsFiniteSet(pool), NEW team \in Teams(pool), NEW t \in team,
           NEW d \in pool, d.character \notin Characters(team \ {t})
    PROVE  Replace(team, t, d) \in Teams(pool)
<1> DEFINE mates == team \ {t}
<1>1. /\ mates \subseteq pool /\ Cardinality(mates) = TeamSize - 1
      /\ Cardinality(Characters(mates)) = TeamSize - 1 /\ TeamSize \in Nat
  BY Others, TeamSizeAssumption DEF Lineups
<1>2. IsFiniteSet(mates) /\ IsFiniteSet(Characters(mates))
  BY <1>1, FS_Subset, CharacterCount
<1>3. d \notin mates
  BY DEF Characters
<1>4. Cardinality(mates \cup {d}) = TeamSize
  <2>1. Cardinality(mates \cup {d}) = Cardinality(mates) + 1
    BY <1>2, <1>3, FS_AddElement
  <2> QED BY <1>1, <2>1
<1>5. Characters(mates \cup {d}) = Characters(mates) \cup {d.character}
  BY DEF Characters
<1>6. Cardinality(Characters(mates) \cup {d.character}) = TeamSize
  <2>1. Cardinality(Characters(mates) \cup {d.character}) = Cardinality(Characters(mates)) + 1
    BY <1>2, FS_AddElement
  <2> QED BY <1>1, <2>1
<1>7. mates \cup {d} \subseteq pool
  BY <1>1
<1> QED BY <1>4, <1>5, <1>6, <1>7 DEF Replace, Teams, Lineups

-----------------------------------------------------------------------------
(* The covers.                                                             *)

(* The coarse cover counts on nothing but the number of teammates           *)
(* (cross_group_dominator_cover).                                           *)
LEMMA CoarseCoverHolds ==
    ASSUME NEW pool, IsFiniteSet(pool), NEW team \in Teams(pool), NEW t \in team,
           NEW dominators, CoarselyCovered(t, dominators)
    PROVE  \E d \in dominators : d.character \notin Characters(team \ {t})
<1> DEFINE mates == team \ {t}
           blocked == Characters(mates) \cap Characters(dominators)
<1>1. /\ t.character \notin Characters(mates) /\ mates \subseteq pool
      /\ Cardinality(Characters(mates)) = TeamSize - 1
  BY Others DEF Lineups
<1>2. IsFiniteSet(Characters(mates))
  BY <1>1, FS_Subset, CharacterCount
<1>3. Cardinality(blocked) <= TeamSize - 1
  BY <1>1, <1>2, FS_Subset
<1>4. blocked \in SUBSET (Characters(dominators) \ {t.character})
  BY <1>1
<1>5. PICK d \in dominators : d.character \notin blocked
  BY <1>3, <1>4 DEF CoarselyCovered, Unblocked
<1>6. d.character \in Characters(dominators)
  BY DEF Characters
<1> QED BY <1>5, <1>6

(* The precise cover looks at the teammates one by one, and only at those   *)
(* of a team of exactly the mode (minimum_cover).                           *)
LEMMA PreciseCoverHolds ==
    ASSUME NEW pool, IsFiniteSet(pool), NEW team \in Teams(pool), NEW t \in team,
           NEW dominators, NEW unity, BreaksUnity(t, team \ {t}, unity),
           PreciselyCovered(t, dominators, pool, unity)
    PROVE  \E d \in dominators : d.character \notin Characters(team \ {t})
<1>1. team \ {t} \in Lineups(TeamSize - 1, {c \in pool : c.character # t.character})
  BY Others
<1>2. Unblocked(dominators, Characters(team \ {t}))
  BY <1>1 DEF PreciselyCovered
<1> QED BY <1>2 DEF Unblocked

(* When a card is covered (cross_cover), every team of exactly the mode     *)
(* that has the card leaves one of its replacements free, and that makes a  *)
(* team of the pool.  Without BreaksUnity this is false: such teams are     *)
(* what the search loses when their own mode is not searched.               *)
THEOREM CoveredCardIsReplaceable ==
    ASSUME NEW pool, IsFiniteSet(pool), NEW team \in Teams(pool), NEW t \in team,
           NEW unity, BreaksUnity(t, team \ {t}, unity),
           NEW dominators, dominators \subseteq pool, Covered(t, dominators, pool, unity)
    PROVE  \E d \in dominators : /\ d.character \notin Characters(team \ {t})
                                 /\ Replace(team, t, d) \in Teams(pool)
<1>1. PICK d \in dominators : d.character \notin Characters(team \ {t})
  BY CoarseCoverHolds, PreciseCoverHolds DEF Covered
<1> QED BY <1>1, ReplaceMakesTeam

-----------------------------------------------------------------------------
(* One pass.                                                               *)

(* Every replacement the pass may use ranks the team higher.  Rank stands   *)
(* for the score a team has in the mode; ties are broken by the score       *)
(* before rounding, then by power and skills, last by the ids.              *)
Raises(rank, team, pool, unity, item) ==
    \A t \in team :
        \A d \in Dominators(t, pool, unity, item, Teammates(pool, unity, item)) :
            d.character \notin Characters(team \ {t})
                => rank[Replace(team, t, d)] > rank[team]

LEMMA DominatorsInPool ==
    ASSUME NEW t, NEW pool, NEW unity, NEW item, NEW mates
    PROVE  Dominators(t, pool, unity, item, mates) \subseteq pool
BY DEF Dominators

LEMMA SmallerPool ==
    ASSUME NEW pool, NEW survivors, survivors \subseteq pool
    PROVE  Teams(survivors) \subseteq Teams(pool)
BY DEF Teams, Lineups

LEMMA SameCharacterKeepsBest ==
    ASSUME NEW pool, IsFiniteSet(pool), NEW unity, NEW item,
           NEW rank \in [Teams(pool) -> Int],
           NEW team \in Teams(pool), \A other \in Teams(pool) : rank[other] <= rank[team],
           Raises(rank, team, pool, unity, item)
    PROVE  team \in Teams(SameCharacterSurvivors(pool, unity, item))
<1> DEFINE survivors == SameCharacterSurvivors(pool, unity, item)
           replacements(t) == Dominators(t, pool, unity, item, Teammates(pool, unity, item))
<1>1. ASSUME NEW t \in team, NEW d \in replacements(t)
      PROVE  d.character # t.character
  <2> SUFFICES ASSUME d.character = t.character PROVE FALSE
    OBVIOUS
  <2>1. d.character \notin Characters(team \ {t})
    BY Others
  <2>2. d \in pool
    BY DominatorsInPool
  <2>3. Replace(team, t, d) \in Teams(pool)
    BY <2>1, <2>2, ReplaceMakesTeam
  <2>4. rank[Replace(team, t, d)] > rank[team]
    BY <2>1 DEF Raises
  <2> QED BY <2>3, <2>4
<1>2. team \subseteq survivors
  BY <1>1 DEF SameCharacterSurvivors, Teams, Lineups
<1> QED BY <1>2 DEF Teams, Lineups

LEMMA CrossCharacterKeepsBest ==
    ASSUME NEW pool, IsFiniteSet(pool), NEW unity, NEW item,
           NEW rank \in [Teams(pool) -> Int],
           NEW team \in Teams(pool), \A other \in Teams(pool) : rank[other] <= rank[team],
           OfExactly(team, unity), Raises(rank, team, pool, unity, item)
    PROVE  team \in Teams(CrossCharacterSurvivors(pool, unity, item))
<1> DEFINE survivors == CrossCharacterSurvivors(pool, unity, item)
           replacements(t) == Dominators(t, pool, unity, item, Teammates(pool, unity, item))
<1>1. ASSUME NEW t \in team
      PROVE  ~ Covered(t, replacements(t), pool, unity)
  <2> SUFFICES ASSUME Covered(t, replacements(t), pool, unity) PROVE FALSE
    OBVIOUS
  <2>1. replacements(t) \subseteq pool /\ BreaksUnity(t, team \ {t}, unity)
    BY DominatorsInPool DEF OfExactly
  <2>2. PICK d \in replacements(t) : /\ d.character \notin Characters(team \ {t})
                                     /\ Replace(team, t, d) \in Teams(pool)
    BY <2>1, CoveredCardIsReplaceable
  <2>3. rank[Replace(team, t, d)] > rank[team]
    BY <2>2 DEF Raises
  <2> QED BY <2>2, <2>3
<1>2. team \subseteq survivors
  BY <1>1 DEF CrossCharacterSurvivors, Teams, Lineups
<1> QED BY <1>2 DEF Teams, Lineups

(* A pass of signature_active_card_indices keeps every card of a team of    *)
(* the highest rank that is of exactly the mode: although cards are dropped *)
(* at the same time, each for replacements that may themselves be dropped,  *)
(* the last of a chain of replacements is never lost.                       *)
THEOREM PassKeepsBestTeam ==
    ASSUME NEW pool, IsFiniteSet(pool), NEW unity, NEW item,
           NEW rank \in [Teams(pool) -> Int],
           NEW team \in Teams(pool), \A other \in Teams(pool) : rank[other] <= rank[team],
           OfExactly(team, unity), Raises(rank, team, pool, unity, item),
           Raises(rank, team, SameCharacterSurvivors(pool, unity, item), unity, item)
    PROVE  team \in Teams(Pass(pool, unity, item))
<1> DEFINE survivors == SameCharacterSurvivors(pool, unity, item)
           ranked == [s \in Teams(survivors) |-> rank[s]]
<1>1. team \in Teams(survivors)
  BY SameCharacterKeepsBest
<1>2. survivors \subseteq pool
  BY DEF SameCharacterSurvivors
<1>3. IsFiniteSet(survivors) /\ Teams(survivors) \subseteq Teams(pool)
  BY <1>2, FS_Subset, SmallerPool
<1>4. /\ ranked \in [Teams(survivors) -> Int]
      /\ \A other \in Teams(survivors) : ranked[other] <= ranked[team]
  BY <1>1, <1>3
<1>5. Raises(ranked, team, survivors, unity, item)
  <2> SUFFICES ASSUME NEW t \in team,
                      NEW d \in Dominators(t, survivors, unity, item,
                                           Teammates(survivors, unity, item)),
                      d.character \notin Characters(team \ {t})
               PROVE  ranked[Replace(team, t, d)] > ranked[team]
    BY DEF Raises
  <2>1. Replace(team, t, d) \in Teams(survivors)
    BY <1>1, <1>3, DominatorsInPool, ReplaceMakesTeam
  <2>2. rank[Replace(team, t, d)] > rank[team]
    BY DEF Raises
  <2> QED BY <1>1, <2>1, <2>2
<1>6. team \in Teams(CrossCharacterSurvivors(survivors, unity, item))
  BY <1>1, <1>3, <1>4, <1>5, CrossCharacterKeepsBest
<1> QED BY <1>6 DEF Pass

-----------------------------------------------------------------------------
(* Replacing by hard dominance.                                            *)

LEMMA MetaInt ==
    ASSUME NEW c \in Cards, NEW unity \in Modes, NEW p \in 1 .. Captain
    PROVE  ScoreUp(c, unity) \in Int /\ Meta(c, unity, p) \in Int
<1>1. ScoreUp(c, unity) \in Nat
  BY DEF ScoreUp, Cards
<1>2. Weight[c.duration][p] \in Nat
  <2>1. c.duration \in Durations
    BY DEF Cards
  <2>2. Weight[c.duration] \in [1 .. Captain -> Nat]
    BY <2>1, WeightAssumption
  <2> QED BY <2>2
<1> QED BY <1>1, <1>2 DEF Meta

LEMMA PowerInt ==
    ASSUME NEW c \in Cards, NEW item \in Items
    PROVE  c.power[item] \in Int /\ c.duration \in Int /\ c.id \in Int
<1>1. c.power \in [Items -> Nat] /\ c.duration \in Durations /\ c.id \in Nat
  BY DEF Cards
<1>2. c.power[item] \in Nat
  BY <1>1
<1>3. c.duration \in Nat
  BY <1>1, WeightAssumption
<1> QED BY <1>1, <1>2, <1>3

(* Hard dominance (signature_hard_model_dominates) orders the cards: two    *)
(* cards never replace each other, and a replacement of a replacement is    *)
(* one.  Ties are what this could go wrong with.                            *)
THEOREM HardDominanceIsOrder ==
    ASSUME NEW a \in Cards, NEW b \in Cards, NEW c \in Cards, NEW unity \in Modes,
           NEW item \in Items
    PROVE  /\ ~ (HardDominates(a, b, unity, item) /\ HardDominates(b, a, unity, item))
           /\ (HardDominates(a, b, unity, item) /\ HardDominates(b, c, unity, item))
                => HardDominates(a, c, unity, item)
<1> DEFINE power(x) == x.power[item]
           meta(x, p) == Meta(x, unity, p)
<1>1. \A x \in {a, b, c} : power(x) \in Int /\ x.duration \in Int /\ x.id \in Int
  BY PowerInt
<1>2. \A x \in {a, b, c}, p \in 1 .. Captain : meta(x, p) \in Int
  BY MetaInt
<1>3. \A x \in {a, b, c} : ScoreUp(x, unity) \in Int
  BY MetaInt, TeamSizeAssumption DEF Captain
<1>4. ~ (HardDominates(a, b, unity, item) /\ HardDominates(b, a, unity, item))
  BY <1>1, <1>2 DEF HardDominates
<1>5. ASSUME HardDominates(a, b, unity, item), HardDominates(b, c, unity, item)
      PROVE  HardDominates(a, c, unity, item)
  <2>1. /\ a.duration >= c.duration /\ ScoreUp(a, unity) >= ScoreUp(c, unity)
        /\ power(a) >= power(b) /\ power(b) >= power(c)
    BY <1>1, <1>3, <1>5 DEF HardDominates
  <2>2. \A p \in 1 .. Captain : meta(a, p) >= meta(b, p) /\ meta(b, p) >= meta(c, p)
    BY <1>5 DEF HardDominates
  <2>3. \A p \in 1 .. Captain : meta(a, p) >= meta(c, p)
    BY <1>2, <2>2
  <2>4. CASE a.id < b.id /\ b.id < c.id
    <3>1. a.id < c.id
      BY <1>1, <2>4
    <3> QED BY <1>1, <2>1, <2>3, <3>1 DEF HardDominates
  <2>5. CASE power(a) > power(b) \/ power(b) > power(c)
    <3>1. power(a) > power(c)
      BY <1>1, <2>1, <2>5
    <3> QED BY <1>1, <2>1, <2>3, <3>1 DEF HardDominates
  <2>6. CASE \E p \in 1 .. Captain : meta(a, p) > meta(b, p) \/ meta(b, p) > meta(c, p)
    <3>1. \E p \in 1 .. Captain : meta(a, p) > meta(c, p)
      BY <1>2, <2>2, <2>6
    <3> QED BY <1>1, <2>1, <2>3, <3>1 DEF HardDominates
  <2> QED BY <1>5, <2>4, <2>5, <2>6 DEF HardDominates
<1> QED BY <1>4, <1>5

-----------------------------------------------------------------------------
(* Replacing by contribution.                                              *)

LEMMA RoleMetaInt ==
    ASSUME NEW c \in Cards, NEW unity \in Modes, NEW role \in Roles
    PROVE  RoleMeta(c, unity, role) \in Int
<1>1. role.place \in 1 .. Captain /\ Captain \in 1 .. Captain
  BY TeamSizeAssumption DEF Roles, Places, Captain
<1>2. Meta(c, unity, role.place) \in Int /\ Meta(c, unity, Captain) \in Int
  BY <1>1, MetaInt
<1> QED BY <1>2 DEF RoleMeta

LEMMA Corner ==
    ASSUME NEW slope \in Int, NEW low \in Int, NEW high \in Int, NEW x \in Int,
           low <= x, x <= high
    PROVE  slope * x >= slope * (IF slope >= 0 THEN low ELSE high)
<1>1. CASE slope >= 0
  <2>1. slope * (x - low) >= 0
    BY <1>1
  <2>2. slope * (x - low) = slope * x - slope * low
    OBVIOUS
  <2> QED BY <1>1, <2>1, <2>2
<1>2. CASE ~ (slope >= 0)
  <2>1. (0 - slope) * (high - x) >= 0
    BY <1>2
  <2>2. (0 - slope) * (high - x) = slope * x - slope * high
    OBVIOUS
  <2> QED BY <1>2, <2>1, <2>2
<1> QED BY <1>1, <1>2

LEMMA Difference ==
    ASSUME NEW p \in Int, NEW q \in Int, NEW m \in Int, NEW n \in Int,
           NEW x \in Int, NEW y \in Int
    PROVE  (p + y) * (x + m) - (q + y) * (x + n)
             = (p - q) * x + (m - n) * y + p * m - q * n
OBVIOUS

(* affine_contribution_min_margin looks at one corner of the bounds on the  *)
(* teammates' power and skills; the difference between the products of two  *)
(* teams is nowhere smaller.                                                *)
THEOREM MinMarginIsLowest ==
    ASSUME NEW l \in Cards, NEW r \in Cards, NEW unity \in Modes, NEW item \in Items,
           NEW role \in Roles, NEW mates,
           NEW skills, skills = IF role.captain THEN mates.normal ELSE mates.withCaptain,
           mates.power.low \in Int, mates.power.high \in Int,
           skills.low \in Int, skills.high \in Int,
           NEW power \in Int, mates.power.low <= power, power <= mates.power.high,
           NEW meta \in Int, skills.low <= meta, meta <= skills.high
    PROVE  (l.power[item] + power) * ((Base + meta) + RoleMeta(l, unity, role))
             - (r.power[item] + power) * ((Base + meta) + RoleMeta(r, unity, role))
             >= MinMargin(l, r, unity, item, role, mates)
<1> DEFINE p == l.power[item]
           q == r.power[item]
           m == RoleMeta(l, unity, role)
           n == RoleMeta(r, unity, role)
           x == Base + (IF p - q >= 0 THEN skills.low ELSE skills.high)
           y == IF m - n >= 0 THEN mates.power.low ELSE mates.power.high
<1>1. p \in Int /\ q \in Int /\ m \in Int /\ n \in Int /\ Base \in Int
  BY PowerInt, RoleMetaInt, WeightAssumption
<1>2. MinMargin(l, r, unity, item, role, mates) = (p - q) * x + (m - n) * y + p * m - q * n
  BY DEF MinMargin
<1> HIDE DEF p, q, m, n
<1>3. (p - q) * (Base + meta) >= (p - q) * x
  <2>0. PICK slope \in Int, low \in Int, high \in Int, v \in Int :
          /\ slope = p - q /\ low = Base + skills.low /\ high = Base + skills.high
          /\ v = Base + meta /\ low <= v /\ v <= high
    <3>1. /\ p - q \in Int /\ Base + skills.low \in Int /\ Base + skills.high \in Int
          /\ Base + meta \in Int
          /\ Base + skills.low <= Base + meta /\ Base + meta <= Base + skills.high
      BY <1>1
    <3> QED BY ONLY <3>1
  <2>1. slope * v >= slope * (IF slope >= 0 THEN low ELSE high)
    BY <2>0, Corner
  <2>2. x = IF slope >= 0 THEN low ELSE high
    BY <2>0
  <2> QED BY <2>0, <2>1, <2>2
<1>4. (m - n) * power >= (m - n) * y
  BY <1>1, Corner
<1>5. (p + power) * ((Base + meta) + m) - (q + power) * ((Base + meta) + n)
         = (p - q) * (Base + meta) + (m - n) * power + p * m - q * n
  BY <1>1, Difference
<1>6. /\ x \in Int /\ y \in Int
      /\ (p - q) * (Base + meta) \in Int /\ (p - q) * x \in Int
      /\ (m - n) * power \in Int /\ (m - n) * y \in Int
      /\ p * m \in Int /\ q * n \in Int
  BY <1>1
<1> HIDE DEF x, y
<1>7. (p + power) * ((Base + meta) + m) - (q + power) * ((Base + meta) + n)
         >= (p - q) * x + (m - n) * y + p * m - q * n
  BY <1>3, <1>4, <1>5, <1>6
<1> QED BY <1>2, <1>7 DEF p, q, m, n

-----------------------------------------------------------------------------
(* The scores that give a number of points.                                *)

LEMMA Quotient ==
    ASSUME NEW a \in Int, NEW n \in Nat \ {0}, NEW q \in Int
    PROVE  /\ a \div n \in Int
           /\ (a \div n = q <=> q * n <= a /\ a <= q * n + n - 1)
           /\ (a \div n <= q <=> a <= q * n + n - 1)
           /\ (a \div n >= q <=> a >= q * n)
OBVIOUS

LEMMA OneMore ==
    ASSUME NEW a \in Int, NEW b \in Int
    PROVE  (a + 1) * b = a * b + b
OBVIOUS

\* The value before the bonus: at least min and at most max exactly if the
\* bonus makes it the points.
LEMMA BonusInverse ==
    ASSUME NEW v \in Nat, NEW bonus \in Nat, NEW p \in Int
    PROVE  LET min == DivCeil(p * Whole, Whole + bonus)
               max == DivCeil((p + 1) * Whole, Whole + bonus) - 1
           IN  /\ min \in Int /\ max \in Int
               /\ ApplyPointBonus(v, bonus) = p <=> min <= v /\ v <= max
<1> DEFINE k == Whole + bonus
           min == DivCeil(p * Whole, k)
           next == DivCeil((p + 1) * Whole, k)
<1>1. Whole \in Nat \ {0} /\ k \in Nat \ {0}
  BY RuleAssumption
<1> HIDE DEF k
<1>2. /\ v * k \in Int /\ p * Whole \in Int /\ (p + 1) * Whole \in Int
      /\ (p + 1) * Whole = p * Whole + Whole
  BY <1>1
<1>3. ApplyPointBonus(v, bonus) = p <=> p * Whole <= v * k /\ v * k <= p * Whole + Whole - 1
  BY <1>1, <1>2, Quotient DEF ApplyPointBonus, k
\* DivCeil: the least value whose product reaches x.
<1>4. ASSUME NEW x \in Int
      PROVE  DivCeil(x, k) \in Int /\ (v >= DivCeil(x, k) <=> v * k >= x)
  <2>1. x + k - 1 \in Int
    BY <1>1
  <2>2. /\ (x + k - 1) \div k \in Int
        /\ (x + k - 1) \div k <= v <=> x + k - 1 <= v * k + k - 1
    BY <1>1, <2>1, Quotient
  <2> QED BY <1>1, <1>2, <2>2 DEF DivCeil
<1>5. /\ min \in Int /\ (v >= min <=> v * k >= p * Whole)
      /\ next \in Int /\ (v >= next <=> v * k >= p * Whole + Whole)
  BY <1>2, <1>4
<1> HIDE DEF min, next
<1>6. v <= next - 1 <=> v * k <= p * Whole + Whole - 1
  BY <1>1, <1>2, <1>5
<1>7. ApplyPointBonus(v, bonus) = p <=> min <= v /\ v <= next - 1
  BY <1>2, <1>3, <1>5, <1>6
<1> QED BY <1>5, <1>7 DEF min, next, k

\* For every event type, bonus and support bonus, the scores for which
\* event_pt gives a number of points are exactly those of score_range's
\* interval, none if it has none.
THEOREM IntervalExact ==
    ASSUME NEW event \in Events, NEW score \in Nat, NEW points \in Nat,
           NEW bonus \in Nat, NEW support \in Nat
    PROVE  LET scores == ScoreInterval(event, points, bonus, support)
           IN  PointsFor(event, score, bonus, support) = points
                 <=> scores # Never /\ scores.min <= score /\ score <= scores.max
<1> DEFINE rule == Rule[event]
           own == points - (IF rule.supported THEN support ELSE 0)
           inner == InnerRange(event, own, bonus)
           min == IF inner.min < rule.fixed THEN rule.fixed ELSE inner.min
           value == rule.fixed + score \div rule.divisor
           scores == ScoreInterval(event, points, bonus, support)
<1> SUFFICES PointsFor(event, score, bonus, support) = points
               <=> scores # Never /\ scores.min <= score /\ score <= scores.max
  OBVIOUS
<1>1. /\ rule.fixed \in Nat /\ rule.divisor \in Nat \ {0}
      /\ rule.multiplied \in BOOLEAN /\ rule.supported \in BOOLEAN
  BY RuleAssumption
<1>2. own \in Int
  BY <1>1
<1>3. score \div rule.divisor \in Nat /\ value \in Nat
  BY <1>1
<1>4. PointsFor(event, score, bonus, support) = points
        <=> (IF rule.multiplied THEN ApplyPointBonus(value, bonus) ELSE value) = own
  <2>1. ApplyPointBonus(value, bonus) \in Int
    <3>1. value * (Whole + bonus) \in Int /\ Whole \in Nat \ {0}
      BY <1>3, RuleAssumption
    <3> QED BY <3>1, Quotient DEF ApplyPointBonus
  <2> QED BY <1>1, <1>3, <2>1 DEF PointsFor
<1> HIDE DEF own, value, rule
<1>5. /\ inner.min \in Int /\ inner.max \in Int
      /\ (IF rule.multiplied THEN ApplyPointBonus(value, bonus) ELSE value) = own
           <=> inner.min <= value /\ value <= inner.max
  <2>1. CASE rule.multiplied
    BY <1>2, <1>3, <2>1, BonusInverse DEF InnerRange, rule
  <2>2. CASE ~rule.multiplied
    BY <1>2, <1>3, <2>2 DEF InnerRange, rule
  <2> QED BY <2>1, <2>2
\* Without support left over, or below the fixed part, no score will do.
<1>6. own < 0 => ~(inner.min <= value /\ value <= inner.max)
  <2>1. ApplyPointBonus(value, bonus) >= 0
    <3>1. value * (Whole + bonus) \in Nat /\ Whole \in Nat \ {0}
      BY <1>3, RuleAssumption
    <3> QED BY <3>1, Quotient DEF ApplyPointBonus
  <2> QED BY <1>2, <1>3, <1>5, <2>1
<1> HIDE DEF inner
<1>7. value >= rule.fixed
  BY <1>1, <1>3 DEF value
<1>8. scores = IF own < 0 \/ inner.max < rule.fixed \/ min > inner.max
               THEN Never
               ELSE [min |-> (min - rule.fixed) * rule.divisor,
                     max |-> (inner.max - rule.fixed + 1) * rule.divisor - 1]
  BY DEF ScoreInterval, own, inner, rule
<1> HIDE DEF scores
<1>9. CASE own < 0 \/ inner.max < rule.fixed \/ min > inner.max
  BY <1>1, <1>2, <1>3, <1>4, <1>5, <1>6, <1>7, <1>8, <1>9
<1>10. CASE ~(own < 0 \/ inner.max < rule.fixed \/ min > inner.max)
  <2> DEFINE q == score \div rule.divisor
             low == min - rule.fixed
             high == inner.max - rule.fixed
  <2>1. /\ scores.min = low * rule.divisor /\ scores.max = (high + 1) * rule.divisor - 1
        /\ scores = [min |-> low * rule.divisor, max |-> (high + 1) * rule.divisor - 1]
    BY <1>8, <1>10
  <2>2. low \in Nat /\ high \in Nat /\ value = rule.fixed + q /\ q \in Nat
    BY <1>1, <1>3, <1>5, <1>10 DEF value
  <2>3. (inner.min <= value /\ value <= inner.max) <=> (low <= q /\ q <= high)
    BY <1>1, <1>5, <2>2
  <2>4. scores # Never
    BY <2>1, <2>2, <1>1, NeverAssumption
  <2> HIDE DEF low, high
  <2>5. /\ q >= low <=> score >= low * rule.divisor
        /\ q <= high <=> score <= high * rule.divisor + rule.divisor - 1
    BY <1>1, <2>2, Quotient
  <2>6. (high + 1) * rule.divisor = high * rule.divisor + rule.divisor
    <3>1. high \in Int /\ rule.divisor \in Int
      BY <1>1, <2>2
    <3> QED BY ONLY <3>1, OneMore
  <2>7. low * rule.divisor \in Int /\ high * rule.divisor \in Int
    BY <1>1, <2>2
  <2> HIDE DEF q
  <2> QED BY <1>1, <1>4, <1>5, <2>1, <2>2, <2>3, <2>4, <2>5, <2>6, <2>7
<1> QED BY <1>9, <1>10 DEF scores

-----------------------------------------------------------------------------
(* Sums over finite sets, as MapThenSumSet takes them.                     *)

(* The element that the sum takes next, and what it adds.                  *)
Pick(s) == CHOOSE x \in s : TRUE

SumStep(g, s, it) == IF s = {} THEN 0 ELSE g[Pick(s)] + it[s \ {Pick(s)}]

IsSum(it, g, S) == it = [s \in SUBSET S |-> SumStep(g, s, it)]

Total(g, S) == (CHOOSE it : IsSum(it, g, S))[S]

(* Among the subsets of a finite set with a property there is one of which *)
(* no smaller subset has it.                                               *)
LEMMA SmallestSubset ==
    ASSUME NEW S, IsFiniteSet(S), NEW D, D \subseteq SUBSET S, D # {}
    PROVE  \E s \in D : \A t \in D : ~(t \subseteq s /\ t # s)
<1>1. IsWellFoundedOn(StrictSubsetOrdering(S), SUBSET S)
  BY FS_StrictSubsetOrderingWellFounded, FS_FiniteSubsetsOfFinite
<1>2. PICK s \in D : \A t \in D : ~(<<t, s>> \in StrictSubsetOrdering(S))
  BY <1>1, WFMin
<1>3. \A t \in D : t \subseteq s /\ t # s => <<t, s>> \in StrictSubsetOrdering(S)
  BY DEF StrictSubsetOrdering
<1>4. \A t \in D : ~(t \subseteq s /\ t # s)
  BY <1>2, <1>3
<1> QED BY <1>4

(* Two functions that follow the steps of the sum are the same on the      *)
(* subsets that they reach.                                                *)
Follows(f, g, D) == \A s \in D : f[s] = SumStep(g, s, f)

(* The subsets with what is left of each after a step.                     *)
Downward(D) == \A s \in D : s # {} => s \ {Pick(s)} \in D

LEMMA StepsAgree ==
    ASSUME NEW S, IsFiniteSet(S), NEW D \in SUBSET (SUBSET S), Downward(D),
           NEW g, NEW f, NEW h, Follows(f, g, D), Follows(h, g, D)
    PROVE  \A s \in D : f[s] = h[s]
<1> USE DEF Follows, Downward
<1> DEFINE Bad == {s \in D : f[s] # h[s]}
<1> SUFFICES ASSUME Bad # {} PROVE FALSE
  OBVIOUS
<1>1. PICK s \in Bad : \A t \in Bad : ~(t \subseteq s /\ t # s)
  <2>1. Bad \subseteq SUBSET S
    OBVIOUS
  <2> HIDE DEF Bad
  <2> QED BY <2>1, SmallestSubset
<1>2. CASE s = {}
  BY <1>2 DEF SumStep
<1>3. CASE s # {}
  <2>1. Pick(s) \in s
    BY <1>3 DEF Pick
  <2>2. f[s \ {Pick(s)}] = h[s \ {Pick(s)}]
    BY <1>1, <1>3, <2>1
  <2> QED BY <1>3, <2>2 DEF SumStep
<1> QED BY <1>2, <1>3

(* The sum of a finite set is that of its step: what makes the recursion   *)
(* of MapThenSumSet a fact that can be used.                               *)
LEMMA TotalSteps ==
    ASSUME NEW S, IsFiniteSet(S), NEW g
    PROVE  Total(g, S) = SumStep(g, S, [s \in SUBSET S |-> Total(g, s)])
<1> DEFINE all == [s \in SUBSET S |-> Total(g, s)]
           Bad == {s \in SUBSET S : Total(g, s) # SumStep(g, s, all)}
<1> SUFFICES ASSUME Bad # {} PROVE FALSE
  OBVIOUS
<1>1. PICK u \in Bad : \A t \in Bad : ~(t \subseteq u /\ t # u)
  <2>1. Bad \subseteq SUBSET S
    OBVIOUS
  <2> HIDE DEF Bad
  <2> QED BY <2>1, SmallestSubset
<1>2. u \subseteq S /\ IsFiniteSet(u)
  BY FS_Subset
<1>3. \A s \in SUBSET u : s # u => all[s] = SumStep(g, s, all)
  BY <1>1, <1>2
<1> HIDE DEF all
<1>4. \A s \in SUBSET u : s # {} => Pick(s) \in s /\ s \ {Pick(s)} \in SUBSET u /\ s \ {Pick(s)} # u
  BY DEF Pick
<1>5. \E it : IsSum(it, g, u)
  <2> DEFINE it == [s \in SUBSET u |-> IF s = u THEN SumStep(g, u, all) ELSE all[s]]
  <2>1. ASSUME NEW s \in SUBSET u PROVE it[s] = SumStep(g, s, it)
    <3>1. SumStep(g, s, it) = SumStep(g, s, all)
      BY <1>4 DEF SumStep
    <3> QED BY <3>1, <1>3
  <2>2. it = [s \in SUBSET u |-> SumStep(g, s, it)]
    BY <2>1
  <2> HIDE DEF it
  <2> QED BY <2>2 DEF IsSum
<1>6. PICK c : IsSum(c, g, u) /\ Total(g, u) = c[u]
  BY <1>5 DEF Total
<1>7. \A s \in SUBSET u : c[s] = SumStep(g, s, c)
  <2>1. c = [s \in SUBSET u |-> SumStep(g, s, c)]
    BY <1>6 DEF IsSum
  <2> QED BY <2>1
<1>8. \A s \in (SUBSET u) \ {u} : c[s] = all[s]
  <2> DEFINE D == (SUBSET u) \ {u}
  <2>1. D \in SUBSET (SUBSET u) /\ Downward(D)
    BY <1>4 DEF Downward
  <2>2. Follows(c, g, D) /\ Follows(all, g, D)
    BY <1>3, <1>7 DEF Follows
  <2> HIDE DEF D
  <2>3. \A s \in D : c[s] = all[s]
    BY <1>2, <2>1, <2>2, StepsAgree
  <2> QED BY <2>3 DEF D
<1>9. c[u] = SumStep(g, u, all)
  <2>1. c[u] = SumStep(g, u, c)
    BY <1>7
  <2>2. u # {} => c[u \ {Pick(u)}] = all[u \ {Pick(u)}]
    BY <1>4, <1>8
  <2> QED BY <2>1, <2>2 DEF SumStep
<1> QED BY <1>1, <1>6, <1>9

LEMMA PickIn == ASSUME NEW S PROVE \A s \in SUBSET S : s # {} => Pick(s) \in S
BY DEF Pick

LEMMA TotalEmpty == ASSUME NEW g PROVE Total(g, {}) = 0
<1>1. IsFiniteSet({})
  BY FS_EmptySet
<1> QED BY <1>1, TotalSteps DEF SumStep

LEMMA TotalPick ==
    ASSUME NEW S, IsFiniteSet(S), S # {}, NEW g
    PROVE  Pick(S) \in S /\ Total(g, S) = g[Pick(S)] + Total(g, S \ {Pick(S)})
BY TotalSteps DEF SumStep, Pick

LEMMA TotalInt ==
    ASSUME NEW S, IsFiniteSet(S), NEW g, \A x \in S : g[x] \in Int
    PROVE  Total(g, S) \in Int
<1> DEFINE Bad == {s \in SUBSET S : Total(g, s) \notin Int}
<1> SUFFICES ASSUME Bad # {} PROVE FALSE
  OBVIOUS
<1>1. PICK s \in Bad : \A t \in Bad : ~(t \subseteq s /\ t # s)
  <2>1. Bad \subseteq SUBSET S
    OBVIOUS
  <2> HIDE DEF Bad
  <2> QED BY <2>1, SmallestSubset
<1>2. s \subseteq S /\ IsFiniteSet(s)
  BY FS_Subset
<1>3. s # {}
  BY TotalEmpty
<1>4. Pick(s) \in s /\ Total(g, s) = g[Pick(s)] + Total(g, s \ {Pick(s)})
  BY <1>2, <1>3, TotalPick
<1>5. Total(g, s \ {Pick(s)}) \in Int
  BY <1>1, <1>2, <1>4
<1> QED BY <1>1, <1>2, <1>4, <1>5

LEMMA TotalNat ==
    ASSUME NEW S, IsFiniteSet(S), NEW g, \A x \in S : g[x] \in Nat
    PROVE  Total(g, S) \in Nat
<1> DEFINE Bad == {s \in SUBSET S : Total(g, s) \notin Nat}
<1> SUFFICES ASSUME Bad # {} PROVE FALSE
  OBVIOUS
<1>1. PICK s \in Bad : \A t \in Bad : ~(t \subseteq s /\ t # s)
  <2>1. Bad \subseteq SUBSET S
    OBVIOUS
  <2> HIDE DEF Bad
  <2> QED BY <2>1, SmallestSubset
<1>2. s \subseteq S /\ IsFiniteSet(s)
  BY FS_Subset
<1>3. s # {}
  BY TotalEmpty
<1>4. Pick(s) \in s /\ Total(g, s) = g[Pick(s)] + Total(g, s \ {Pick(s)})
  BY <1>2, <1>3, TotalPick
<1>5. Total(g, s \ {Pick(s)}) \in Nat
  BY <1>1, <1>2, <1>4
<1> QED BY <1>1, <1>2, <1>4, <1>5

(* The sum takes the elements in any order. *)
LEMMA TotalRemove ==
    ASSUME NEW S, IsFiniteSet(S), NEW x \in S, NEW g, \A y \in S : g[y] \in Int
    PROVE  Total(g, S) = g[x] + Total(g, S \ {x})
<1> DEFINE Bad == {s \in SUBSET S : \E y \in s : Total(g, s) # g[y] + Total(g, s \ {y})}
<1> SUFFICES ASSUME Bad # {} PROVE FALSE
  OBVIOUS
<1>1. PICK s \in Bad : \A t \in Bad : ~(t \subseteq s /\ t # s)
  <2>1. Bad \subseteq SUBSET S
    OBVIOUS
  <2> HIDE DEF Bad
  <2> QED BY <2>1, SmallestSubset
<1>2. s \subseteq S /\ IsFiniteSet(s)
  BY FS_Subset
<1>3. PICK y \in s : Total(g, s) # g[y] + Total(g, s \ {y})
  BY <1>1
<1>4. PICK p : p = Pick(s)
  OBVIOUS
<1>5. p \in s /\ Total(g, s) = g[p] + Total(g, s \ {p}) /\ p # y
  BY <1>2, <1>3, <1>4, TotalPick
<1>6. Total(g, s \ {p}) = g[y] + Total(g, (s \ {p}) \ {y})
  BY <1>1, <1>2, <1>5
<1>7. Total(g, s \ {y}) = g[p] + Total(g, (s \ {y}) \ {p})
  BY <1>1, <1>2, <1>5
<1>8. (s \ {y}) \ {p} = (s \ {p}) \ {y}
  OBVIOUS
<1>9. Total(g, (s \ {p}) \ {y}) \in Int
  BY <1>2, FS_Subset, TotalInt
<1>10. PICK rest \in Int, a \in Int, b \in Int :
           rest = Total(g, (s \ {p}) \ {y}) /\ a = g[y] /\ b = g[p]
  BY <1>2, <1>5, <1>9
<1>11. Total(g, s) = b + (a + rest) /\ g[y] + Total(g, s \ {y}) = a + (b + rest)
  BY <1>5, <1>6, <1>7, <1>8, <1>10
<1>12. b + (a + rest) = a + (b + rest)
  BY ONLY rest \in Int, a \in Int, b \in Int
<1> QED BY <1>3, <1>11, <1>12

(* Only the values at the elements count. *)
LEMMA TotalSame ==
    ASSUME NEW S, IsFiniteSet(S), NEW g, NEW h, \A x \in S : g[x] = h[x]
    PROVE  Total(g, S) = Total(h, S)
<1> DEFINE Bad == {s \in SUBSET S : Total(g, s) # Total(h, s)}
<1> SUFFICES ASSUME Bad # {} PROVE FALSE
  OBVIOUS
<1>1. PICK s \in Bad : \A t \in Bad : ~(t \subseteq s /\ t # s)
  <2>1. Bad \subseteq SUBSET S
    OBVIOUS
  <2> HIDE DEF Bad
  <2> QED BY <2>1, SmallestSubset
<1>2. s \subseteq S /\ IsFiniteSet(s)
  BY FS_Subset
<1>3. s # {}
  BY TotalEmpty
<1>4. Pick(s) \in s /\ Total(g, s) = g[Pick(s)] + Total(g, s \ {Pick(s)})
  BY <1>2, <1>3, TotalPick
<1>5. Total(h, s) = h[Pick(s)] + Total(h, s \ {Pick(s)})
  BY <1>2, <1>3, TotalPick
<1>6. Total(g, s \ {Pick(s)}) = Total(h, s \ {Pick(s)})
  BY <1>1, <1>2, <1>4
<1> QED BY <1>1, <1>2, <1>4, <1>5, <1>6

(* Sums of disjoint sets add up. *)
LEMMA TotalUnion ==
    ASSUME NEW S, IsFiniteSet(S), NEW T, IsFiniteSet(T), S \cap T = {},
           NEW g, \A x \in S \cup T : g[x] \in Int
    PROVE  Total(g, S \cup T) = Total(g, S) + Total(g, T)
<1> DEFINE Bad == {s \in SUBSET S : Total(g, s \cup T) # Total(g, s) + Total(g, T)}
<1> SUFFICES ASSUME Bad # {} PROVE FALSE
  OBVIOUS
<1>1. PICK s \in Bad : \A t \in Bad : ~(t \subseteq s /\ t # s)
  <2>1. Bad \subseteq SUBSET S
    OBVIOUS
  <2> HIDE DEF Bad
  <2> QED BY <2>1, SmallestSubset
<1>2. s \subseteq S /\ IsFiniteSet(s) /\ IsFiniteSet(s \cup T)
  BY FS_Subset, FS_Union
<1>3. Total(g, s) \in Int /\ Total(g, T) \in Int
  BY <1>2, TotalInt
<1>4. s # {}
  <2> SUFFICES ASSUME s = {} PROVE FALSE
    OBVIOUS
  <2>1. s \cup T = T
    OBVIOUS
  <2>2. Total(g, s \cup T) = Total(g, T) /\ Total(g, s) = 0
    BY <2>1, TotalEmpty
  <2> QED BY <1>1, <1>3, <2>2
<1>5. PICK x \in s : TRUE
  BY <1>4
<1>6. Total(g, s) = g[x] + Total(g, s \ {x}) /\ Total(g, s \ {x}) \in Int /\ g[x] \in Int
  BY <1>2, TotalRemove, TotalInt, FS_Subset
<1>7. Total(g, s \cup T) = g[x] + Total(g, (s \cup T) \ {x})
  BY <1>2, TotalRemove
<1>8. (s \cup T) \ {x} = (s \ {x}) \cup T
  BY <1>2
<1>9. Total(g, (s \ {x}) \cup T) = Total(g, s \ {x}) + Total(g, T)
  BY <1>1, <1>2
<1> QED BY <1>1, <1>3, <1>6, <1>7, <1>8, <1>9

-----------------------------------------------------------------------------
(* Finite sets and their extremes.                                         *)

(* A relation that orders a set.                                           *)
Orders(R, S) ==
    /\ \A x, y \in S : x # y => <<x, y>> \in R \/ <<y, x>> \in R
    /\ \A x, y, z \in S : <<x, y>> \in R /\ <<y, z>> \in R => <<x, z>> \in R

(* A finite set has a first element: what is chosen as first is in it.     *)
LEMMA LeastExists ==
    ASSUME NEW S, IsFiniteSet(S), S # {}, NEW R, Orders(R, S)
    PROVE  \E x \in S : \A y \in S \ {x} : <<x, y>> \in R
<1> USE DEF Orders
<1> DEFINE HasLeast(s) == \E x \in s : \A y \in s \ {x} : <<x, y>> \in R
           Bad == {s \in SUBSET S : s # {} /\ ~HasLeast(s)}
<1> SUFFICES ASSUME Bad # {} PROVE FALSE
  OBVIOUS
<1>1. PICK s \in Bad : \A t \in Bad : ~(t \subseteq s /\ t # s)
  <2>1. Bad \subseteq SUBSET S
    OBVIOUS
  <2> HIDE DEF Bad
  <2> QED BY <2>1, SmallestSubset
<1>2. PICK x \in s : TRUE
  OBVIOUS
<1>3. s \ {x} # {}
  BY <1>1, <1>2
<1>4. HasLeast(s \ {x})
  <2>1. s \ {x} \in SUBSET S
    OBVIOUS
  <2>2. s \ {x} \notin Bad
    <3> HIDE DEF Bad
    <3>1. s \ {x} \subseteq s /\ s \ {x} # s
      BY <1>2
    <3> QED BY <1>1, <3>1
  <2>3. ~(s \ {x} # {} /\ ~HasLeast(s \ {x}))
    <3> HIDE DEF HasLeast
    <3> QED BY <2>1, <2>2
  <2> QED BY <1>3, <2>3
<1>5. PICK y \in s \ {x} : \A z \in (s \ {x}) \ {y} : <<y, z>> \in R
  BY <1>4
<1>6. CASE <<x, y>> \in R
  <2>1. \A z \in s \ {x} : <<x, z>> \in R
    BY <1>1, <1>5, <1>6
  <2> QED BY <1>1, <1>2, <2>1
<1>7. CASE <<y, x>> \in R
  <2>1. \A z \in s \ {y} : <<y, z>> \in R
    BY <1>5, <1>7
  <2> QED BY <1>1, <1>5, <2>1
<1> QED BY <1>1, <1>2, <1>5, <1>6, <1>7

LEMMA MaxOf ==
    ASSUME NEW S, IsFiniteSet(S), S # {}, S \subseteq Int
    PROVE  Max(S) \in S /\ \A y \in S : Max(S) >= y
<1> DEFINE R == {p \in S \X S : p[1] >= p[2]}
<1>1. \A x, y \in S : <<x, y>> \in R <=> x >= y
  OBVIOUS
<1> HIDE DEF R
<1>2. Orders(R, S)
  BY <1>1 DEF Orders
<1>3. \E x \in S : \A y \in S \ {x} : <<x, y>> \in R
  BY <1>2, LeastExists
<1>4. \E x \in S : \A y \in S : x >= y
  <2>1. PICK x \in S : \A y \in S \ {x} : <<x, y>> \in R
    BY <1>3
  <2>2. ASSUME NEW y \in S PROVE x >= y
    <3>1. x \in Int /\ y \in Int
      OBVIOUS
    <3>2. y # x => x >= y
      BY <1>1, <2>1
    <3> QED BY <3>1, <3>2
  <2> QED BY <2>2
<1> QED BY <1>4 DEF Max

LEMMA MinOf ==
    ASSUME NEW S, IsFiniteSet(S), S # {}, S \subseteq Int
    PROVE  Min(S) \in S /\ \A y \in S : Min(S) <= y
<1> DEFINE R == {p \in S \X S : p[1] <= p[2]}
<1>1. \A x, y \in S : <<x, y>> \in R <=> x <= y
  OBVIOUS
<1> HIDE DEF R
<1>2. Orders(R, S)
  BY <1>1 DEF Orders
<1>3. \E x \in S : \A y \in S \ {x} : <<x, y>> \in R
  BY <1>2, LeastExists
<1>4. \E x \in S : \A y \in S : x <= y
  <2>1. PICK x \in S : \A y \in S \ {x} : <<x, y>> \in R
    BY <1>3
  <2>2. ASSUME NEW y \in S PROVE x <= y
    <3>1. x \in Int /\ y \in Int
      OBVIOUS
    <3>2. y # x => x <= y
      BY <1>1, <2>1
    <3> QED BY <3>1, <3>2
  <2> QED BY <2>2
<1> QED BY <1>4 DEF Min

LEMMA NatLeast ==
    ASSUME NEW S, S \subseteq Nat, S # {}
    PROVE  \E x \in S : \A y \in S : x <= y
<1>1. PICK x \in S : \A y \in S : ~(<<y, x>> \in OpToRel(<, Nat))
  BY NatLessThanWellFounded, WFMin
<1>2. \A y \in S : ~(y < x)
  BY <1>1 DEF OpToRel
<1> QED BY <1>2

(* The images of a finite set. *)
LEMMA FiniteImage ==
    ASSUME NEW S, IsFiniteSet(S), NEW f
    PROVE  IsFiniteSet({f[x] : x \in S})
<1> DEFINE T == {f[x] : x \in S}
           g == [x \in S |-> f[x]]
<1>1. g \in Surjection(S, T)
  BY DEF Surjection
<1> HIDE DEF g, T
<1>2. IsFiniteSet(T)
  BY <1>1, FS_Surjection
<1> QED BY <1>2 DEF T

(* Quotients and remainders.                                               *)
LEMMA Division ==
    ASSUME NEW a \in Int, NEW b \in Nat \ {0}
    PROVE  /\ a \div b \in Int /\ a % b \in 0 .. b - 1
           /\ a = b * (a \div b) + (a % b)
OBVIOUS

LEMMA DivisionParts ==
    ASSUME NEW a \in Int, NEW b \in Nat \ {0}
    PROVE  \E q \in Int, s \in 0 .. b - 1 : q = a \div b /\ s = a % b /\ a = b * q + s
BY Division

LEMMA Remainder ==
    ASSUME NEW z \in Int, NEW b \in Nat \ {0}, NEW c \in 0 .. b - 1
    PROVE  (b * z + c) % b = c /\ (b * z + c) \div b = z
<1> DEFINE n == b * z + c
<1>1. PICK q \in Int, s \in 0 .. b - 1 : q = n \div b /\ s = n % b /\ n = b * q + s
  BY Division
<1>2. b * (z - q) = s - c
  BY <1>1
<1>3. z - q = 0
  <2>1. s - c < b /\ s - c > -b
    OBVIOUS
  <2>2. PICK w \in Int : w = z - q
    OBVIOUS
  <2>3. b * w < b /\ b * w > -b
    BY <1>2, <2>1, <2>2
  <2>4. w >= 1 => b * w >= b
    BY ONLY b \in Nat \ {0}, w \in Int
  <2>5. w <= -1 => b * w <= -b
    BY ONLY b \in Nat \ {0}, w \in Int
  <2> QED BY <2>2, <2>3, <2>4, <2>5
<1> QED BY <1>1, <1>2, <1>3

(* Divisors, and the greatest common one (divisors_descending and gcd).    *)
LEMMA DivisorsOf ==
    ASSUME NEW n \in Nat \ {0}
    PROVE  IsFiniteSet(Divisors(n)) /\ Divisors(n) \subseteq Nat \ {0} /\ 1 \in Divisors(n)
<1>1. Divisors(n) \subseteq 1 .. n /\ 1 \in Divisors(n)
  BY DEF Divisors
<1>2. IsFiniteSet(1 .. n)
  BY FS_Interval
<1> QED BY <1>1, <1>2, FS_Subset

(* A divisor divides. *)
LEMMA Multiple ==
    ASSUME NEW n \in Nat \ {0}, NEW d \in Divisors(n)
    PROVE  n = d * (n \div d) /\ n \div d \in Nat \ {0}
<1>1. d \in Nat \ {0} /\ n % d = 0
  BY DEF Divisors
<1>2. n = d * (n \div d) /\ n \div d \in Int
  BY <1>1, Division
<1>3. PICK q \in Int : q = n \div d /\ n = d * q
  BY <1>2
<1>4. q <= 0 => d * q <= 0
  BY ONLY <1>1, q \in Int, d \in Nat \ {0}
<1> QED BY <1>1, <1>2, <1>3, <1>4

LEMMA GcdDivides ==
    ASSUME NEW a \in Nat \ {0}, NEW b \in Nat \ {0}
    PROVE  /\ Gcd(a, b) \in Divisors(a) \cap Divisors(b)
           /\ \A d \in Divisors(a) \cap Divisors(b) : d <= Gcd(a, b)
<1> DEFINE S == Divisors(a) \cap Divisors(b)
<1>1. IsFiniteSet(S) /\ S \subseteq Int /\ S # {}
  BY DivisorsOf, FS_Intersection
<1> HIDE DEF S
<1>2. Max(S) \in S /\ \A y \in S : Max(S) >= y
  BY <1>1, MaxOf
<1>3. \A y \in S : y <= Max(S)
  BY <1>1, <1>2
<1> QED BY <1>2, <1>3 DEF S, Gcd

(* No number above one divides both.                                       *)
Coprime(l, r) == \A c \in Nat : c > 1 => ~(l % c = 0 /\ r % c = 0)

(* The least positive sum of multiples of two numbers divides both. *)
IsSumOfMultiples(v, l, r) == \E x, y \in Int : v = l * x + r * y

LEMMA LeastSumDivides ==
    ASSUME NEW l \in Nat \ {0}, NEW r \in Nat \ {0}, NEW g \in Nat \ {0}, NEW n \in Nat \ {0},
           IsSumOfMultiples(g, l, r), IsSumOfMultiples(n, l, r),
           \A v \in Nat \ {0} : IsSumOfMultiples(v, l, r) => g <= v
    PROVE  n % g = 0
<1>1. PICK x \in Int, y \in Int : g = l * x + r * y
  BY Zenon DEF IsSumOfMultiples
<1>2. PICK a \in Int, b \in Int : n = l * a + r * b
  BY Zenon DEF IsSumOfMultiples
<1>3. PICK q \in Int, s \in 0 .. g - 1 : q = n \div g /\ s = n % g /\ n = g * q + s
  BY ONLY n \in Int, g \in Nat \ {0}, DivisionParts
<1>4. s = l * (a - x * q) + r * (b - y * q)
  <2>1. s = (l * a + r * b) - (l * x + r * y) * q
    BY ONLY <1>1, <1>2, <1>3, l \in Int, r \in Int, a \in Int, b \in Int, x \in Int, y \in Int, q \in Int, s \in Int, g \in Int
  <2>2. (l * a + r * b) - (l * x + r * y) * q = l * (a - x * q) + r * (b - y * q)
    BY ONLY l \in Int, r \in Int, a \in Int, b \in Int, x \in Int, y \in Int, q \in Int
  <2> QED BY <2>1, <2>2
<1>5. a - x * q \in Int /\ b - y * q \in Int
  OBVIOUS
<1>6. IsSumOfMultiples(s, l, r)
  BY <1>4, <1>5 DEF IsSumOfMultiples
<1>7. s = 0
  BY <1>6
<1> QED BY <1>3, <1>7

(* One is a sum of multiples of two numbers with no common divisor, hence  *)
(* the inverse of the one modulo the other exists (modular_inverse).       *)
LEMMA Bezout ==
    ASSUME NEW l \in Nat \ {0}, NEW r \in Nat \ {0}, Coprime(l, r)
    PROVE  IsSumOfMultiples(1, l, r)
<1> DEFINE V == {v \in Nat \ {0} : IsSumOfMultiples(v, l, r)}
<1>1. l \in V /\ r \in V
  <2>1. l = l * 1 + r * 0 /\ r = l * 0 + r * 1
    OBVIOUS
  <2> QED BY <2>1 DEF IsSumOfMultiples
<1>2. PICK g \in V : \A v \in V : g <= v
  BY <1>1, NatLeast
<1>3. ASSUME NEW n \in V PROVE n % g = 0
  BY <1>2, LeastSumDivides
<1>4. g \in Nat \ {0} /\ ~(g > 1)
  BY <1>1, <1>3 DEF Coprime
<1>5. g = 1
  BY <1>4
<1> QED BY <1>5

LEMMA InverseMod ==
    ASSUME NEW l \in Nat \ {0}, NEW r \in Nat \ {0}, Coprime(l, r), r > 1
    PROVE  /\ ModularInverse(l % r, r) \in Int
           /\ ((l % r) * ModularInverse(l % r, r)) % r = 1
<1>1. PICK x \in Int, y \in Int : 1 = l * x + r * y
  <2>1. IsSumOfMultiples(1, l, r)
    BY Bezout
  <2> QED BY <2>1, Zenon DEF IsSumOfMultiples
<1>2. PICK a \in Int, m \in 0 .. r - 1 : a = l \div r /\ m = l % r /\ l = r * a + m
  BY ONLY l \in Int, r \in Nat \ {0}, DivisionParts
<1>3. PICK b \in Int, i \in 0 .. r - 1 : b = x \div r /\ i = x % r /\ x = r * b + i
  BY ONLY x \in Int, r \in Nat \ {0}, DivisionParts
<1>4. m * i = r * (a * (r * b) - l * b - a * x - y) + 1
  <2>1. m = l - r * a /\ i = x - r * b
    BY <1>2, <1>3
  <2>2. (l - r * a) * (x - r * b) = (l * x + r * y) + r * (a * (r * b) - l * b - a * x - y)
    BY ONLY l \in Int, r \in Int, x \in Int, y \in Int, a \in Int, b \in Int
  <2> QED BY <1>1, <2>1, <2>2
<1>5. PICK z \in Int : m * i = r * z + 1
  <2>1. a * (r * b) - l * b - a * x - y \in Int
    OBVIOUS
  <2> QED BY <1>4, <2>1
<1>6. (m * i) % r = 1
  BY <1>5, Remainder
<1>7. \E j \in 0 .. r - 1 : (m * j) % r = 1
  BY <1>6
<1>8. ModularInverse(m, r) \in 0 .. r - 1 /\ (m * ModularInverse(m, r)) % r = 1
  <2>1. ModularInverse(m, r) = CHOOSE j \in 0 .. r - 1 : (m * j) % r = 1
    BY DEF ModularInverse
  <2> QED BY <1>7, <2>1, Zenon
<1> QED BY ONLY <1>2, <1>8, r \in Nat \ {0}

(* Points are made of units, units of plays. *)
LEMMA FiresFinite == IsFiniteSet(Fires) /\ Fires \subseteq Nat
<1>1. Fires \subseteq 1 .. 15
  BY DEF Fires
<1>2. 1 \in Int /\ 15 \in Int
  OBVIOUS
<1>3. IsFiniteSet(1 .. 15)
  BY <1>2, FS_Interval
<1>4. IsFiniteSet(Fires)
  BY <1>1, <1>3, FS_Subset
<1> QED BY <1>1, <1>4

(* The plays of each fire cost that plays_for_units takes make the units.  *)
LEMMA CountsMakeUnits ==
    ASSUME NEW u \in Nat
    PROVE  /\ \A f \in Fires : CountOf(f, u) \in Nat
           /\ 15 * CountOf(15, u) + 10 * CountOf(10, u) + 5 * CountOf(5, u) + CountOf(1, u) = u
<1>1. PICK q \in Int, a \in 0 .. 14 : q = u \div 15 /\ a = u % 15 /\ u = 15 * q + a
  OBVIOUS
<1>2. PICK b \in 0 .. 1, c \in 0 .. 9 : b = a \div 10 /\ c = a % 10 /\ a = 10 * b + c
  OBVIOUS
<1>3. PICK d \in 0 .. 1, e \in 0 .. 4 : d = c \div 5 /\ e = c % 5 /\ c = 5 * d + e
  OBVIOUS
<1>4. q >= 0
  BY <1>1
<1>5. CountOf(15, u) = q /\ CountOf(10, u) = b /\ CountOf(5, u) = d /\ CountOf(1, u) = e
  <2>1. CountOf(15, u) = u \div 15
    BY DEF CountOf
  <2>2. CountOf(10, u) = (u % 15) \div 10
    BY DEF CountOf
  <2>3. CountOf(5, u) = ((u % 15) % 10) \div 5
    BY DEF CountOf
  <2>4. CountOf(1, u) = ((u % 15) % 10) % 5
    BY DEF CountOf
  <2> QED BY <1>1, <1>2, <1>3, <2>1, <2>2, <2>3, <2>4
<1>6. 15 * q + 10 * b + 5 * d + e = u
  BY <1>1, <1>2, <1>3
<1>7. \A f \in Fires : f = 15 \/ f = 10 \/ f = 5 \/ f = 1
  BY DEF Fires
<1>8. \A f \in Fires : CountOf(f, u) \in Nat
  BY <1>4, <1>5, <1>7
<1> QED BY <1>5, <1>6, <1>8

LEMMA FireCosts == \A f \in Fires : FireCost(f) \in Nat
BY DEF Fires, FireCost

-----------------------------------------------------------------------------
(* Plans of one and two songs.                                             *)

(* What a plan costs.                                                      *)
Objectives == [plays : Int, fire : Int]

LEMMA ObjectiveType ==
    ASSUME NEW u \in Nat
    PROVE  ObjectiveForUnits(u) \in Objectives
<1> DEFINE counts == [f \in Fires |-> CountOf(f, u)]
           costs == [f \in Fires |-> CountOf(f, u) * FireCost(f)]
<1>1. MapThenSumSet(LAMBDA f : CountOf(f, u), Fires) = Total(counts, Fires)
  <2>1. \A it : IsSum(it, counts, Fires) <=>
                it = [s \in SUBSET Fires |-> IF s = {} THEN 0 ELSE CountOf(Pick(s), u) + it[s \ {Pick(s)}]]
    BY PickIn DEF IsSum, SumStep
  <2> QED BY <2>1 DEF Total, MapThenSumSet, MapThenFoldSet, Pick
<1>2. MapThenSumSet(LAMBDA f : CountOf(f, u) * FireCost(f), Fires) = Total(costs, Fires)
  <2>1. \A it : IsSum(it, costs, Fires) <=>
                it = [s \in SUBSET Fires |->
                        IF s = {} THEN 0 ELSE CountOf(Pick(s), u) * FireCost(Pick(s)) + it[s \ {Pick(s)}]]
    BY PickIn DEF IsSum, SumStep
  <2> QED BY <2>1 DEF Total, MapThenSumSet, MapThenFoldSet, Pick
<1>3. \A f \in Fires : counts[f] \in Int /\ costs[f] \in Int
  BY CountsMakeUnits, FireCosts
<1> HIDE DEF counts, costs
<1>4. Total(counts, Fires) \in Int /\ Total(costs, Fires) \in Int
  BY <1>3, FiresFinite, TotalInt
<1> QED BY <1>1, <1>2, <1>4 DEF ObjectiveForUnits, Objectives

LEMMA DivisorIntro ==
    ASSUME NEW d \in Nat \ {0}, NEW w \in Nat \ {0}
    PROVE  d \in Divisors(d * w)
<1>1. d * w \in Nat /\ d <= d * w
  <2>1. PICK v \in Nat : w = v + 1 
    <3>1. w - 1 \in Nat /\ w = (w - 1) + 1
      OBVIOUS
    <3> QED BY <3>1
  <2>2. d * w = d * v + d /\ d * v >= 0
    BY <2>1
  <2> QED BY <2>2
<1>2. (d * w + 0) % d = 0
  BY Remainder
<1>3. d * w + 0 = d * w
  BY <1>1
<1> QED BY <1>1, <1>2, <1>3 DEF Divisors

(* What is left of two numbers without their greatest common divisor.      *)
LEMMA GcdParts ==
    ASSUME NEW left \in Nat \ {0}, NEW right \in Nat \ {0},
           NEW d, d = Gcd(left, right), NEW l, l = left \div d, NEW r, r = right \div d
    PROVE  /\ d \in Nat \ {0} /\ l \in Nat \ {0} /\ r \in Nat \ {0}
           /\ left = d * l /\ right = d * r /\ Coprime(l, r)
<1>1. d \in Divisors(left) /\ d \in Divisors(right)
  BY GcdDivides
<1>2. d \in Nat \ {0}
  BY <1>1, DivisorsOf
<1>3. left = d * l /\ right = d * r /\ l \in Nat \ {0} /\ r \in Nat \ {0}
  BY <1>1, Multiple
<1>4. ASSUME NEW c \in Nat, c > 1, l % c = 0, r % c = 0 PROVE FALSE
  <2>1. c \in Divisors(l) /\ c \in Divisors(r)
    <3>1. l \in Nat \ {0} /\ r \in Nat \ {0} /\ c \in Nat \ {0}
      BY <1>3, <1>4
    <3>2. l < c => l % c = l
      BY <3>1
    <3>3. r < c => r % c = r
      BY <3>1
    <3> QED BY <1>4, <3>1, <3>2, <3>3 DEF Divisors
  <2>2. PICK w \in Nat \ {0} : l = c * w
    <3>1. l = c * (l \div c) /\ l \div c \in Nat \ {0}
      BY <1>3, <2>1, Multiple
    <3> QED BY <3>1
  <2>3. PICK v \in Nat \ {0} : r = c * v
    <3>1. r = c * (r \div c) /\ r \div c \in Nat \ {0}
      BY <1>3, <2>1, Multiple
    <3> QED BY <3>1
  <2>4. PICK e \in Nat \ {0} : e = d * c /\ e > d
    <3>1. d * c = d + d * (c - 1) /\ d * (c - 1) >= 1
      BY <1>2, <1>4
    <3> QED BY <1>2, <3>1
  <2>5. left = e * w /\ right = e * v
    <3>1. d * (c * w) = (d * c) * w /\ d * (c * v) = (d * c) * v
      BY ONLY <1>2, c \in Nat, w \in Nat \ {0}, v \in Nat \ {0}
    <3> QED BY <1>3, <2>2, <2>3, <2>4, <3>1
  <2>6. e \in Divisors(left) /\ e \in Divisors(right)
    BY <2>5, DivisorIntro
  <2>7. e <= d
    BY <2>6, GcdDivides
  <2> QED BY <1>2, <2>4, <2>7
<1> QED BY <1>2, <1>3, <1>4 DEF Coprime

(* The same modulo r.                                                      *)
Congruent(a, b, r) == \E z \in Int : a = b + r * z

(* The left units of a solution, modulo the right song's points. *)
LEMMA LeftUnits ==
    ASSUME NEW l \in Nat \ {0}, NEW r \in Nat \ {0}, Coprime(l, r), NEW m \in Int,
           NEW e, e = ((m % r) * ModularInverse(l % r, r)) % r
    PROVE  e \in 0 .. r - 1 /\ Congruent(l * e, m, r)
<1> USE DEF Congruent
<1>1. CASE r = 1
  <2>1. \A x \in Int : x % 1 = 0
    OBVIOUS
  <2>2. ModularInverse(l % r, r) = 0 /\ m % r = 0
    BY <1>1, <2>1 DEF ModularInverse
  <2>3. e = 0
    BY <1>1, <2>2
  <2>4. l * e = m + r * (-m)
    BY <1>1, <2>3
  <2> QED BY <1>1, <2>3, <2>4
<1>2. CASE r > 1
  <2>1. PICK i \in Int : i = ModularInverse(l % r, r) /\ ((l % r) * i) % r = 1
    BY <1>2, InverseMod
  <2>2. PICK a \in Int, k \in 0 .. r - 1 : a = l \div r /\ k = l % r /\ l = r * a + k
    BY ONLY l \in Int, r \in Nat \ {0}, DivisionParts
  <2>3. PICK c \in Int, n \in 0 .. r - 1 : c = m \div r /\ n = m % r /\ m = r * c + n
    BY ONLY m \in Int, r \in Nat \ {0}, DivisionParts
  <2>4. k * i \in Int /\ n * i \in Int
    OBVIOUS
  <2>5. PICK b \in Int, o \in 0 .. r - 1 : b = (k * i) \div r /\ o = (k * i) % r /\ k * i = r * b + o
    BY ONLY k * i \in Int, r \in Nat \ {0}, DivisionParts, <2>4
  <2>6. PICK f \in Int, s \in 0 .. r - 1 : f = (n * i) \div r /\ s = (n * i) % r /\ n * i = r * f + s
    BY ONLY n * i \in Int, r \in Nat \ {0}, DivisionParts, <2>4
  <2>7. o = 1 /\ s = e
    BY <2>1, <2>2, <2>3, <2>5, <2>6
  <2>8. l * s = m + r * (a * (n * i - r * f) - k * f + n * b - c)
    <3>1. l * s = (r * a + k) * (n * i - r * f)
      BY <2>2, <2>6
    <3>2. (r * a + k) * (n * i - r * f) = r * (a * (n * i - r * f)) + n * (k * i) - r * (k * f)
      BY ONLY r \in Int, a \in Int, k \in Int, n \in Int, i \in Int, f \in Int
    <3>3. n * (k * i) = n * (r * b + 1)
      BY <2>5, <2>7
    <3>4. n = m - r * c
      BY <2>3
    <3>5. PICK t \in Int : t = a * (n * i - r * f)
      OBVIOUS
    <3>6. l * s = r * t + n * (r * b + 1) - r * (k * f)
      BY <3>1, <3>2, <3>3, <3>5
    <3>7. r * t + n * (r * b + 1) - r * (k * f) = n + r * (t - k * f + n * b)
      BY ONLY r \in Int, t \in Int, n \in Int, b \in Int, k \in Int, f \in Int
    <3>8. n + r * (t - k * f + n * b) = m + r * (t - k * f + n * b - c)
      BY ONLY <3>4, r \in Int, t \in Int, n \in Int, b \in Int, k \in Int, f \in Int, m \in Int, c \in Int
    <3> QED BY <3>5, <3>6, <3>7, <3>8
  <2>9. a * (n * i - r * f) - k * f + n * b - c \in Int
    OBVIOUS
  <2> QED BY <2>7, <2>8, <2>9
<1> QED BY <1>1, <1>2

(* What best_two_song_plan must return. *)
MakesTarget(p, target, left, right) ==
    /\ p.left = left /\ p.right = right
    /\ p.leftUnits \in Nat \ {0} /\ p.rightUnits \in Nat \ {0}
    /\ left * p.leftUnits + right * p.rightUnits = target

(* Objectives are ordered. *)
LEMMA BetterTotal ==
    ASSUME NEW o \in Objectives, NEW p \in Objectives, o # p
    PROVE  Better(o, p) \/ Better(p, o)
<1>1. /\ o.plays \in Int /\ o.fire \in Int /\ o = [plays |-> o.plays, fire |-> o.fire]
      /\ p.plays \in Int /\ p.fire \in Int /\ p = [plays |-> p.plays, fire |-> p.fire]
  BY DEF Objectives
<1>2. o.plays # p.plays \/ o.fire # p.fire
  BY <1>1
<1> QED BY ONLY <1>1, <1>2 DEF Better

LEMMA BetterTransitive ==
    ASSUME NEW o \in Objectives, NEW p \in Objectives, NEW q \in Objectives,
           Better(o, p), Better(p, q)
    PROVE  Better(o, q)
<1>1. /\ o.plays \in Int /\ o.fire \in Int /\ p.plays \in Int /\ p.fire \in Int
      /\ q.plays \in Int /\ q.fire \in Int
  BY DEF Objectives
<1> QED BY <1>1 DEF Better

(* Plans that differ do so in the units of the left song.                  *)
OneForUnits(plans) == \A p, q \in plans : p.leftUnits = q.leftUnits => p = q

LEMMA FirstPlan ==
    ASSUME NEW plans, IsFiniteSet(plans), plans # {},
           \A p \in plans : p.objective \in Objectives /\ p.leftUnits \in Int,
           OneForUnits(plans)
    PROVE  (CHOOSE p \in plans : \A q \in plans \ {p} : TwoSongBefore(p, q)) \in plans
<1> USE DEF OneForUnits
<1> DEFINE R == {pq \in plans \X plans : TwoSongBefore(pq[1], pq[2])}
<1>1. \A p, q \in plans : <<p, q>> \in R <=> TwoSongBefore(p, q)
  OBVIOUS
<1>3. Orders(R, plans)
  <2> HIDE DEF R
  <2>1. ASSUME NEW p \in plans, NEW q \in plans, p # q
        PROVE  <<p, q>> \in R \/ <<q, p>> \in R
    <3>1. p.leftUnits # q.leftUnits /\ p.leftUnits \in Int /\ q.leftUnits \in Int
      BY <2>1
    <3>2. TwoSongBefore(p, q) \/ TwoSongBefore(q, p)
      <4>1. CASE p.objective = q.objective
        BY <3>1, <4>1 DEF TwoSongBefore
      <4>2. CASE p.objective # q.objective
        BY <4>2, BetterTotal DEF TwoSongBefore
      <4> QED BY <4>1, <4>2
    <3> QED BY <1>1, <3>2
  <2>2. ASSUME NEW p \in plans, NEW q \in plans, NEW s \in plans, <<p, q>> \in R, <<q, s>> \in R
        PROVE  <<p, s>> \in R
    <3>1. TwoSongBefore(p, q) /\ TwoSongBefore(q, s)
      BY <1>1, <2>2
    <3>2. TwoSongBefore(p, s)
      <4>1. p.leftUnits \in Int /\ q.leftUnits \in Int /\ s.leftUnits \in Int
        OBVIOUS
      <4>2. /\ Better(p.objective, q.objective) /\ Better(q.objective, s.objective)
                  => Better(p.objective, s.objective)
        BY BetterTransitive
      <4>3. \/ Better(p.objective, q.objective)
            \/ p.objective = q.objective /\ p.leftUnits < q.leftUnits
        BY <3>1 DEF TwoSongBefore
      <4>4. \/ Better(q.objective, s.objective)
            \/ q.objective = s.objective /\ q.leftUnits < s.leftUnits
        BY <3>1 DEF TwoSongBefore
      <4>5. \/ Better(p.objective, s.objective)
            \/ p.objective = s.objective /\ p.leftUnits < s.leftUnits
        BY ONLY <4>1, <4>2, <4>3, <4>4
      <4> QED BY <4>5 DEF TwoSongBefore
    <3> QED BY <1>1, <3>2
  <2> QED BY <2>1, <2>2 DEF Orders
<1> HIDE DEF R
<1>4. PICK p \in plans : \A q \in plans \ {p} : <<p, q>> \in R
  BY <1>3, LeastExists
<1>5. \A q \in plans \ {p} : TwoSongBefore(p, q)
  BY <1>1, <1>4
<1> QED BY <1>5

(* best_two_song_plan: whatever the points of the two songs, the plan that *)
(* it returns plays both and makes exactly the points that were asked for. *)
THEOREM TwoSongExact ==
    ASSUME NEW target \in Int, NEW left \in Nat \ {0}, NEW right \in Nat \ {0},
           BestTwoSongPlan(target, left, right) # NoPlan
    PROVE  /\ MakesTarget(BestTwoSongPlan(target, left, right), target, left, right)
           /\ BestTwoSongPlan(target, left, right).objective \in Objectives
<1> DEFINE remaining == target - left - right
           divisor == Gcd(left, right)
           l == left \div divisor
           r == right \div divisor
           extraLeft == (((remaining \div divisor) % r) * ModularInverse(l % r, r)) % r
           extraRight == (remaining - left * extraLeft) \div right
           steps == Min({14, extraRight \div l})
           plan(k) == TwoSongUnits(left, right, 1 + extraLeft + k * r, 1 + extraRight - k * l)
           plans == {plan(k) : k \in 0 .. steps}
           best == CHOOSE p \in plans : \A q \in plans \ {p} : TwoSongBefore(p, q)
<1>1. BestTwoSongPlan(target, left, right)
        = IF remaining < 0 \/ remaining % divisor # 0 \/ left * extraLeft > remaining
          THEN NoPlan ELSE best
  BY DEF BestTwoSongPlan
<1>2. /\ BestTwoSongPlan(target, left, right) = best
      /\ ~(remaining < 0) /\ remaining % divisor = 0 /\ ~(left * extraLeft > remaining)
  BY <1>1
<1> HIDE DEF best
<1>3. PICK re : re = remaining
  OBVIOUS
<1>4. PICK d : d = divisor
  OBVIOUS
<1>5. PICK ll, rr : ll = l /\ rr = r
  OBVIOUS
<1>6. PICK e : e = extraLeft
  OBVIOUS
<1>7. PICK x : x = extraRight
  OBVIOUS
<1> HIDE DEF remaining, divisor, l, r, extraLeft, extraRight, steps, plan, plans
<1>8. re \in Int /\ re = target - left - right /\ ~(re < 0) /\ re % d = 0 /\ ~(left * e > re)
  BY <1>2, <1>3, <1>4, <1>6 DEF remaining
<1>9. /\ d \in Nat \ {0} /\ ll \in Nat \ {0} /\ rr \in Nat \ {0}
      /\ left = d * ll /\ right = d * rr /\ Coprime(ll, rr)
  <2>1. d = Gcd(left, right) /\ ll = left \div d /\ rr = right \div d
    BY <1>4, <1>5 DEF divisor, l, r
  <2> QED BY <2>1, GcdParts
<1>10. PICK m \in Int : m = re \div d /\ re = d * m
  <2>1. PICK q \in Int, s \in 0 .. d - 1 : q = re \div d /\ s = re % d /\ re = d * q + s
    BY ONLY <1>8, <1>9, DivisionParts
  <2> QED BY <1>8, <1>9, <2>1
<1>11. e \in 0 .. rr - 1 /\ Congruent(ll * e, m, rr)
  <2>1. e = ((m % rr) * ModularInverse(ll % rr, rr)) % rr
    BY <1>3, <1>4, <1>5, <1>6, <1>10 DEF extraLeft
  <2>2. e \in 0 .. rr - 1
    BY ONLY <1>9, m \in Int, <2>1, LeftUnits
  <2>3. Congruent(ll * e, m, rr)
    BY ONLY <1>9, m \in Int, <2>1, LeftUnits
  <2> QED BY <2>2, <2>3
<1>12. PICK z \in Int : ll * e = m + rr * z
  BY <1>11 DEF Congruent
<1>13. re - left * e = right * (-z)
  <2>1. re - left * e = d * m - d * (ll * e)
    BY <1>9, <1>10, <1>11
  <2>2. d * m - d * (m + rr * z) = (d * rr) * (-z)
    BY ONLY <1>9, m \in Int, z \in Int
  <2> QED BY <1>9, <1>12, <2>1, <2>2
<1>14. x = -z
  <2>1. x = (re - left * e) \div right
    BY <1>3, <1>6, <1>7 DEF extraRight
  <2>2. (right * (-z) + 0) \div right = -z
    BY Remainder
  <2>3. right * (-z) + 0 = right * (-z)
    OBVIOUS
  <2> QED BY <1>13, <2>1, <2>2, <2>3
<1>15. x \in Nat
  <2>1. right * x >= 0
    BY <1>8, <1>11, <1>13, <1>14
  <2>2. x \in Int /\ (x < 0 => right * x < 0)
    BY <1>14
  <2> QED BY <2>1, <2>2
<1>16. PICK most : most = steps
  OBVIOUS
<1>17. most \in Nat /\ most * ll <= x
  <2>1. PICK q \in Int, s \in 0 .. ll - 1 : q = x \div ll /\ s = x % ll /\ x = ll * q + s
    BY ONLY <1>9, <1>15, DivisionParts
  <2>2. q >= 0
    <3>1. q <= -1 => ll * q <= -ll
      BY ONLY <1>9, q \in Int
    <3> QED BY <1>9, <1>15, <2>1, <3>1
  <2>3. most = Min({14, q})
    BY <1>5, <1>7, <1>16, <2>1 DEF steps
  <2>4. {14, q} \subseteq Int /\ {14, q} # {} /\ IsFiniteSet({14, q})
    <3>1. {14, q} \subseteq 0 .. (14 + q) /\ 0 \in Int /\ 14 + q \in Int
      BY <2>2
    <3>2. IsFiniteSet({14, q})
      BY <3>1, FS_Interval, FS_Subset
    <3> QED BY <3>2
  <2>5. most \in {14, q} /\ most <= q
    BY <2>3, <2>4, MinOf
  <2>6. most \in Nat
    BY <2>2, <2>5
  <2>7. ll * most <= ll * q
    BY ONLY <1>9, <2>5, <2>6, q \in Int
  <2>8. most * ll = ll * most
    BY <1>9, <2>6
  <2> QED BY <1>9, <2>1, <2>6, <2>7, <2>8
<1>18. ASSUME NEW k \in 0 .. most
       PROVE  /\ plan(k) = TwoSongUnits(left, right, 1 + e + k * rr, 1 + x - k * ll)
              /\ 1 + e + k * rr \in Nat \ {0} /\ 1 + x - k * ll \in Nat \ {0}
              /\ left * (1 + e + k * rr) + right * (1 + x - k * ll) = target
  <2>1. plan(k) = TwoSongUnits(left, right, 1 + e + k * rr, 1 + x - k * ll)
    BY <1>5, <1>6, <1>7 DEF plan
  <2>2. k \in Nat /\ k <= most
    BY <1>17
  <2>3. k * rr \in Nat /\ k * ll \in Nat /\ k * ll <= most * ll
    BY ONLY <1>9, <1>17, <2>2
  <2>4. left * e + right * x = re
    <3>1. e \in Int /\ left * e \in Int /\ right * x \in Int /\ re \in Int
      BY <1>8, <1>11, <1>15
    <3> QED BY <1>13, <1>14, <3>1
  <2>5. left * (k * rr) = right * (k * ll)
    <3>1. (d * ll) * (k * rr) = (d * rr) * (k * ll)
      BY ONLY <1>9, <2>2
    <3> QED BY <1>9, <3>1
  <2>6. left * (1 + e + k * rr) + right * (1 + x - k * ll)
          = left + right + (left * e + right * x) + (left * (k * rr) - right * (k * ll))
    <3>1. PICK a \in Int, b \in Int : a = k * rr /\ b = k * ll
      BY <2>3
    <3>2. left * (1 + e + a) + right * (1 + x - b)
            = left + right + (left * e + right * x) + (left * a - right * b)
      BY ONLY a \in Int, b \in Int, left \in Nat \ {0}, right \in Nat \ {0}, <1>11, <1>15
    <3> QED BY <3>1, <3>2
  <2>7. left * (1 + e + k * rr) + right * (1 + x - k * ll) = target
    BY <1>8, <2>3, <2>4, <2>5, <2>6
  <2>8. 1 + e + k * rr \in Nat \ {0} /\ 1 + x - k * ll \in Nat \ {0}
    <3>1. PICK a \in Nat, b \in Nat : a = k * rr /\ b = k * ll /\ b <= x
      <4>1. most * ll \in Nat
        BY <1>9, <1>17
      <4> QED BY <1>15, <1>17, <2>3, <4>1
    <3>2. 1 + e + a \in Nat \ {0} /\ 1 + x - b \in Nat \ {0}
      BY ONLY <1>9, <1>11, <1>15, <3>1, a \in Nat, b \in Nat
    <3> QED BY <3>1, <3>2
  <2> QED BY <2>1, <2>7, <2>8
<1>19. \A p \in plans : /\ MakesTarget(p, target, left, right)
                        /\ p.objective \in Objectives
  <2> SUFFICES ASSUME NEW k \in 0 .. most
               PROVE  MakesTarget(plan(k), target, left, right) /\ plan(k).objective \in Objectives
    BY <1>16 DEF plans
  <2>1. PICK u \in Nat \ {0}, v \in Nat \ {0} :
           plan(k) = TwoSongUnits(left, right, u, v) /\ left * u + right * v = target
    BY <1>18
  <2>2. MakesTarget(plan(k), target, left, right)
    BY <2>1 DEF MakesTarget, TwoSongUnits
  <2>3. ObjectiveForUnits(u) \in Objectives /\ ObjectiveForUnits(v) \in Objectives
    BY ObjectiveType
  <2>4. plan(k).objective = Plus(ObjectiveForUnits(u), ObjectiveForUnits(v))
    BY <2>1 DEF TwoSongUnits
  <2> QED BY <2>2, <2>3, <2>4 DEF Plus, Objectives
<1>20. IsFiniteSet(plans) /\ plans # {}
  <2>1. IsFiniteSet(0 .. most) /\ 0 \in 0 .. most
    BY <1>17, FS_Interval
  <2> DEFINE f == [k \in 0 .. most |-> plan(k)]
  <2>2. plans = {f[k] : k \in 0 .. most}
    BY <1>16 DEF plans
  <2> HIDE DEF f
  <2> QED BY <2>1, <2>2, FiniteImage
<1>21. ASSUME NEW p \in plans, NEW q \in plans, p.leftUnits = q.leftUnits PROVE p = q
  <2>1. PICK j \in 0 .. most : p = plan(j)
    BY <1>16 DEF plans
  <2>2. PICK k \in 0 .. most : q = plan(k)
    BY <1>16 DEF plans
  <2>3. p.leftUnits = 1 + e + j * rr /\ q.leftUnits = 1 + e + k * rr
    BY <1>18, <2>1, <2>2 DEF TwoSongUnits
  <2>4. j \in Nat /\ k \in Nat /\ e \in Nat
    BY <1>11, <1>17
  <2>5. j * rr = k * rr
    <3>1. PICK a \in Int, b \in Int : a = j * rr /\ b = k * rr
      BY <1>9, <2>4
    <3>2. 1 + e + a = 1 + e + b
      BY <1>21, <2>3, <3>1
    <3> QED BY ONLY <2>4, <3>1, <3>2, a \in Int, b \in Int
  <2>6. j = k
    BY ONLY <1>9, <2>4, <2>5
  <2> QED BY <2>1, <2>2, <2>6
<1>22. best \in plans
  <2>1. OneForUnits(plans)
    BY <1>21 DEF OneForUnits
  <2>2. \A p \in plans : p.objective \in Objectives /\ p.leftUnits \in Int
    BY <1>19 DEF MakesTarget
  <2> QED BY <1>20, <2>1, <2>2, FirstPlan DEF best
<1> QED BY <1>2, <1>19, <1>22

LEMMA TotalAdd ==
    ASSUME NEW S, IsFiniteSet(S), NEW x, x \notin S, NEW g, \A y \in S \cup {x} : g[y] \in Int
    PROVE  Total(g, S \cup {x}) = g[x] + Total(g, S)
<1>1. IsFiniteSet(S \cup {x}) /\ x \in S \cup {x}
  BY FS_AddElement
<1>2. Total(g, S \cup {x}) = g[x] + Total(g, (S \cup {x}) \ {x})
  BY <1>1, TotalRemove
<1>3. (S \cup {x}) \ {x} = S
  OBVIOUS
<1> QED BY <1>2, <1>3

(* The points of each of a set of plays.                                   *)
Worth(plays) == [p \in plays |-> p.pt * p.count]

LEMMA ProducedIsTotal ==
    ASSUME NEW plays
    PROVE  Produced(plays) = Total(Worth(plays), plays)
<1>1. \A it : IsSum(it, Worth(plays), plays) <=>
              it = [s \in SUBSET plays |-> IF s = {} THEN 0 ELSE Pick(s).pt * Pick(s).count + it[s \ {Pick(s)}]]
  BY PickIn DEF IsSum, SumStep, Worth
<1> QED BY <1>1 DEF Produced, Total, MapThenSumSet, MapThenFoldSet, Pick

UnitsAdd(song, score, points, units) ==
    Produced(PlaysForUnits(song, score, points, units)) = points * units

(* Playing a song a number of units makes its points times the units,      *)
(* however the units are split among the fire costs.                       *)
THEOREM UnitsProduce ==
    ASSUME NEW song, NEW score, NEW points \in Nat, NEW units \in Nat
    PROVE  /\ IsFiniteSet(PlaysForUnits(song, score, points, units))
           /\ \A p \in PlaysForUnits(song, score, points, units) :
                 /\ p.song = song /\ p.score = score /\ p.fire \in Nat /\ p.pt = p.fire * points
                 /\ p.pt * p.count \in Nat
           /\ UnitsAdd(song, score, points, units)
<1> DEFINE play(f) == [song |-> song, score |-> score, fire |-> f, pt |-> points * f, count |-> CountOf(f, units)]
           all == {play(f) : f \in Fires}
           part(F) == {play(f) : f \in {g \in F : CountOf(g, units) > 0}}
           w == Worth(all)
<1>1. \A f \in Fires : f \in Nat /\ CountOf(f, units) \in Nat
  BY FiresFinite, CountsMakeUnits
<1>2. IsFiniteSet(all)
  <2> DEFINE h == [f \in Fires |-> play(f)]
  <2>1. all = {h[f] : f \in Fires}
    OBVIOUS
  <2> HIDE DEF h, all
  <2> QED BY <2>1, FiresFinite, FiniteImage
<1>3. \A F \in SUBSET Fires : part(F) \subseteq all
  OBVIOUS
<1>4. ASSUME NEW f \in Fires PROVE w[play(f)] = points * f * CountOf(f, units) /\ w[play(f)] \in Nat
  BY <1>1 DEF Worth
<1>5. ASSUME NEW F \in SUBSET Fires, NEW f \in Fires \ F
      PROVE  Total(w, part(F \cup {f})) = points * f * CountOf(f, units) + Total(w, part(F))
  <2>1. IsFiniteSet(part(F)) /\ \A p \in part(F \cup {f}) : w[p] \in Int
    <3>1. IsFiniteSet(part(F))
      <4> HIDE DEF part, all
      <4> QED BY <1>2, <1>3, FS_Subset
    <3> HIDE DEF w
    <3> QED BY <1>4, <3>1
  <2>2. Total(w, part(F)) \in Int
    <3>1. \A p \in part(F) : w[p] \in Int
      BY <2>1
    <3> HIDE DEF w, part
    <3> QED BY <2>1, <3>1, TotalInt
  <2>3. CASE CountOf(f, units) > 0
    <3>1. part(F \cup {f}) = part(F) \cup {play(f)}
      BY <2>3
    <3>2. play(f) \notin part(F)
      OBVIOUS
    <3> HIDE DEF w, part, play
    <3>3. Total(w, part(F) \cup {play(f)}) = w[play(f)] + Total(w, part(F))
      BY <2>1, <3>1, <3>2, TotalAdd
    <3> QED BY <1>4, <3>1, <3>3
  <2>4. CASE ~(CountOf(f, units) > 0)
    <3>1. part(F \cup {f}) = part(F)
      BY <2>4
    <3>2. points * f * CountOf(f, units) = 0
      BY <1>1, <2>4
    <3> HIDE DEF w, part, play
    <3> QED BY <2>2, <3>1, <3>2
  <2> QED BY <2>3, <2>4
<1>6. Total(w, part(Fires)) = points * units
  <2>1. part({}) = {}
    OBVIOUS
  <2> DEFINE none == {}
             one == {15}
             two == {15, 10}
             three == {15, 10, 5}
  <2>2. /\ none \in SUBSET Fires /\ one \in SUBSET Fires /\ two \in SUBSET Fires /\ three \in SUBSET Fires
          /\ none = {} /\ one = none \cup {15} /\ two = one \cup {10} /\ three = two \cup {5} /\ Fires = three \cup {1}
          /\ 10 \notin one /\ 5 \notin two /\ 1 \notin three /\ {1, 5, 10, 15} \subseteq Fires
          /\ 15 \notin none
    BY DEF Fires
  <2> HIDE DEF part, w, none, one, two, three
  <2>3. Total(w, part(none)) = 0
    BY <2>1, TotalEmpty DEF none
  <2>4. Total(w, part(none \cup {15})) = points * 15 * CountOf(15, units) + Total(w, part(none))
    BY <1>5, <2>2
  <2>5. Total(w, part(one \cup {10})) = points * 10 * CountOf(10, units) + Total(w, part(one))
    BY <1>5, <2>2
  <2>6. Total(w, part(two \cup {5})) = points * 5 * CountOf(5, units) + Total(w, part(two))
    BY <1>5, <2>2
  <2>7. Total(w, part(three \cup {1})) = points * 1 * CountOf(1, units) + Total(w, part(three))
    BY <1>5, <2>2
  <2>8. PICK a \in Nat, b \in Nat, c \in Nat, d \in Nat :
            /\ a = CountOf(15, units) /\ b = CountOf(10, units)
            /\ c = CountOf(5, units) /\ d = CountOf(1, units)
            /\ 15 * a + 10 * b + 5 * c + d = units
    <3>1. /\ CountOf(15, units) \in Nat /\ CountOf(10, units) \in Nat
          /\ CountOf(5, units) \in Nat /\ CountOf(1, units) \in Nat
      BY <1>1, <2>2
    <3>2. 15 * CountOf(15, units) + 10 * CountOf(10, units) + 5 * CountOf(5, units) + CountOf(1, units) = units
      BY CountsMakeUnits
    <3> QED BY ONLY <3>1, <3>2
  <2>9. Total(w, part(Fires)) = points * 1 * d + (points * 5 * c + (points * 10 * b + (points * 15 * a + 0)))
    <3>1. /\ Total(w, part(one)) = points * 15 * CountOf(15, units) + 0
          /\ Total(w, part(two)) = points * 10 * CountOf(10, units) + Total(w, part(one))
          /\ Total(w, part(three)) = points * 5 * CountOf(5, units) + Total(w, part(two))
          /\ Total(w, part(Fires)) = points * 1 * CountOf(1, units) + Total(w, part(three))
      BY ONLY <2>2, <2>3, <2>4, <2>5, <2>6, <2>7
    <3> QED BY ONLY <2>8, <3>1
  <2>10. points * 1 * d + (points * 5 * c + (points * 10 * b + (points * 15 * a + 0)))
           = points * (15 * a + 10 * b + 5 * c + d)
    BY ONLY points \in Nat, a \in Nat, b \in Nat, c \in Nat, d \in Nat
  <2> QED BY <2>8, <2>9, <2>10
<1>7. PlaysForUnits(song, score, points, units) = part(Fires)
  BY DEF PlaysForUnits
<1>8. IsFiniteSet(part(Fires)) /\ part(Fires) \subseteq all
  <2>1. part(Fires) \subseteq all
    OBVIOUS
  <2> HIDE DEF part, all
  <2> QED BY <1>2, <2>1, FS_Subset
<1>9. Total(Worth(part(Fires)), part(Fires)) = Total(w, part(Fires))
  <2>1. \A p \in part(Fires) : Worth(part(Fires))[p] = w[p]
    BY <1>8 DEF Worth
  <2> HIDE DEF part, w
  <2> QED BY <1>8, <2>1, TotalSame
<1>10. \A p \in part(Fires) : /\ p.song = song /\ p.score = score /\ p.fire \in Nat /\ p.pt = p.fire * points
                              /\ p.pt * p.count \in Nat
  BY <1>1
<1> HIDE DEF part, w
<1> QED BY <1>6, <1>7, <1>8, <1>9, <1>10, ProducedIsTotal DEF UnitsAdd

(* Plays of two songs add up. *)
LEMMA ProducedTogether ==
    ASSUME NEW P, IsFiniteSet(P), NEW Q, IsFiniteSet(Q), P \cap Q = {},
           \A p \in P \cup Q : p.pt * p.count \in Int
    PROVE  Produced(P \cup Q) = Produced(P) + Produced(Q)
<1> DEFINE w == Worth(P \cup Q)
<1>1. \A p \in P \cup Q : w[p] \in Int
  BY DEF Worth
<1>2. /\ \A p \in P : Worth(P)[p] = w[p]
      /\ \A p \in Q : Worth(Q)[p] = w[p]
  BY DEF Worth
<1>3. Produced(P \cup Q) = Total(w, P \cup Q)
  BY ProducedIsTotal
<1> HIDE DEF w
<1>4. Total(w, P \cup Q) = Total(w, P) + Total(w, Q)
  BY <1>1, TotalUnion
<1>5. Produced(P) = Total(w, P) /\ Produced(Q) = Total(w, Q)
  BY <1>2, ProducedIsTotal, TotalSame
<1> QED BY <1>3, <1>4, <1>5

(* What the search knows of its layers. *)
IsPlan(p, target) ==
    /\ p # NoPlan /\ p.left \in Nat \ {0} /\ p.right \in Nat \ {0} /\ p.left < p.right
    /\ p = BestTwoSongPlan(target, p.left, p.right)
    /\ MakesTarget(p, target, p.left, p.right)

(* A layer of plans of one song, whose points divide the target.           *)
IsOneSongLayer(l, target) ==
    /\ l.points \in Divisors(target)
    /\ l = [objective |-> ObjectiveForUnits(target \div l.points), points |-> l.points, plans |-> {}]

(* A layer of plans of two songs at the same cost.                         *)
IsTwoSongLayer(l, target, plans) ==
    /\ l.points = 0 /\ l.plans \subseteq plans
    /\ l = [objective |-> l.objective, points |-> 0, plans |-> {p \in plans : p.objective = l.objective}]

LEMMA PlansOfTwo ==
    ASSUME NEW target \in Nat \ {0}, NEW min \in Nat \ {0}, NEW max \in Int
    PROVE  /\ IsFiniteSet(TwoSongPlans(target, min, max))
           /\ \A p \in TwoSongPlans(target, min, max) : IsPlan(p, target) /\ p.objective \in Objectives
<1> DEFINE pairs == {p \in (min .. max) \X (min .. max) : p[1] < p[2]}
           plan == [pair \in pairs |-> BestTwoSongPlan(target, pair[1], pair[2])]
           plans == {plan[pair] : pair \in pairs}
<1>1. IsFiniteSet(pairs)
  <2>1. IsFiniteSet(min .. max)
    BY FS_Interval
  <2>2. IsFiniteSet((min .. max) \X (min .. max))
    BY <2>1, FS_Product
  <2> QED BY <2>2, FS_Subset
<1>2. TwoSongPlans(target, min, max) = plans \ {NoPlan}
  BY DEF TwoSongPlans
<1>3. IsFiniteSet(plans)
  <2> HIDE DEF plan, pairs
  <2> QED BY <1>1, FiniteImage
<1>4. IsFiniteSet(plans \ {NoPlan})
  <2> HIDE DEF plans
  <2> QED BY <1>3, FS_Difference
<1>5. ASSUME NEW p \in plans \ {NoPlan} PROVE IsPlan(p, target) /\ p.objective \in Objectives
  <2>1. PICK pair \in pairs : p = BestTwoSongPlan(target, pair[1], pair[2])
    OBVIOUS
  <2>2. PICK left \in Nat \ {0}, right \in Nat \ {0} : left = pair[1] /\ right = pair[2] /\ left < right
    <3>1. pair[1] \in Nat \ {0} /\ pair[2] \in Nat \ {0} /\ pair[1] < pair[2]
      OBVIOUS
    <3> QED BY <3>1
  <2>3. p = BestTwoSongPlan(target, left, right) /\ p # NoPlan
    BY <2>1, <2>2
  <2>4. MakesTarget(p, target, left, right) /\ p.objective \in Objectives
    BY <2>3, TwoSongExact
  <2>5. p.left = left /\ p.right = right
    BY <2>4 DEF MakesTarget
  <2> QED BY <2>2, <2>3, <2>4, <2>5 DEF IsPlan
<1> QED BY <1>2, <1>4, <1>5

(* The layers are of one of these two kinds.                               *)
LEMMA LayerKinds ==
    ASSUME NEW target \in Nat \ {0}, NEW min \in Nat \ {0}, NEW max \in Int
    PROVE  /\ IsFiniteSet(SearchLayers(target, min, max))
           /\ \A l \in SearchLayers(target, min, max) :
                 /\ l.objective \in Objectives
                 /\ \/ IsOneSongLayer(l, target)
                    \/ IsTwoSongLayer(l, target, TwoSongPlans(target, min, max))
<1> DEFINE one == [p \in Divisors(target) |->
                     [objective |-> ObjectiveForUnits(target \div p), points |-> p, plans |-> {}]]
           plans == TwoSongPlans(target, min, max)
           objectives == {p.objective : p \in plans}
           two == [o \in objectives |-> [objective |-> o, points |-> 0, plans |-> {p \in plans : p.objective = o}]]
<1>1. IsFiniteSet({one[p] : p \in Divisors(target)})
  <2> HIDE DEF one
  <2> QED BY DivisorsOf, FiniteImage
<1>2. OneSongLayers(target) = {one[p] : p \in Divisors(target)}
  BY DEF OneSongLayers
<1>3. IsFiniteSet(plans) /\ \A p \in plans : p.objective \in Objectives
  BY PlansOfTwo
<1>4. TwoSongLayers(target, min, max) = {two[o] : o \in objectives}
  BY DEF TwoSongLayers
<1>5. IsFiniteSet(objectives)
  <2> DEFINE f == [p \in plans |-> p.objective]
  <2>1. objectives = {f[p] : p \in plans}
    OBVIOUS
  <2> HIDE DEF plans, f
  <2> QED BY <1>3, <2>1, FiniteImage
<1>6. IsFiniteSet({two[o] : o \in objectives})
  <2> HIDE DEF objectives, two
  <2> QED BY <1>5, FiniteImage
<1>7. ASSUME NEW l \in OneSongLayers(target)
      PROVE  l.objective \in Objectives /\ IsOneSongLayer(l, target)
  <2>1. PICK p \in Divisors(target) :
            l = [objective |-> ObjectiveForUnits(target \div p), points |-> p, plans |-> {}]
    BY DEF OneSongLayers
  <2>2. target \div p \in Nat
    BY Multiple
  <2> QED BY <2>1, <2>2, ObjectiveType DEF IsOneSongLayer
<1>8. ASSUME NEW l \in TwoSongLayers(target, min, max)
      PROVE  l.objective \in Objectives /\ IsTwoSongLayer(l, target, plans)
  <2>1. PICK o \in objectives :
            l = [objective |-> o, points |-> 0, plans |-> {p \in plans : p.objective = o}]
    BY DEF TwoSongLayers
  <2>2. o \in Objectives
    BY <1>3
  <2> HIDE DEF plans, objectives
  <2> QED BY <2>1, <2>2 DEF IsTwoSongLayer
<1> HIDE DEF one, two, plans, objectives
<1>9. IsFiniteSet(OneSongLayers(target) \cup TwoSongLayers(target, min, max))
  BY <1>1, <1>2, <1>4, <1>6, FS_Union
<1> QED BY <1>7, <1>8, <1>9 DEF SearchLayers, plans

LEMMA FirstLayerIn ==
    ASSUME NEW target \in Nat \ {0}, NEW min \in Nat \ {0}, NEW max \in Int,
           NEW layers, layers \subseteq SearchLayers(target, min, max), layers # {}
    PROVE  FirstLayer(layers) \in layers
<1> DEFINE R == {p \in layers \X layers : LayerBefore(p[1], p[2])}
           plans == TwoSongPlans(target, min, max)
<1>1. \A a, b \in layers : <<a, b>> \in R <=> LayerBefore(a, b)
  OBVIOUS
<1>2. IsFiniteSet(layers)
  BY LayerKinds, FS_Subset
<1>3. \A a \in layers : /\ a.objective \in Objectives
                        /\ IsOneSongLayer(a, target) \/ IsTwoSongLayer(a, target, plans)
  BY LayerKinds
<1> HIDE DEF R, plans
<1>4. \A a \in layers : a.points \in Nat
  <2>1. Divisors(target) \subseteq Nat
    BY DivisorsOf
  <2> QED BY <1>3, <2>1 DEF IsOneSongLayer, IsTwoSongLayer
<1>5. ASSUME NEW a \in layers, NEW b \in layers, a # b
      PROVE  LayerBefore(a, b) \/ LayerBefore(b, a)
  <2>1. CASE a.objective # b.objective
    BY <1>3, <2>1, BetterTotal DEF LayerBefore
  <2>2. CASE a.objective = b.objective
    <3>1. a.points # b.points
      <4> SUFFICES ASSUME a.points = b.points PROVE a = b
        BY <1>5
      <4>1. ~(0 \in Divisors(target))
        BY DivisorsOf
      <4>2. CASE IsOneSongLayer(a, target) /\ IsOneSongLayer(b, target)
        BY <4>2 DEF IsOneSongLayer
      <4>3. CASE IsTwoSongLayer(a, target, plans) /\ IsTwoSongLayer(b, target, plans)
        BY <2>2, <4>3 DEF IsTwoSongLayer
      <4>4. CASE \/ IsOneSongLayer(a, target) /\ IsTwoSongLayer(b, target, plans)
                 \/ IsOneSongLayer(b, target) /\ IsTwoSongLayer(a, target, plans)
        BY <4>1, <4>4 DEF IsOneSongLayer, IsTwoSongLayer
      <4> QED BY <1>3, <4>2, <4>3, <4>4
    <3> QED BY <1>4, <2>2, <3>1 DEF LayerBefore
  <2> QED BY <2>1, <2>2
<1>6. ASSUME NEW a \in layers, NEW b \in layers, NEW c \in layers, LayerBefore(a, b), LayerBefore(b, c)
      PROVE  LayerBefore(a, c)
  <2>1. a.points \in Nat /\ b.points \in Nat /\ c.points \in Nat
    BY <1>4
  <2>2. Better(a.objective, b.objective) /\ Better(b.objective, c.objective) => Better(a.objective, c.objective)
    BY <1>3, BetterTransitive
  <2>3. Better(a.objective, b.objective) \/ (a.objective = b.objective /\ a.points > b.points)
    BY <1>6 DEF LayerBefore
  <2>4. Better(b.objective, c.objective) \/ (b.objective = c.objective /\ b.points > c.points)
    BY <1>6 DEF LayerBefore
  <2>5. Better(a.objective, c.objective) \/ (a.objective = c.objective /\ a.points > c.points)
    BY ONLY <2>1, <2>2, <2>3, <2>4
  <2> QED BY <2>5 DEF LayerBefore
<1>7. Orders(R, layers)
  BY <1>1, <1>5, <1>6 DEF Orders
<1>8. PICK a \in layers : \A b \in layers \ {a} : <<a, b>> \in R
  BY <1>2, <1>7, LeastExists
<1>9. \A b \in layers \ {a} : LayerBefore(a, b)
  BY <1>1, <1>8
<1> QED BY <1>9 DEF FirstLayer

-----------------------------------------------------------------------------
(* Requests: powers, bonuses and scores.                                   *)

(* Items that the search uses: those of the request, and those of a batch  *)
(* without the inner target.                                               *)
Usable(i) ==
    /\ i.magazine \in Magazines
    /\ i.band # {} => in.gain.band[i.band] \in Nat
    /\ i.attribute # {} => in.gain.attribute[i.attribute] \in Nat

LEMMA RequestItems ==
    ASSUME IsRequest(in), NEW i \in in.items
    PROVE  Usable(i)
BY DEF IsRequest, IsItems, Usable

LEMMA PowerNat ==
    ASSUME IsRequest(in), NEW c \in in.cards, NEW i, Usable(i)
    PROVE  PowerOf(c, i) \in Nat
<1>1. c.power \in Nat /\ c.magazine[i.magazine] \in Nat
  BY DEF IsRequest, IsCard, Usable
<1>2. (IF c.band \in i.band THEN in.gain.band[i.band] ELSE 0) \in Nat
  BY DEF Usable
<1>3. (IF c.attribute \in i.attribute THEN in.gain.attribute[i.attribute] ELSE 0) \in Nat
  BY DEF Usable
<1> QED BY <1>1, <1>2, <1>3 DEF PowerOf

(* The power of a set of cards is a sum over them, and so is its bonus.    *)
PowersOf(cards, i) == [c \in cards |-> PowerOf(c, i)]

LEMMA SumIsTotal ==
    ASSUME NEW cards, NEW i
    PROVE  Sum(cards, i) = Total(PowersOf(cards, i), cards)
<1>1. \A it : IsSum(it, PowersOf(cards, i), cards) <=>
              it = [s \in SUBSET cards |-> IF s = {} THEN 0 ELSE PowerOf(Pick(s), i) + it[s \ {Pick(s)}]]
  BY PickIn DEF IsSum, SumStep, PowersOf
<1> QED BY <1>1 DEF Sum, Total, MapThenSumSet, MapThenFoldSet, Pick

LEMMA SumNat ==
    ASSUME IsRequest(in), NEW cards \in SUBSET in.cards, NEW i, Usable(i)
    PROVE  Sum(cards, i) \in Nat
<1>1. IsFiniteSet(cards)
  BY FS_Subset DEF IsRequest
<1>2. \A c \in cards : PowersOf(cards, i)[c] \in Nat
  BY PowerNat DEF PowersOf
<1> QED BY <1>1, <1>2, TotalNat, SumIsTotal

BonusOf(cards) == [c \in cards |-> c.bonus]

LEMMA BonusIsTotal ==
    ASSUME NEW cards
    PROVE  Bonus(cards) = Total(BonusOf(cards), cards)
<1>1. \A it : IsSum(it, BonusOf(cards), cards) <=>
              it = [s \in SUBSET cards |-> IF s = {} THEN 0 ELSE Pick(s).bonus + it[s \ {Pick(s)}]]
  BY PickIn DEF IsSum, SumStep, BonusOf
<1> QED BY <1>1 DEF Bonus, Total, MapThenSumSet, MapThenFoldSet, Pick

LEMMA BonusNat ==
    ASSUME IsRequest(in), NEW cards \in SUBSET in.cards
    PROVE  /\ Bonus(cards) \in Nat
           /\ \A p, q \in SUBSET cards : p \cap q = {} => Bonus(p \cup q) = Bonus(p) + Bonus(q)
<1>1. \A c \in in.cards : c.bonus \in Nat
  BY DEF IsRequest, IsCard
<1>2. \A p \in SUBSET in.cards : IsFiniteSet(p)
  BY FS_Subset DEF IsRequest
<1>3. ASSUME NEW p \in SUBSET cards, NEW q \in SUBSET cards, p \cap q = {}
      PROVE  Bonus(p \cup q) = Bonus(p) + Bonus(q)
  <2> DEFINE g == BonusOf(p \cup q)
  <2>1. /\ \A c \in p : g[c] \in Int /\ g[c] = BonusOf(p)[c]
        /\ \A c \in q : g[c] \in Int /\ g[c] = BonusOf(q)[c]
    BY <1>1 DEF BonusOf
  <2>2. Bonus(p \cup q) = Total(g, p \cup q)
    BY BonusIsTotal
  <2> HIDE DEF g
  <2>3. IsFiniteSet(p) /\ IsFiniteSet(q)
    BY <1>2
  <2>4. Total(g, p \cup q) = Total(g, p) + Total(g, q)
    BY <1>3, <2>1, <2>3, TotalUnion
  <2>5. Total(g, p) = Bonus(p) /\ Total(g, q) = Bonus(q)
    BY <2>1, <2>3, BonusIsTotal, TotalSame
  <2> QED BY <2>2, <2>4, <2>5
<1>4. \A c \in cards : BonusOf(cards)[c] \in Nat
  BY <1>1 DEF BonusOf
<1>5. Bonus(cards) \in Nat
  BY <1>2, <1>4, TotalNat, BonusIsTotal
<1> QED BY <1>3, <1>5

LEMMA BasisPointsNat == ASSUME NEW m \in Nat PROVE BasisPoints(m) \in Nat
<1>1. Micros \in Nat \ {0}
  BY RuleAssumption
<1>2. Micros \div 2 \in Nat
  BY <1>1
<1>3. PICK n \in Nat : n = m + Micros \div 2
  BY <1>2
<1>4. n \div Micros \in Nat
  <2>1. PICK q \in Int, s \in 0 .. Micros - 1 : q = n \div Micros /\ n = Micros * q + s
    BY ONLY <1>1, n \in Int, DivisionParts
  <2>2. q <= -1 => Micros * q <= -Micros
    BY ONLY <1>1, q \in Int
  <2>3. q >= 0
    BY <1>1, <2>1, <2>2
  <2> QED BY <2>1, <2>3
<1> QED BY <1>3, <1>4 DEF BasisPoints

(* What a request that got past the checks has.                            *)
CanScore == in.event \in Events /\ (Rule[in.event].supported => in.support \in Nat)

LEMMA PointsInt ==
    ASSUME CanScore, NEW score \in Int, NEW bonus \in Int
    PROVE  Points(score, bonus) \in Int
<1>1. PICK rule : rule = Rule[in.event]
  OBVIOUS
<1>2. rule.fixed \in Nat /\ rule.divisor \in Nat \ {0} /\ Whole \in Nat \ {0}
  BY <1>1, RuleAssumption DEF CanScore
<1>3. PICK inner \in Int : inner = rule.fixed + score \div rule.divisor
  <2>1. score \div rule.divisor \in Int
    BY ONLY <1>2, score \in Int
  <2> QED BY <1>2, <2>1
<1>4. ApplyPointBonus(inner, bonus) \in Int
  <2>1. inner * (Whole + bonus) \in Int
    BY <1>2
  <2> QED BY <1>2, <2>1 DEF ApplyPointBonus
<1>5. Points(score, bonus) = (IF rule.multiplied THEN ApplyPointBonus(inner, bonus) ELSE inner)
                             + (IF rule.supported THEN in.support ELSE 0)
  BY <1>1, <1>3 DEF Points, PointsFor
<1>6. rule.supported => in.support \in Nat
  BY <1>1 DEF CanScore
<1> QED BY <1>3, <1>4, <1>5, <1>6

LEMMA PointsOfNothing ==
    ASSUME CanScore
    PROVE  Points(0, 0) \in Nat \ {0}
<1>1. PICK rule : rule = Rule[in.event]
  OBVIOUS
<1>2. rule.fixed \in Nat \ {0} /\ rule.divisor \in Nat \ {0} /\ Whole \in Nat \ {0}
  BY <1>1, RuleAssumption, BoundAssumption DEF CanScore
<1>3. 0 \div rule.divisor = 0
  BY <1>2
<1>4. ApplyPointBonus(rule.fixed, 0) = rule.fixed
  <2>1. (Whole * rule.fixed + 0) \div Whole = rule.fixed
    BY <1>2, Remainder
  <2>2. rule.fixed * (Whole + 0) = Whole * rule.fixed + 0
    BY <1>2
  <2> QED BY <2>1, <2>2 DEF ApplyPointBonus
<1>5. Points(0, 0) = (IF rule.multiplied THEN ApplyPointBonus(rule.fixed, 0) ELSE rule.fixed)
                     + (IF rule.supported THEN in.support ELSE 0)
  BY <1>1, <1>2, <1>3 DEF Points, PointsFor
<1>6. rule.supported => in.support \in Nat
  BY <1>1 DEF CanScore
<1> QED BY <1>2, <1>4, <1>5, <1>6

(* Songs that have notes, and skills that a card can have.                 *)
Playable(s) == IsSong(s) /\ s.notes # <<>>

HasSkill(skill) == skill.duration \in ChartDurations /\ skill.up \in Nat

LEMMA DivisionInt == ASSUME NEW a \in Int, NEW b \in Nat \ {0} PROVE a \div b \in Int
OBVIOUS

LEMMA ScoreInt ==
    ASSUME NEW s, Playable(s), NEW skill, HasSkill(skill), NEW power \in Int
    PROVE  Score(s, skill, power) \in Int
<1> DEFINE first == (power * s.factor) \div Den
           n == s.notes[skill.duration]
           note(up) == (first * (UpUnit + up)) \div UpUnit
           risen(j) == Min({skill.up + j * RateStep, RateCap})
           rising(k) == MapThenSumSet(LAMBDA j : note(risen(j)), 1 .. n.active[k])
           window(k) == IF skill.rateup /\ skill.up <= RateCap THEN rising(k)
                        ELSE n.active[k] * note(skill.up)
<1>1. /\ Den \in Nat \ {0} /\ UpUnit \in Nat \ {0} /\ RateStep \in Nat /\ RateCap \in Nat
      /\ s.factor \in Nat /\ n.inactive \in Nat /\ n.active \in Seq(Nat) /\ skill.up \in Nat
  BY BoundAssumption DEF Playable, IsSong, HasSkill
<1>2. first \in Int
  <2>1. power * s.factor \in Int
    BY <1>1
  <2> QED BY <1>1, <2>1, DivisionInt
<1>3. \A up \in Int : note(up) \in Int
  <2> TAKE up \in Int
  <2>1. first * (UpUnit + up) \in Int
    BY <1>1, <1>2
  <2> QED BY <1>1, <2>1, DivisionInt
<1>4. \A j \in Nat : risen(j) \in Int
  <2> TAKE j \in Nat
  <2>1. PICK x \in Nat : x = skill.up + j * RateStep
    <3>1. j * RateStep \in Nat
      BY <1>1
    <3> QED BY <1>1, <3>1
  <2>2. {x, RateCap} \subseteq 0 .. x + RateCap
    BY <1>1
  <2>3. IsFiniteSet({x, RateCap}) /\ {x, RateCap} # {} /\ {x, RateCap} \subseteq Int
    <3>1. IsFiniteSet(0 .. x + RateCap)
      BY <1>1, FS_Interval
    <3> QED BY <2>2, <3>1, FS_Subset
  <2>4. Min({x, RateCap}) \in {x, RateCap}
    BY <2>3, MinOf
  <2> QED BY <1>1, <2>1, <2>4
<1> HIDE DEF note, first, risen, n
<1>5. ASSUME NEW k \in DOMAIN n.active PROVE window(k) \in Int /\ n.active[k] \in Nat
  <2>1. PICK m \in Nat : m = n.active[k]
    BY <1>1
  <2> DEFINE g == [j \in 1 .. m |-> note(risen(j))]
  <2>2. \A it : IsSum(it, g, 1 .. m) <=>
                it = [t \in SUBSET (1 .. m) |-> IF t = {} THEN 0 ELSE note(risen(Pick(t))) + it[t \ {Pick(t)}]]
    BY PickIn DEF IsSum, SumStep
  <2>3. MapThenSumSet(LAMBDA j : note(risen(j)), 1 .. m) = Total(g, 1 .. m)
    BY <2>2 DEF Total, MapThenSumSet, MapThenFoldSet, Pick
  <2>4. \A j \in 1 .. m : g[j] \in Int
    BY <1>3, <1>4
  <2> HIDE DEF g
  <2>5. Total(g, 1 .. m) \in Int
    <3>1. IsFiniteSet(1 .. m)
      BY ONLY m \in Nat, FS_Interval
    <3> QED BY <2>4, <3>1, TotalInt
  <2>6. rising(k) \in Int
    BY <2>1, <2>3, <2>5
  <2>7. m * note(skill.up) \in Int
    <3>1. note(skill.up) \in Int
      BY <1>1, <1>3
    <3> QED BY <2>1, <3>1
  <2> HIDE DEF rising
  <2> QED BY <2>1, <2>6, <2>7
<1> DEFINE windows == [k \in DOMAIN n.active |-> window(k)]
<1> HIDE DEF window, rising
<1>6. PICK D : D = DOMAIN n.active
  OBVIOUS
<1>7. MapThenSumSet(LAMBDA k : window(k), DOMAIN n.active) = Total(windows, DOMAIN n.active)
  <2>1. \A it : IsSum(it, windows, D) <=>
                it = [t \in SUBSET D |-> IF t = {} THEN 0 ELSE window(Pick(t)) + it[t \ {Pick(t)}]]
    BY PickIn, <1>6 DEF IsSum, SumStep
  <2> HIDE DEF windows
  <2>2. MapThenSumSet(LAMBDA k : window(k), D) = Total(windows, D)
    BY ONLY <2>1 DEF Total, MapThenSumSet, MapThenFoldSet, Pick
  <2> QED BY <1>6, <2>2
<1>8. \A k \in DOMAIN n.active : windows[k] \in Int
  BY <1>5
<1>9. IsFiniteSet(DOMAIN n.active)
  <2>1. DOMAIN n.active = 1 .. Len(n.active) /\ Len(n.active) \in Nat
    BY <1>1
  <2> QED BY <2>1, FS_Interval
<1> HIDE DEF windows
<1>10. Total(windows, DOMAIN n.active) \in Int
  BY <1>8, <1>9, TotalInt
<1>11. Score(s, skill, power) = n.inactive * first + MapThenSumSet(LAMBDA k : window(k), DOMAIN n.active)
  BY DEF Score, window, rising, note, risen, first, n
<1>12. n.inactive * first \in Int
  BY <1>1, <1>2
<1> QED BY <1>7, <1>10, <1>11, <1>12

LEMMA TwoFinite == ASSUME NEW a, NEW b PROVE IsFiniteSet({a, b})
<1>1. IsFiniteSet({a}) /\ {a, b} = {a} \cup {b}
  BY FS_Singleton
<1> QED BY <1>1, FS_AddElement

LEMMA MaxOfTwo ==
    ASSUME NEW a \in Int, NEW b \in Int
    PROVE  Max({a, b}) \in {a, b} /\ Max({a, b}) >= a
<1>1. IsFiniteSet({a, b}) /\ {a, b} # {} /\ {a, b} \subseteq Int /\ a \in {a, b}
  BY TwoFinite
<1> QED BY <1>1, MaxOf

(* Five can be chosen from a set of at least five.                         *)
LEMMA EnoughChosen ==
    ASSUME NEW S, IsFiniteSet(S), Cardinality(S) >= 5
    PROVE  \E t \in SUBSET S : Cardinality(t) = 5
<1>1. PICK n \in Nat : n = Cardinality(S) /\ n >= 5
  BY FS_CardinalityType
<1>2. PICK f \in Bijection(1 .. n, S) : TRUE
  BY <1>1, FS_CardinalityType DEF ExistsBijection
<1> DEFINE t == {f[k] : k \in 1 .. 5}
           h == [k \in 1 .. 5 |-> f[k]]
<1>3. 1 .. 5 \subseteq 1 .. n
  BY <1>1
<1>4. f \in [1 .. n -> S] /\ \A j, k \in 1 .. n : f[j] = f[k] => j = k
  BY <1>2 DEF Bijection, Injection, IsInjective
<1>5. t \in SUBSET S
  BY <1>3, <1>4
<1>6. h \in Bijection(1 .. 5, t)
  BY <1>3, <1>4 DEF Bijection, Injection, Surjection, IsInjective
<1> HIDE DEF t, h
<1>7. IsFiniteSet(1 .. 5) /\ Cardinality(1 .. 5) = 5
  <2>1. PICK one \in Int, five \in Int : one = 1 /\ five = 5
    OBVIOUS
  <2>2. IsFiniteSet(one .. five)
    BY ONLY one \in Int, five \in Int, FS_Interval
  <2>3. Cardinality(one .. five) = (IF one > five THEN 0 ELSE five - one + 1)
    BY ONLY one \in Int, five \in Int, FS_Interval
  <2> QED BY <2>1, <2>2, <2>3
<1>8. Cardinality(t) = 5
  BY <1>6, <1>7, FS_Bijection DEF ExistsBijection
<1> QED BY <1>5, <1>8

LEMMA SumsOfFive ==
    ASSUME NEW C, IsFiniteSet(C), Cardinality(C) >= TeamSize, NEW values, \A ch \in C : values[ch] \in Int
    PROVE  SumOfLeast(values, C) \in Int /\ SumOfMost(values, C) \in Int
<1> DEFINE chosen == kSubset(TeamSize, C)
           sum == [t \in chosen |-> Total(values, t)]
           sums == {sum[t] : t \in chosen}
<1>1. IsFiniteSet(chosen) /\ chosen # {} /\ chosen \subseteq SUBSET C
  <2>1. TeamSize = 5
    BY BoundAssumption
  <2>2. \E t \in SUBSET C : Cardinality(t) = 5
    BY <2>1, EnoughChosen
  <2>3. chosen \subseteq SUBSET C /\ chosen # {}
    BY <2>1, <2>2 DEF kSubset
  <2>4. IsFiniteSet(SUBSET C)
    BY FS_SUBSET
  <2> QED BY <2>3, <2>4, FS_Subset
<1>2. \A t \in chosen : sum[t] \in Int
  <2> TAKE t \in chosen
  <2>1. IsFiniteSet(t) /\ t \subseteq C
    BY <1>1, FS_Subset
  <2> HIDE DEF chosen
  <2> QED BY <2>1, TotalInt
<1>3. {MapThenSumSet(LAMBDA ch : values[ch], t) : t \in chosen} = sums
  <2>1. \A t : MapThenSumSet(LAMBDA ch : values[ch], t) = Total(values, t)
    BY DEF Total, IsSum, SumStep, MapThenSumSet, MapThenFoldSet, Pick
  <2> HIDE DEF chosen
  <2> QED BY <2>1
<1>4. IsFiniteSet(sums) /\ sums # {} /\ sums \subseteq Int
  <2>1. IsFiniteSet(sums)
    <3> HIDE DEF sum, chosen
    <3> QED BY <1>1, FiniteImage
  <2> HIDE DEF sum, chosen
  <2> QED BY <1>1, <1>2, <2>1
<1>5. SumOfLeast(values, C) = Min(sums) /\ SumOfMost(values, C) = Max(sums)
  <2> HIDE DEF sums
  <2> QED BY <1>3 DEF SumOfLeast, SumOfMost, chosen
<1> HIDE DEF sums
<1> QED BY <1>4, <1>5, MinOf, MaxOf

LEMMA RoundedPowers == ASSUME NEW p \in Int PROVE Lower(p) \in Int /\ Upper(p) \in Int
BY BoundAssumption DEF Lower, Upper

(* The bounds on the power and bonus of teams are numbers.                 *)
IsTeamBounds(b) ==
    b.minPower \in Int /\ b.maxPower \in Int /\ b.minBonus \in Int /\ b.maxBonus \in Int

LEMMA TeamBoundsInt ==
    ASSUME IsRequest(in)
    PROVE  IsTeamBounds(TeamBounds(in.cards, in.items))
<1> DEFINE C == Characters(in.cards)
           of(ch) == {c \in in.cards : c.character = ch}
           powers(ch) == {PowerOf(c, i) : c \in of(ch), i \in in.items}
           bonuses(ch) == {c.bonus : c \in of(ch)}
<1>1. CASE Cardinality(C) < TeamSize \/ in.items = {}
  BY <1>1 DEF TeamBounds, IsTeamBounds, NoTeam
<1>2. CASE ~(Cardinality(C) < TeamSize \/ in.items = {})
  <2>1. IsFiniteSet(in.cards) /\ IsFiniteSet(in.items)
    BY DEF IsRequest
  <2>2. IsFiniteSet(C)
    <3> DEFINE f == [c \in in.cards |-> c.character]
    <3>1. C = {f[c] : c \in in.cards}
      BY DEF Characters
    <3> HIDE DEF f, C
    <3> QED BY <2>1, <3>1, FiniteImage
  <2>3. Cardinality(C) >= TeamSize
    <3>1. Cardinality(C) \in Nat /\ TeamSize = 5
      BY <2>2, FS_CardinalityType, BoundAssumption
    <3> QED BY <1>2, <3>1
  <2>4. ASSUME NEW ch \in C
        PROVE  /\ powers(ch) # {} /\ IsFiniteSet(powers(ch)) /\ powers(ch) \subseteq Nat
               /\ bonuses(ch) # {} /\ IsFiniteSet(bonuses(ch)) /\ bonuses(ch) \subseteq Nat
    <3>1. PICK c \in in.cards : c.character = ch
      BY DEF Characters
    <3>2. of(ch) # {} /\ of(ch) \subseteq in.cards /\ IsFiniteSet(of(ch))
      BY <2>1, <3>1, FS_Subset
    <3> DEFINE pairs == of(ch) \X in.items
               power == [p \in pairs |-> PowerOf(p[1], p[2])]
               bonus == [d \in of(ch) |-> d.bonus]
    <3>3. IsFiniteSet(pairs)
      <4> HIDE DEF of
      <4> QED BY <2>1, <3>2, FS_Product
    <3>4. powers(ch) = {power[p] : p \in pairs}
      <4>1. \A d \in of(ch), i \in in.items : <<d, i>> \in pairs /\ power[<<d, i>>] = PowerOf(d, i)
        OBVIOUS
      <4>2. \A p \in pairs : \E d \in of(ch), i \in in.items : p = <<d, i>>
        OBVIOUS
      <4>3. \A d \in of(ch), i \in in.items : \E p \in pairs : power[p] = PowerOf(d, i)
        <5> TAKE d \in of(ch), i \in in.items
        <5> WITNESS <<d, i>> \in pairs
        <5> QED BY <4>1
      <4> HIDE DEF power, pairs, of
      <4>5. \A x \in powers(ch) : x \in {power[p] : p \in pairs}
        <5> TAKE x \in powers(ch)
        <5>1. PICK d \in of(ch), i \in in.items : x = PowerOf(d, i)
          OBVIOUS
        <5>2. PICK p \in pairs : power[p] = PowerOf(d, i)
          BY <4>3
        <5> QED BY <5>1, <5>2
      <4>4. \A p \in pairs : power[p] \in powers(ch)
        BY <4>1, <4>2
      <4> HIDE DEF powers
      <4> QED BY <4>4, <4>5
    <3>5. IsFiniteSet({power[p] : p \in pairs})
      <4> HIDE DEF power, pairs
      <4> QED BY <3>3, FiniteImage
    <3>6. powers(ch) \subseteq Nat
      BY <3>2, PowerNat, RequestItems
    <3>7. powers(ch) # {}
      BY <1>2, <3>2
    <3>8. IsFiniteSet({bonus[d] : d \in of(ch)})
      <4> HIDE DEF bonus, of
      <4> QED BY <3>2, FiniteImage
    <3>9. bonuses(ch) = {bonus[d] : d \in of(ch)}
      OBVIOUS
    <3>10. bonuses(ch) \subseteq Nat /\ bonuses(ch) # {}
      BY <3>1, <3>2 DEF IsRequest, IsCard
    <3> HIDE DEF powers, bonuses, of, power, bonus, pairs
    <3> QED BY <3>4, <3>5, <3>6, <3>7, <3>8, <3>9, <3>10
  <2> HIDE DEF powers, bonuses
  <2>5. \A ch \in C : /\ Min(powers(ch)) \in Int /\ Max(powers(ch)) \in Int
                      /\ Min(bonuses(ch)) \in Int /\ Max(bonuses(ch)) \in Int
    <3> TAKE ch \in C
    <3>1. powers(ch) # {} /\ IsFiniteSet(powers(ch)) /\ powers(ch) \subseteq Int
      BY <2>4
    <3>2. bonuses(ch) # {} /\ IsFiniteSet(bonuses(ch)) /\ bonuses(ch) \subseteq Int
      BY <2>4
    <3>3. Min(powers(ch)) \in powers(ch) /\ Max(powers(ch)) \in powers(ch)
      BY <3>1, MinOf, MaxOf
    <3>4. Min(bonuses(ch)) \in bonuses(ch) /\ Max(bonuses(ch)) \in bonuses(ch)
      BY <3>2, MinOf, MaxOf
    <3> QED BY <3>1, <3>2, <3>3, <3>4
  <2> DEFINE low == [ch \in C |-> Min(powers(ch))]
             high == [ch \in C |-> Max(powers(ch))]
             few == [ch \in C |-> Min(bonuses(ch))]
             many == [ch \in C |-> Max(bonuses(ch))]
  <2>6. \A ch \in C : low[ch] \in Int /\ high[ch] \in Int /\ few[ch] \in Int /\ many[ch] \in Int
    BY <2>5
  <2>7. TeamBounds(in.cards, in.items)
          = [minPower |-> Lower(SumOfLeast(low, C)), maxPower |-> Upper(SumOfMost(high, C)),
             minBonus |-> BasisPoints(SumOfLeast(few, C)), maxBonus |-> BasisPoints(SumOfMost(many, C))]
    BY <1>2 DEF TeamBounds, C, powers, bonuses, of
  <2> HIDE DEF low, high, few, many, C
  <2>8. /\ SumOfLeast(low, C) \in Int /\ SumOfMost(high, C) \in Int
        /\ SumOfLeast(few, C) \in Int /\ SumOfMost(many, C) \in Int
    BY <2>2, <2>3, <2>6, SumsOfFive
  <2>9. \A m \in Int : BasisPoints(m) \in Int
    <3> TAKE m \in Int
    <3>1. Micros \in Nat \ {0} /\ m + Micros \div 2 \in Int
      BY RuleAssumption, DivisionInt
    <3> QED BY <3>1, DivisionInt DEF BasisPoints
  <2> QED BY <2>7, <2>8, <2>9, RoundedPowers DEF IsTeamBounds
<1> QED BY <1>1, <1>2

(* The songs of a request are told apart by their numbers.                 *)
LEMMA RequestSongs ==
    ASSUME IsRequest(in)
    PROVE  /\ IsFiniteSet(AvailableSongs)
           /\ \A s \in AvailableSongs : s \in in.songs /\ Playable(s)
           /\ \A s, t \in AvailableSongs : s.id = t.id => s = t
<1>1. AvailableSongs \subseteq in.songs /\ \A s \in AvailableSongs : s.notes # <<>>
  BY DEF AvailableSongs
<1>2. IsFiniteSet(in.songs) /\ \A s \in in.songs : IsSong(s)
  BY DEF IsRequest
<1>3. \A s, t \in in.songs : s.id = t.id => s = t
  BY DEF IsRequest
<1> QED BY <1>1, <1>2, <1>3, FS_Subset DEF Playable

LEMMA NotesInt ==
    ASSUME NEW s, Playable(s), NEW d \in ChartDurations
    PROVE  Notes(s, d) \in Int /\ s.factor \in Int
<1> DEFINE n == s.notes[d]
<1>1. n.inactive \in Nat /\ n.active \in Seq(Nat) /\ s.factor \in Int
  BY DEF Playable, IsSong
<1>2. Notes(s, d) = n.inactive + MapThenSumSet(LAMBDA k : n.active[k], DOMAIN n.active)
  BY DEF Notes
<1> HIDE DEF n
<1>3. PICK D, f : D = DOMAIN n.active /\ f = n.active
  OBVIOUS
<1>4. MapThenSumSet(LAMBDA k : f[k], D) = Total(f, D)
  BY ONLY TRUE DEF Total, IsSum, SumStep, MapThenSumSet, MapThenFoldSet, Pick
<1>5. IsFiniteSet(D) /\ \A k \in D : f[k] \in Int
  <2>1. D = 1 .. Len(f) /\ Len(f) \in Nat /\ f \in Seq(Nat)
    BY <1>1, <1>3
  <2>2. PICK m \in Nat : m = Len(f)
    BY <2>1
  <2>3. IsFiniteSet(1 .. m)
    BY ONLY m \in Nat, FS_Interval
  <2>4. \A k \in D : f[k] \in Int
    BY <2>1
  <2> QED BY <2>1, <2>2, <2>3, <2>4
<1>6. Total(f, D) \in Int
  BY <1>5, TotalInt
<1> QED BY <1>1, <1>2, <1>3, <1>4, <1>6

LEMMA GlobalUpInt ==
    ASSUME IsRequest(in)
    PROVE  GlobalUp \in Int
<1> DEFINE usual == [c \in in.cards |-> c.usual]
           unified == [c \in in.cards |-> c.unified]
           S == {OptimisticCap} \cup {c.usual : c \in in.cards}
                    \cup ({c.unified : c \in in.cards} \ {None})
<1>1. IsFiniteSet({usual[c] : c \in in.cards}) /\ IsFiniteSet({unified[c] : c \in in.cards})
  <2>1. IsFiniteSet(in.cards)
    BY DEF IsRequest
  <2> HIDE DEF usual, unified
  <2> QED BY <2>1, FiniteImage
<1>2. {c.usual : c \in in.cards} = {usual[c] : c \in in.cards} /\ {c.unified : c \in in.cards} = {unified[c] : c \in in.cards}
  OBVIOUS
<1>3. \A c \in in.cards : c.usual \in Nat /\ (c.unified # None => c.unified \in Nat)
  BY DEF IsRequest, IsCard
<1>4. S \subseteq Int
  BY <1>3, BoundAssumption
<1>5. IsFiniteSet(S)
  <2>1. IsFiniteSet({c.unified : c \in in.cards} \ {None}) /\ IsFiniteSet({OptimisticCap})
    BY <1>1, <1>2, FS_Difference, FS_Singleton
  <2>2. IsFiniteSet({OptimisticCap} \cup {c.usual : c \in in.cards})
    BY <1>1, <1>2, <2>1, FS_Union
  <2> QED BY <2>1, <2>2, FS_Union
<1>6. S # {}
  OBVIOUS
<1>7. GlobalUp = Max(S)
  BY DEF GlobalUp
<1> HIDE DEF S
<1> QED BY <1>4, <1>5, <1>6, <1>7, MaxOf

LEMMA LeastAndMost ==
    ASSUME NEW S, IsFiniteSet(S), S \subseteq Int
    PROVE  LeastOr0(S) \in Int /\ MostOr0(S) \in Int
<1>1. CASE S # {}
  <2>1. Min(S) \in S /\ Max(S) \in S
    BY <1>1, MinOf, MaxOf
  <2> QED BY <1>1, <2>1 DEF LeastOr0, MostOr0
<1>2. CASE S = {}
  BY <1>2 DEF LeastOr0, MostOr0
<1> QED BY <1>1, <1>2

(* The scores that are searched are positive: no plan makes points of      *)
(* nothing.                                                                *)
LEMMA RangeInt ==
    ASSUME IsRequest(in), CanScore, songs = AvailableSongs
    PROVE  GlobalRange.min \in Nat \ {0} /\ GlobalRange.max \in Int
<1>1. PICK b : b = TeamBounds(in.cards, in.items) /\ IsTeamBounds(b)
  BY TeamBoundsInt
<1>2. PICK d : d = (CHOOSE e \in ChartDurations : TRUE) /\ d \in ChartDurations
  BY BoundAssumption
<1>3. IsFiniteSet(songs) /\ \A s \in songs : Playable(s) /\ Notes(s, d) \in Int /\ s.factor \in Int
  BY <1>2, RequestSongs, NotesInt
<1>4. PICK up \in Int : up = GlobalUp
  BY GlobalUpInt
<1>5. Den \in Nat \ {0} /\ UpUnit \in Nat \ {0}
  BY BoundAssumption
<1>6. ASSUME NEW s \in songs
      PROVE  PessimisticScore(s, b.minPower) \in Int /\ OptimisticScore(s, b.maxPower, up) \in Int
  <2>1. PICK n \in Int, f \in Int : n = Notes(s, d) /\ f = s.factor
    BY <1>3
  <2>2. PICK p \in Int, q \in Int : p = b.minPower /\ q = b.maxPower
    BY <1>1 DEF IsTeamBounds
  <2>3. PICK x \in Int : x = (p * f * n) \div Den - 2 * n
    <3>1. p * f * n \in Int
      BY <2>1, <2>2
    <3>2. (p * f * n) \div Den \in Int
      BY ONLY <1>5, <3>1, DivisionInt
    <3> QED BY <2>1, <3>2
  <2>4. PessimisticScore(s, b.minPower) = Max({0, x})
    BY <1>2, <2>1, <2>2, <2>3 DEF PessimisticScore
  <2>5. Max({0, x}) \in Int
    <3>1. PICK zero \in Int : zero = 0
      OBVIOUS
    <3>2. Max({zero, x}) \in {zero, x}
      BY ONLY zero \in Int, x \in Int, MaxOfTwo
    <3> QED BY <3>1, <3>2
  <2>6. OptimisticScore(s, b.maxPower, up) = DivCeil(q * f * (UpUnit + up) * n, Den * UpUnit)
    BY <1>2, <2>1, <2>2 DEF OptimisticScore
  <2>7. q * f * (UpUnit + up) * n \in Int /\ Den * UpUnit \in Nat \ {0}
    BY <1>5, <2>1, <2>2
  <2>8. q * f * (UpUnit + up) * n + Den * UpUnit - 1 \in Int
    BY <2>7
  <2>9. DivCeil(q * f * (UpUnit + up) * n, Den * UpUnit) \in Int
    BY ONLY <2>7, <2>8, DivisionInt DEF DivCeil
  <2> QED BY <2>4, <2>5, <2>6, <2>9
<1> DEFINE lows == {PessimisticScore(s, b.minPower) : s \in LowerFrontier}
           highs == {OptimisticScore(s, b.maxPower, up) : s \in UpperFrontier}
<1>7. LowerFrontier \subseteq songs /\ UpperFrontier \subseteq songs
  BY DEF LowerFrontier, UpperFrontier
<1>8. IsFiniteSet(lows) /\ lows \subseteq Int
  <2> DEFINE f == [s \in LowerFrontier |-> PessimisticScore(s, b.minPower)]
  <2>1. lows = {f[s] : s \in LowerFrontier}
    OBVIOUS
  <2>2. IsFiniteSet(LowerFrontier)
    BY <1>3, <1>7, FS_Subset
  <2>3. lows \subseteq Int
    BY <1>6, <1>7
  <2> HIDE DEF f, lows
  <2> QED BY <2>1, <2>2, <2>3, FiniteImage
<1>9. IsFiniteSet(highs) /\ highs \subseteq Int
  <2> DEFINE f == [s \in UpperFrontier |-> OptimisticScore(s, b.maxPower, up)]
  <2>1. highs = {f[s] : s \in UpperFrontier}
    OBVIOUS
  <2>2. IsFiniteSet(UpperFrontier)
    BY <1>3, <1>7, FS_Subset
  <2>3. highs \subseteq Int
    BY <1>6, <1>7
  <2> HIDE DEF f, highs
  <2> QED BY <2>1, <2>2, <2>3, FiniteImage
<1>10. PICK global : global = CoarseBounds(b, up)
  OBVIOUS
<1>11. global.min = Points(LeastOr0(lows), b.minBonus) /\ global.max = Points(MostOr0(highs), b.maxBonus)
  BY <1>10 DEF CoarseBounds
<1> HIDE DEF lows, highs
<1>12. LeastOr0(lows) \in Int /\ MostOr0(highs) \in Int
  BY <1>8, <1>9, LeastAndMost
<1>13. global.min \in Int /\ global.max \in Int
  BY <1>1, <1>11, <1>12, PointsInt DEF IsTeamBounds
<1>14. PICK z \in Nat \ {0} : z = Points(0, 0)
  BY PointsOfNothing
<1>15. Max({z, global.min}) \in Int /\ Max({z, global.min}) >= z
  <2>1. PICK g \in Int : g = global.min
    BY <1>13
  <2>2. Max({z, g}) \in {z, g} /\ Max({z, g}) >= z
    BY MaxOfTwo
  <2> QED BY <2>1, <2>2
<1>16. GlobalRange.min = Max({z, global.min}) /\ GlobalRange.max = global.max
  BY <1>1, <1>4, <1>10, <1>14 DEF GlobalRange
<1> QED BY <1>13, <1>14, <1>15, <1>16

-----------------------------------------------------------------------------
(* Intervals of power for the songs of a layer.                            *)

(* A search is under way.                                                  *)
Ready == IsRequest(in) /\ CanScore /\ songs = AvailableSongs /\ Missing \in Nat \ {0}

LEMMA SafeSong ==
    ASSUME Ready, NEW skill, skill.up \in Nat, NEW s \in SafeSongs(skill.duration)
    PROVE  s \in songs /\ Playable(s) /\ HasSkill(skill) /\ s.id \in Nat
<1>1. s \in songs /\ skill.duration \in ChartDurations
  BY DEF SafeSongs, TemplateSongs
<1>2. Playable(s)
  BY <1>1, RequestSongs DEF Ready
<1>3. s.id \in Nat
  BY <1>2 DEF Playable, IsSong
<1> QED BY <1>1, <1>2, <1>3 DEF HasSkill

LEMMA SafeFinite ==
    ASSUME Ready, NEW duration
    PROVE  IsFiniteSet(SafeSongs(duration)) /\ \A s, t \in SafeSongs(duration) : s.id = t.id => s = t
<1>1. SafeSongs(duration) \subseteq songs
  BY DEF SafeSongs, TemplateSongs
<1>2. IsFiniteSet(AvailableSongs) /\ \A s, t \in AvailableSongs : s.id = t.id => s = t
  BY RequestSongs DEF Ready
<1> QED BY <1>1, <1>2, FS_Subset DEF Ready

LEMMA LowestPower ==
    ASSUME NEW s, Playable(s), NEW skill, HasSkill(skill), NEW score \in Int
    PROVE  LowerBoundPower(s, skill, score) \in Nat \cup {None}
<1> DEFINE enough == {p \in 0 .. MaxPower : Score(s, skill, p) >= score}
<1>1. \A p \in Int : Score(s, skill, p) \in Int
  BY ScoreInt
<1>2. MaxPower \in Nat
  BY BoundAssumption
<1>3. CASE Score(s, skill, MaxPower) < score
  BY <1>3 DEF LowerBoundPower
<1>4. CASE ~(Score(s, skill, MaxPower) < score)
  <2>1. Score(s, skill, MaxPower) \in Int
    BY <1>1, <1>2
  <2>2. MaxPower \in enough /\ enough \subseteq Nat
    BY <1>2, <1>4, <2>1
  <2>3. PICK x \in enough : \A y \in enough : x <= y
    BY <2>2, NatLeast
  <2>4. x > 0 => Score(s, skill, x - 1) < score
    <3> SUFFICES ASSUME x > 0 PROVE Score(s, skill, x - 1) < score
      OBVIOUS
    <3>1. x - 1 \in 0 .. MaxPower /\ ~(x <= x - 1)
      BY <1>2, <2>3
    <3>2. x - 1 \notin enough
      BY <2>3, <3>1
    <3>3. Score(s, skill, x - 1) \in Int
      BY <1>1, <3>1
    <3> QED BY <3>1, <3>2, <3>3
  <2>5. x \in 0 .. MaxPower /\ Score(s, skill, x) >= score
    BY <2>3
  <2>6. LowerBoundPower(s, skill, score) \in 0 .. MaxPower
    BY <1>4, <2>4, <2>5 DEF LowerBoundPower
  <2> QED BY <1>2, <2>6
<1> QED BY <1>3, <1>4

IsInterval(w) == w.min \in Int /\ w.max \in Int

LEMMA ScoresFor ==
    ASSUME CanScore, NEW points \in Int, NEW bonus \in Nat
    PROVE  \/ ScoreInterval(in.event, points, bonus, in.support) = Never
           \/ IsInterval(ScoreInterval(in.event, points, bonus, in.support))
<1>1. PICK rule : rule = Rule[in.event]
  OBVIOUS
<1>2. rule.fixed \in Nat /\ rule.divisor \in Nat \ {0} /\ Whole \in Nat \ {0}
  BY <1>1, RuleAssumption DEF CanScore
<1>3. PICK own \in Int : own = points - (IF rule.supported THEN in.support ELSE 0)
  BY <1>1 DEF CanScore
<1>4. \A a \in Int : DivCeil(a, Whole + bonus) \in Int
  <2> TAKE a \in Int
  <2>1. PICK d \in Nat \ {0} : d = Whole + bonus
    BY <1>2
  <2>2. a + d - 1 \in Int
    OBVIOUS
  <2> QED BY <2>1, <2>2, DivisionInt DEF DivCeil
<1>5. PICK inner : inner = InnerRange(in.event, own, bonus)
  OBVIOUS
<1>6. own * Whole \in Int /\ (own + 1) * Whole \in Int
  BY <1>2
<1>7. inner.min \in Int /\ inner.max \in Int
  <2>1. DivCeil(own * Whole, Whole + bonus) \in Int /\ DivCeil((own + 1) * Whole, Whole + bonus) \in Int
    BY <1>4, <1>6
  <2> QED BY <1>1, <1>5, <2>1 DEF InnerRange
<1>8. PICK min \in Int : min = (IF inner.min < rule.fixed THEN rule.fixed ELSE inner.min)
  BY <1>2, <1>7
<1>9. /\ (min - rule.fixed) * rule.divisor \in Int
      /\ (inner.max - rule.fixed + 1) * rule.divisor - 1 \in Int
  BY <1>2, <1>7
<1>10. ScoreInterval(in.event, points, bonus, in.support) =
          (IF own < 0 \/ inner.max < rule.fixed \/ min > inner.max
           THEN Never
           ELSE [min |-> (min - rule.fixed) * rule.divisor,
                 max |-> (inner.max - rule.fixed + 1) * rule.divisor - 1])
  BY <1>1, <1>3, <1>5, <1>8 DEF ScoreInterval
<1> QED BY <1>9, <1>10 DEF IsInterval

LEMMA PowersOfSong ==
    ASSUME Ready, NEW skill, skill.up \in Nat, NEW s \in SafeSongs(skill.duration),
           NEW points \in Int, NEW bonus \in Nat, PowerInterval(s, skill, points, bonus) # Never
    PROVE  IsInterval(PowerInterval(s, skill, points, bonus))
<1>1. PICK scores : scores = ScoreInterval(in.event, points, bonus, in.support)
  OBVIOUS
<1>2. scores # Never
  BY <1>1 DEF PowerInterval, PowersFor
<1>3. scores.min \in Int /\ scores.max \in Int
  BY <1>1, <1>2, ScoresFor DEF Ready, IsInterval
<1>4. Playable(s) /\ HasSkill(skill)
  BY SafeSong
<1>5. PICK min \in Nat \cup {None} : min = LowerBoundPower(s, skill, scores.min)
  BY <1>3, <1>4, LowestPower
<1>6. PICK next \in Nat \cup {None} : next = LowerBoundPower(s, skill, scores.max + 1)
  <2>1. PICK above \in Int : above = scores.max + 1
    BY <1>3
  <2>2. LowerBoundPower(s, skill, above) \in Nat \cup {None}
    BY <1>4, LowestPower
  <2> QED BY <2>1, <2>2
<1>7. PowerInterval(s, skill, points, bonus) = PowersBetween(min, next)
  BY <1>1, <1>2, <1>5, <1>6 DEF PowerInterval, PowersFor
<1>8. PICK max \in Int : max = (IF next = None THEN MaxPower ELSE next - 1)
  BY BoundAssumption
<1>9. PowersBetween(min, next) = (IF min = None THEN Never
                                  ELSE IF min > max THEN Never ELSE [min |-> min, max |-> max])
  BY <1>8 DEF PowersBetween
<1> QED BY <1>7, <1>9 DEF IsInterval

(* What an interval of a layer can be. *)
IsSingle(j, skill, points) ==
    /\ j.plan = NoPlan /\ j.left = points /\ j.right = 0 /\ j.min \in Int
    /\ \E s \in SafeSongs(skill.duration) : s.id = j.song

(* The interval of a plan of two songs.                                    *)
IsDouble(j, plans) ==
    j.plan \in plans /\ j.song = 0 /\ j.left = j.plan.left /\ j.right = j.plan.right /\ j.min \in Int

(* What the layer that is searched can be.                                 *)
IsLayer(l) ==
    IsOneSongLayer(l, Missing) \/ \E min \in Nat \ {0}, max \in Int :
                                     IsTwoSongLayer(l, Missing, TwoSongPlans(Missing, min, max))

(* Intervals of songs: finitely many, one for each song.                   *)
LEMMA SinglesRanked ==
    ASSUME Ready, NEW skill, skill.up \in Nat, NEW points \in Int, NEW bonus \in Nat
    PROVE  /\ IsFiniteSet(SingleIntervals(skill, points, bonus))
           /\ \A j \in SingleIntervals(skill, points, bonus) : IsSingle(j, skill, points)
           /\ \A j, k \in SingleIntervals(skill, points, bonus) : j.song = k.song => j = k
<1> DEFINE safe == SafeSongs(skill.duration)
           of == [s \in safe |-> PowerInterval(s, skill, points, bonus)]
           record(s) == [min |-> of[s].min, max |-> of[s].max, song |-> s.id,
                         left |-> points, right |-> 0, plan |-> NoPlan]
           used == {s \in safe : of[s] # Never}
           all == [s \in used |-> record(s)]
<1>1. IsFiniteSet(safe) /\ \A s, t \in safe : s.id = t.id => s = t
  BY SafeFinite
<1>2. SingleIntervals(skill, points, bonus) = {all[s] : s \in used}
  <2>1. \A j \in SingleIntervals(skill, points, bonus) : \E s \in used : j = all[s]
    <3> TAKE j \in SingleIntervals(skill, points, bonus)
    <3>1. PICK w \in {v \in {[song |-> t.id, powers |-> PowerInterval(t, skill, points, bonus)] :
                          t \in SafeSongs(skill.duration)} : v.powers # Never} :
              j = [min |-> w.powers.min, max |-> w.powers.max,
                   song |-> w.song, left |-> points, right |-> 0, plan |-> NoPlan]
      BY DEF SingleIntervals
    <3>2. PICK s \in safe : w = [song |-> s.id, powers |-> PowerInterval(s, skill, points, bonus)]
                            /\ w.powers # Never
      OBVIOUS
    <3>3. s \in used /\ j = all[s]
      BY <3>1, <3>2
    <3> HIDE DEF all, used
    <3> QED BY <3>3
  <2>2. \A s \in used : all[s] \in SingleIntervals(skill, points, bonus)
    <3> TAKE s \in used
    <3> DEFINE w == [song |-> s.id, powers |-> PowerInterval(s, skill, points, bonus)]
    <3>1. w \in {v \in {[song |-> t.id, powers |-> PowerInterval(t, skill, points, bonus)] :
                          t \in SafeSongs(skill.duration)} : v.powers # Never}
      OBVIOUS
    <3>2. all[s] = [min |-> w.powers.min, max |-> w.powers.max,
                    song |-> w.song, left |-> points, right |-> 0, plan |-> NoPlan]
      OBVIOUS
    <3> HIDE DEF w, all
    <3> QED BY <3>1, <3>2 DEF SingleIntervals
  <2> HIDE DEF all, used
  <2> QED BY <2>1, <2>2
<1>3. IsFiniteSet(used)
  <2>1. used \subseteq safe
    OBVIOUS
  <2> HIDE DEF safe, used
  <2> QED BY <1>1, <2>1, FS_Subset
<1>4. IsFiniteSet({all[s] : s \in used})
  <2> HIDE DEF all, used
  <2> QED BY <1>3, FiniteImage
<1>5. ASSUME NEW s \in used PROVE IsSingle(all[s], skill, points) /\ all[s].song = s.id
  <2>1. IsInterval(PowerInterval(s, skill, points, bonus))
    BY PowersOfSong
  <2>2. of[s].min \in Int
    BY <2>1 DEF IsInterval
  <2> HIDE DEF of
  <2> QED BY <2>2 DEF IsSingle
<1>6. \A s, t \in used : all[s].song = all[t].song => all[s] = all[t]
  <2> HIDE DEF all
  <2> QED BY <1>1, <1>5
<1> HIDE DEF all, used
<1> QED BY <1>2, <1>4, <1>5, <1>6

LEMMA PointPowersFinite ==
    ASSUME Ready, NEW skill, skill.up \in Nat, NEW points \in Int, NEW bonus \in Nat
    PROVE  IsFiniteSet(PointPowers(skill, points, bonus)) /\ PointPowers(skill, points, bonus) \subseteq Int
<1> DEFINE safe == SafeSongs(skill.duration)
           of == [s \in safe |-> PowerInterval(s, skill, points, bonus)]
           used == {of[s] : s \in safe} \ {Never}
           span == [w \in used |-> Span(w)]
<1>1. IsFiniteSet({of[s] : s \in safe})
  <2> HIDE DEF of, safe
  <2> QED BY SafeFinite, FiniteImage DEF safe
<1>2. IsFiniteSet(used)
  <2>1. used \subseteq {of[s] : s \in safe}
    OBVIOUS
  <2> HIDE DEF used, of, safe
  <2> QED BY <1>1, <2>1, FS_Subset
<1>3. IsFiniteSet({span[w] : w \in used})
  <2> HIDE DEF used, span
  <2> QED BY <1>2, FiniteImage
<1>4. ASSUME NEW w \in used PROVE IsFiniteSet(span[w]) /\ span[w] \subseteq Int
  <2>1. PICK s \in safe : w = PowerInterval(s, skill, points, bonus) /\ w # Never
    OBVIOUS
  <2>2. w.min \in Int /\ w.max \in Int
    BY <2>1, PowersOfSong DEF IsInterval
  <2>3. PICK a \in Int, b \in Int : a = w.min /\ b = w.max
    BY <2>2
  <2>4. IsFiniteSet(a .. b) /\ a .. b \subseteq Int
    BY ONLY a \in Int, b \in Int, FS_Interval
  <2>5. span[w] = a .. b
    BY <2>3 DEF Span
  <2> QED BY <2>4, <2>5
<1>5. PointPowers(skill, points, bonus) = UNION {span[w] : w \in used}
  <2>1. used = {PowerInterval(s, skill, points, bonus) : s \in SafeSongs(skill.duration)} \ {Never}
    OBVIOUS
  <2>2. {span[w] : w \in used} = {Span(w) : w \in used}
    OBVIOUS
  <2> HIDE DEF used, span
  <2> QED BY <2>1, <2>2 DEF PointPowers
<1>6. \A t \in {span[w] : w \in used} : IsFiniteSet(t) /\ t \subseteq Int
  <2> HIDE DEF span, used
  <2> QED BY <1>4
<1> HIDE DEF span, used
<1> QED BY <1>3, <1>5, <1>6, FS_UNION

(* Intervals of a plan: finitely many, no two from the same power.         *)
LEMMA DoublesRanked ==
    ASSUME Ready, NEW skill, skill.up \in Nat, NEW bonus \in Nat, NEW plan, IsPlan(plan, Missing)
    PROVE  /\ IsFiniteSet(PlanIntervals(skill, plan, bonus))
           /\ \A j \in PlanIntervals(skill, plan, bonus) : IsDouble(j, {plan}) /\ j.plan = plan
           /\ \A j, k \in PlanIntervals(skill, plan, bonus) : j.min = k.min => j = k
<1> DEFINE P == PointPowers(skill, plan.left, bonus) \cap PointPowers(skill, plan.right, bonus)
           starts == {q \in P : q - 1 \notin P}
           last(p) == CHOOSE q \in P : /\ p .. q \subseteq P
                                       /\ q + 1 \notin P /\ q >= p
           all == [p \in starts |-> [min |-> p, max |-> last(p), song |-> 0, left |-> plan.left,
                                     right |-> plan.right, plan |-> plan]]
<1>1. IsFiniteSet(P) /\ P \subseteq Int
  <2>1. plan.left \in Int /\ plan.right \in Int
    BY DEF IsPlan
  <2>2. /\ IsFiniteSet(PointPowers(skill, plan.left, bonus))
        /\ PointPowers(skill, plan.left, bonus) \subseteq Int
    BY <2>1, PointPowersFinite
  <2> QED BY <2>2, FS_Intersection
<1>2. IsFiniteSet(starts) /\ starts \subseteq Int
  <2>1. starts \subseteq P
    OBVIOUS
  <2> HIDE DEF P, starts
  <2> QED BY <1>1, <2>1, FS_Subset
<1>3. PlanIntervals(skill, plan, bonus) = {all[p] : p \in starts}
  <2> DEFINE runs == [p \in starts |-> [min |-> p, max |-> last(p)]]
  <2>1. Runs(P) = {runs[p] : p \in starts}
    <3> HIDE DEF P
    <3> QED BY DEF Runs
  <2>2. PlanIntervals(skill, plan, bonus)
          = {[min |-> r.min, max |-> r.max, song |-> 0, left |-> plan.left, right |-> plan.right,
              plan |-> plan] : r \in {runs[p] : p \in starts}}
    <3> HIDE DEF runs
    <3> QED BY <2>1 DEF PlanIntervals, P
  <2>3. \A p \in starts : all[p] = [min |-> runs[p].min, max |-> runs[p].max, song |-> 0, left |-> plan.left,
                                     right |-> plan.right, plan |-> plan]
    <3> HIDE DEF starts, last
    <3> QED OBVIOUS
  <2> DEFINE made(r) == [min |-> r.min, max |-> r.max, song |-> 0, left |-> plan.left,
                         right |-> plan.right, plan |-> plan]
             D == {made(r) : r \in {runs[p] : p \in starts}}
  <2>4. \A p \in starts : all[p] = made(runs[p])
    BY <2>3
  <2> HIDE DEF starts, last, runs, all, made
  <2>5. \A x \in D : \E p \in starts : x = all[p]
    BY <2>4
  <2>6. \A p \in starts : all[p] \in D
    BY <2>4
  <2>7. D = {all[p] : p \in starts}
    <3> HIDE DEF D
    <3> QED BY <2>5, <2>6
  <2> QED BY <2>2, <2>7 DEF made
<1> HIDE DEF starts, last
<1>4. IsFiniteSet({all[p] : p \in starts})
  <2> HIDE DEF all
  <2> QED BY <1>2, FiniteImage
<1>5. \A p \in starts : all[p].min = p /\ all[p].plan = plan /\ IsDouble(all[p], {plan})
  BY <1>2 DEF IsDouble
<1> HIDE DEF all
<1>6. \A p, q \in starts : all[p].min = all[q].min => all[p] = all[q]
  BY <1>5
<1>7. PICK D : D = PlanIntervals(skill, plan, bonus)
  OBVIOUS
<1>8. \A j \in D : \E p \in starts : j = all[p]
  BY <1>3, <1>7
<1>9. \A j \in D : IsDouble(j, {plan}) /\ j.plan = plan
  BY <1>5, <1>8
<1>10. \A j, k \in D : j.min = k.min => j = k
  BY <1>6, <1>8
<1> QED BY <1>3, <1>4, <1>7, <1>9, <1>10

(* Intervals that the ranking tells apart, so that it has a first one.     *)
RankKeyed(S) ==
    /\ \A j \in S : j.song \in Int /\ j.left \in Int /\ j.right \in Int /\ j.min \in Int
    /\ \A j, k \in S : j.song = k.song /\ j.left = k.left /\ j.right = k.right /\ j.min = k.min => j = k

LEMMA FirstInterval ==
    ASSUME NEW hits, IsFiniteSet(hits), hits # {}, RankKeyed(hits)
    PROVE  (CHOOSE j \in hits : \A k \in hits \ {j} : RankedBefore(j, k)) \in hits
<1> DEFINE R == {p \in hits \X hits : RankedBefore(p[1], p[2])}
<1>1. \A a, b \in hits : <<a, b>> \in R <=> RankedBefore(a, b)
  OBVIOUS
<1> HIDE DEF R
<1>2. \A j \in hits : j.song \in Int /\ j.left \in Int /\ j.right \in Int /\ j.min \in Int
  BY DEF RankKeyed
<1>3. ASSUME NEW j \in hits, NEW k \in hits, j # k PROVE RankedBefore(j, k) \/ RankedBefore(k, j)
  <2>1. ~(j.song = k.song /\ j.left = k.left /\ j.right = k.right /\ j.min = k.min)
    BY <1>3 DEF RankKeyed
  <2> QED BY <1>2, <2>1 DEF RankedBefore
<1>4. ASSUME NEW j \in hits, NEW k \in hits, NEW l \in hits, RankedBefore(j, k), RankedBefore(k, l)
      PROVE  RankedBefore(j, l)
  BY <1>2, <1>4 DEF RankedBefore
<1>5. Orders(R, hits)
  BY <1>1, <1>3, <1>4 DEF Orders
<1>6. PICK j \in hits : \A k \in hits \ {j} : <<j, k>> \in R
  BY <1>5, LeastExists
<1>7. \A k \in hits \ {j} : RankedBefore(j, k)
  BY <1>1, <1>6
<1> QED BY <1>7

(* The intervals of a layer are told apart by the ranking.                 *)
LEMMA LayerIntervalsRanked ==
    ASSUME Ready, NEW skill, skill.up \in Nat, NEW bonus \in Nat, NEW l, IsLayer(l)
    PROVE  /\ IsFiniteSet(LayerIntervals(l, skill, bonus)) /\ RankKeyed(LayerIntervals(l, skill, bonus))
           /\ \A j \in LayerIntervals(l, skill, bonus) :
                 \/ IsSingle(j, skill, l.points) /\ l.points \in Divisors(Missing)
                 \/ IsDouble(j, l.plans) /\ IsPlan(j.plan, Missing)
<1>1. Missing \in Nat \ {0}
  BY DEF Ready
<1>2. CASE IsOneSongLayer(l, Missing)
  <2>1. l.points \in Divisors(Missing) /\ l.points \in Nat \ {0}
    BY <1>1, <1>2, DivisorsOf DEF IsOneSongLayer
  <2>2. PICK D : D = SingleIntervals(skill, l.points, bonus)
    OBVIOUS
  <2>3. LayerIntervals(l, skill, bonus) = D
    BY <2>1, <2>2 DEF LayerIntervals
  <2>4. IsFiniteSet(D) /\ (\A j \in D : IsSingle(j, skill, l.points)) /\ (\A j, k \in D : j.song = k.song => j = k)
    BY <2>1, <2>2, SinglesRanked
  <2>5. ASSUME NEW j \in D PROVE j.song \in Int /\ j.left \in Int /\ j.right \in Int /\ j.min \in Int
    <3>1. IsSingle(j, skill, l.points)
      BY <2>4
    <3>2. PICK s \in SafeSongs(skill.duration) : s.id = j.song
      BY <3>1 DEF IsSingle
    <3>3. s.id \in Nat
      BY SafeSong
    <3> QED BY <2>1, <3>1, <3>2, <3>3 DEF IsSingle
  <2>6. RankKeyed(D)
    BY <2>4, <2>5 DEF RankKeyed
  <2> QED BY <2>1, <2>3, <2>4, <2>6
<1>3. ASSUME NEW min \in Nat \ {0}, NEW max \in Int, IsTwoSongLayer(l, Missing, TwoSongPlans(Missing, min, max))
      PROVE  /\ IsFiniteSet(LayerIntervals(l, skill, bonus)) /\ RankKeyed(LayerIntervals(l, skill, bonus))
             /\ \A j \in LayerIntervals(l, skill, bonus) : IsDouble(j, l.plans) /\ IsPlan(j.plan, Missing)
  <2>1. l.points = 0 /\ l.plans \subseteq TwoSongPlans(Missing, min, max)
    BY <1>3 DEF IsTwoSongLayer
  <2>2. PICK T : T = TwoSongPlans(Missing, min, max)
    OBVIOUS
  <2>3. IsFiniteSet(T) /\ \A p \in T : IsPlan(p, Missing)
    BY <1>1, <2>2, PlansOfTwo
  <2>4. IsFiniteSet(l.plans) /\ \A p \in l.plans : IsPlan(p, Missing)
    BY <2>1, <2>2, <2>3, FS_Subset
  <2> DEFINE of == [p \in l.plans |-> PlanIntervals(skill, p, bonus)]
             D == UNION {of[p] : p \in l.plans}
  <2>5. LayerIntervals(l, skill, bonus) = D
    <3>1. {of[p] : p \in l.plans} = {PlanIntervals(skill, p, bonus) : p \in l.plans}
      OBVIOUS
    <3>2. LayerIntervals(l, skill, bonus) = UNION {PlanIntervals(skill, p, bonus) : p \in l.plans}
      BY <2>1 DEF LayerIntervals
    <3> HIDE DEF of
    <3> QED BY ONLY <3>1, <3>2
  <2>6. \A p \in l.plans : IsFiniteSet(of[p])
    BY <2>4, DoublesRanked
  <2>7. IsFiniteSet({of[p] : p \in l.plans})
    <3> HIDE DEF of
    <3> QED BY <2>4, FiniteImage
  <2>8. IsFiniteSet(D)
    <3> HIDE DEF of
    <3> QED BY <2>6, <2>7, FS_UNION
  <2>9. ASSUME NEW j \in D
        PROVE  /\ j.plan \in l.plans /\ j \in PlanIntervals(skill, j.plan, bonus) /\ IsDouble(j, l.plans)
               /\ IsPlan(j.plan, Missing)
    <3>1. PICK p \in l.plans : j \in PlanIntervals(skill, p, bonus)
      OBVIOUS
    <3>2. IsDouble(j, {p}) /\ j.plan = p
      BY <2>4, <3>1, DoublesRanked
    <3> QED BY <2>4, <3>1, <3>2 DEF IsDouble
  <2>10. ASSUME NEW j \in D, NEW k \in D, j.left = k.left, j.right = k.right, j.min = k.min
         PROVE  j = k
    <3>1. j.plan = k.plan
      BY <2>9, <2>10 DEF IsDouble, IsPlan
    <3>2. PICK p \in l.plans : p = j.plan /\ IsPlan(p, Missing)
      BY <2>9
    <3>3. j \in PlanIntervals(skill, p, bonus) /\ k \in PlanIntervals(skill, p, bonus)
      BY <2>9, <3>1, <3>2
    <3> HIDE DEF D
    <3> QED BY <2>10, <3>2, <3>3, DoublesRanked
  <2>11. ASSUME NEW j \in D PROVE j.song \in Int /\ j.left \in Int /\ j.right \in Int /\ j.min \in Int
    BY <2>9 DEF IsDouble, IsPlan
  <2> HIDE DEF D
  <2>12. RankKeyed(D)
    BY <2>10, <2>11 DEF RankKeyed
  <2> QED BY <2>5, <2>8, <2>9, <2>12
<1> QED BY <1>2, <1>3 DEF IsLayer

-----------------------------------------------------------------------------
(* The plan made of a team.                                                *)

(* The parts of PlansAreExact: that of a play, of a plan, and the power.   *)
PlayIsExact(c, p) ==
    \E s \in SafeSongs(c.skill.duration) :
        /\ s.id = p.song /\ p.score = Score(s, c.skill, c.power)
        /\ p.pt = p.fire * Points(p.score, BasisPoints(Bonus(c.team)))

PlanIsExact(c) ==
    /\ Produced(c.plays) = Missing
    /\ SharedSkill(c.team) = {c.skill}
    /\ \A p \in c.plays : PlayIsExact(c, p)

PowerIsReal(c, i) == c.power \in Powers(c.team, i)

(* The fields of a candidate.                                              *)
IsCandidate(c) ==
    c = [team |-> c.team, items |-> c.items, skill |-> c.skill, bonus |-> c.bonus, power |-> c.power,
         plays |-> c.plays]

(* The song, the score and the points of a play. *)
IsPlay(p, skill, power, bonus) ==
    \E s \in SafeSongs(skill.duration) :
        s.id = p.song /\ p.score = Score(s, skill, power) /\ p.pt = p.fire * Points(p.score, bonus)

(* Plays of one song that make a number of points. *)
Makes(P, song, skill, power, bonus, total) ==
    /\ IsFiniteSet(P) /\ Produced(P) = total
    /\ \A p \in P : p.song = song /\ p.pt * p.count \in Nat /\ IsPlay(p, skill, power, bonus)

(* Units of a song whose score gives the points make points times units.   *)
LEMMA SongsPlays ==
    ASSUME NEW skill, NEW s \in SafeSongs(skill.duration), NEW power, NEW bonus,
           NEW points \in Nat, NEW units \in Nat, Points(Score(s, skill, power), bonus) = points
    PROVE  Makes(PlaysOfSong(s, skill, power, points, units), s.id, skill, power, bonus, points * units)
<1>1. PICK score, song : score = Score(s, skill, power) /\ song = s.id
  OBVIOUS
<1>2. PICK D : D = PlaysForUnits(song, score, points, units)
  OBVIOUS
<1>3. PlaysOfSong(s, skill, power, points, units) = D
  BY <1>1, <1>2 DEF PlaysOfSong
<1>4. UnitsAdd(song, score, points, units)
  BY ONLY points \in Nat, units \in Nat, UnitsProduce
<1>8. IsFiniteSet(PlaysForUnits(song, score, points, units))
  BY ONLY points \in Nat, units \in Nat, UnitsProduce
<1>5. Produced(PlaysForUnits(song, score, points, units)) = points * units
  BY <1>4 DEF UnitsAdd
<1>6. \A p \in PlaysForUnits(song, score, points, units) :
         p.song = song /\ p.score = score /\ p.fire \in Nat /\ p.pt = p.fire * points /\ p.pt * p.count \in Nat
  BY ONLY points \in Nat, units \in Nat, UnitsProduce
<1>7. \A p \in D : p.song = s.id /\ p.pt * p.count \in Nat /\ IsPlay(p, skill, power, bonus)
  BY <1>1, <1>2, <1>6 DEF IsPlay
<1> QED BY <1>2, <1>3, <1>4, <1>5, <1>7, <1>8 DEF Makes

(* The song that is played has a score that gives the points asked for.    *)
LEMMA BestSong ==
    ASSUME Ready, NEW skill, skill.up \in Nat, NEW power \in Int, NEW points, NEW bonus,
           SongFor(skill, power, points, bonus) # None
    PROVE  /\ SongFor(skill, power, points, bonus) \in SafeSongs(skill.duration)
           /\ Points(Score(SongFor(skill, power, points, bonus), skill, power), bonus) = points
<1> DEFINE safe == SafeSongs(skill.duration)
           score == [s \in safe |-> Score(s, skill, power)]
           fit == {s \in safe : Points(Score(s, skill, power), bonus) = points}
           before(s, t) == \/ Score(s, skill, power) > Score(t, skill, power)
                           \/ Score(s, skill, power) = Score(t, skill, power) /\ s.id < t.id
           R == {p \in fit \X fit : before(p[1], p[2])}
<1>1. IsFiniteSet(fit) /\ \A s, t \in fit : s.id = t.id => s = t
  <2>1. fit \subseteq safe
    OBVIOUS
  <2>2. IsFiniteSet(safe) /\ \A s, t \in safe : s.id = t.id => s = t
    BY SafeFinite
  <2> HIDE DEF fit, safe
  <2> QED BY <2>1, <2>2, FS_Subset
<1>2. \A s, t \in fit : <<s, t>> \in R <=> before(s, t)
  OBVIOUS
<1>3. \A s \in fit : Score(s, skill, power) \in Int /\ s.id \in Nat
  BY SafeSong, ScoreInt
<1> HIDE DEF R
<1>4. fit # {} /\ SongFor(skill, power, points, bonus) = CHOOSE s \in fit : \A t \in fit \ {s} : before(s, t)
  BY DEF SongFor
<1>5. \A s, t \in fit : s # t => before(s, t) \/ before(t, s)
  <2> HIDE DEF fit
  <2> QED BY <1>1, <1>3
<1>6. \A s, t, u \in fit : before(s, t) /\ before(t, u) => before(s, u)
  <2> HIDE DEF fit
  <2> QED BY <1>3
<1>7. Orders(R, fit)
  <2> HIDE DEF before, fit
  <2> QED BY <1>2, <1>5, <1>6 DEF Orders
<1>8. PICK s \in fit : \A t \in fit \ {s} : <<s, t>> \in R
  <2> HIDE DEF before, fit
  <2> QED BY <1>1, <1>4, <1>7, LeastExists
<1>9. \A t \in fit \ {s} : before(s, t)
  <2> HIDE DEF before, fit
  <2> QED BY <1>2, <1>8
<1>10. SongFor(skill, power, points, bonus) \in fit
  <2> HIDE DEF before, fit
  <2> QED BY <1>4, <1>9
<1> QED BY <1>10

(* The plays of the two songs of a plan make what is missing.              *)
LEMMA TwoSongPlays ==
    ASSUME Ready, NEW skill, skill.up \in Nat, NEW power \in Int, NEW bonus, NEW plan, IsPlan(plan, Missing),
           NEW left, left = SongFor(skill, power, plan.left, bonus),
           NEW right, right = SongFor(skill, power, plan.right, bonus),
           PlaysOfTwo(left, right, skill, power, plan) # {}
    PROVE  /\ Produced(PlaysOfTwo(left, right, skill, power, plan)) = Missing
           /\ \A p \in PlaysOfTwo(left, right, skill, power, plan) : IsPlay(p, skill, power, bonus)
<1>1. left # None /\ right # None
  BY DEF PlaysOfTwo
<1>2. /\ left \in SafeSongs(skill.duration) /\ Points(Score(left, skill, power), bonus) = plan.left
      /\ right \in SafeSongs(skill.duration) /\ Points(Score(right, skill, power), bonus) = plan.right
  BY <1>1, BestSong
<1>3. /\ plan.left \in Nat /\ plan.right \in Nat /\ plan.left < plan.right
      /\ plan.leftUnits \in Nat /\ plan.rightUnits \in Nat
      /\ plan.left * plan.leftUnits + plan.right * plan.rightUnits = Missing
  BY DEF IsPlan, MakesTarget
<1>4. left.id # right.id
  <2>1. left # right
    BY <1>2, <1>3
  <2> QED BY <1>2, <2>1, SafeFinite
<1>5. PICK P : P = PlaysOfSong(left, skill, power, plan.left, plan.leftUnits)
  OBVIOUS
<1>6. PICK Q : Q = PlaysOfSong(right, skill, power, plan.right, plan.rightUnits)
  OBVIOUS
<1>7. PICK made \in Int : made = plan.left * plan.leftUnits /\ Makes(P, left.id, skill, power, bonus, made)
  <2>1. PICK points \in Nat, units \in Nat : points = plan.left /\ units = plan.leftUnits
    BY <1>3
  <2>2. Makes(PlaysOfSong(left, skill, power, points, units), left.id, skill, power, bonus, points * units)
    BY <1>2, <2>1, SongsPlays
  <2> QED BY <1>5, <2>1, <2>2
<1>8. PICK rest \in Int : rest = plan.right * plan.rightUnits /\ Makes(Q, right.id, skill, power, bonus, rest)
  <2>1. PICK points \in Nat, units \in Nat : points = plan.right /\ units = plan.rightUnits
    BY <1>3
  <2>2. Makes(PlaysOfSong(right, skill, power, points, units), right.id, skill, power, bonus, points * units)
    BY <1>2, <2>1, SongsPlays
  <2> QED BY <1>6, <2>1, <2>2
<1>9. P \cap Q = {}
  BY <1>4, <1>7, <1>8 DEF Makes
<1>10. Produced(P \cup Q) = Produced(P) + Produced(Q)
  <2>1. \A p \in P \cup Q : p.pt * p.count \in Int
    BY <1>7, <1>8 DEF Makes
  <2>2. IsFiniteSet(P) /\ IsFiniteSet(Q)
    BY <1>7, <1>8 DEF Makes
  <2> QED BY <1>9, <2>1, <2>2, ProducedTogether
<1>11. PlaysOfTwo(left, right, skill, power, plan) = P \cup Q
  BY <1>1, <1>5, <1>6 DEF PlaysOfTwo
<1>12. Produced(P \cup Q) = Missing
  BY <1>3, <1>7, <1>8, <1>10 DEF Makes
<1> QED BY <1>7, <1>8, <1>11, <1>12 DEF Makes

(* The plays of an interval of a layer. *)
LEMMA IntervalPlays ==
    ASSUME Ready, NEW skill, skill.up \in Nat, NEW power \in Int, NEW bonus \in Nat, NEW l, IsLayer(l),
           NEW j \in LayerIntervals(l, skill, bonus), PlaysOf(skill, power, bonus, j) # {}
    PROVE  /\ Produced(PlaysOf(skill, power, bonus, j)) = Missing
           /\ \A p \in PlaysOf(skill, power, bonus, j) : IsPlay(p, skill, power, bonus)
<1>1. CASE IsSingle(j, skill, l.points) /\ l.points \in Divisors(Missing)
  <2>1. PICK points \in Nat \ {0} : points = j.left /\ points \in Divisors(Missing)
    <3>1. Divisors(Missing) \subseteq Nat \ {0}
      BY DivisorsOf DEF Ready
    <3> QED BY <1>1, <3>1 DEF IsSingle
  <2>2. PICK s \in SafeSongs(skill.duration) : s.id = j.song
    BY <1>1 DEF IsSingle
  <2>3. (CHOOSE t \in songs : t.id = j.song) = s
    <3>1. s \in songs
      BY SafeSong
    <3>2. \A t \in songs : t.id = s.id => t = s
      BY <3>1, RequestSongs DEF Ready
    <3> QED BY <2>2, <3>1, <3>2
  <2>4. PICK units \in Nat : units = Missing \div points /\ Missing = points * units
    <3>1. PICK n \in Nat \ {0} : n = Missing
      BY DEF Ready
    <3>2. points \in Divisors(n)
      BY <2>1, <3>1
    <3>3. n = points * (n \div points) /\ n \div points \in Nat
      BY ONLY n \in Nat \ {0}, <3>2, Multiple
    <3> QED BY <3>1, <3>3
  <2>5. PICK D : D = PlaysOfSong(s, skill, power, points, units)
    OBVIOUS
  <2>6. PlaysOf(skill, power, bonus, j)
          = (IF Points(Score(s, skill, power), bonus) = points THEN D ELSE {})
    <3>1. PlaysOf(skill, power, bonus, j) = PlaysOfOne(s, skill, power, bonus, points)
      BY <1>1, <2>1, <2>3 DEF PlaysOf, IsSingle
    <3>2. PlaysOfOne(s, skill, power, bonus, points)
            = (IF Points(Score(s, skill, power), bonus) = points
               THEN PlaysOfSong(s, skill, power, points, Missing \div points) ELSE {})
      BY DEF PlaysOfOne
    <3> QED BY <2>4, <2>5, <3>1, <3>2
  <2>7. Points(Score(s, skill, power), bonus) = points
    BY <2>6
  <2>8. Makes(PlaysOfSong(s, skill, power, points, units), s.id, skill, power, bonus, points * units)
    BY ONLY points \in Nat, units \in Nat, <2>7, s \in SafeSongs(skill.duration), SongsPlays
  <2> QED BY <2>4, <2>5, <2>6, <2>7, <2>8 DEF Makes
<1>2. CASE IsDouble(j, l.plans) /\ IsPlan(j.plan, Missing)
  <2>1. PICK plan : plan = j.plan /\ IsPlan(plan, Missing)
    BY <1>2
  <2>2. PICK left : left = SongFor(skill, power, plan.left, bonus)
    OBVIOUS
  <2>3. PICK right : right = SongFor(skill, power, plan.right, bonus)
    OBVIOUS
  <2>4. PlaysOf(skill, power, bonus, j) = PlaysOfTwo(left, right, skill, power, plan)
    BY <1>2, <2>1, <2>2, <2>3 DEF PlaysOf, IsDouble, IsPlan
  <2> QED BY <2>1, <2>2, <2>3, <2>4, TwoSongPlays
<1>3. \/ IsSingle(j, skill, l.points) /\ l.points \in Divisors(Missing)
      \/ IsDouble(j, l.plans) /\ IsPlan(j.plan, Missing)
  BY LayerIntervalsRanked
<1> QED BY <1>1, <1>2, <1>3

(* All cards of a team have the skill of the bucket, in the mode that the  *)
(* team is of.                                                             *)
LEMMA CommonValue ==
    ASSUME NEW team, team # {}, NEW values, values # {}, NEW v, \A w \in values : w = v
    PROVE  Cardinality(values) = 1 /\ (CHOOSE w \in values : TRUE) = v
<1>1. values = {v}
  OBVIOUS
<1> QED BY <1>1, FS_Singleton

(* A team that is of the mode of its bucket shares the bucket's skill.     *)
LEMMA TeamShares ==
    ASSUME NEW m \in SearchModes, NEW skill, NEW team, team # {}, team \subseteq BucketCards(m, skill),
           MatchesMode(m, team)
    PROVE  SharedSkill(team) = {skill}
<1>1. \A c \in team : c \in in.cards /\ Allows(m, c) /\ SkillOf(c, m) = skill
  BY DEF BucketCards, Allowed
<1> DEFINE bands == {c.band : c \in team}
           attributes == {c.attribute : c \in team}
           common(values) == IF Cardinality(values) = 1 THEN CHOOSE v \in values : TRUE ELSE None
<1>2. common(bands) = m.band
  <2>1. CASE m.band = None
    BY <2>1 DEF MatchesMode
  <2>2. CASE m.band # None
    <3>1. bands # {} /\ \A w \in bands : w = m.band
      BY <1>1, <2>2 DEF Allows
    <3> HIDE DEF bands
    <3> QED BY <3>1, CommonValue
  <2> QED BY <2>1, <2>2
<1>3. common(attributes) = m.attribute
  <2>1. CASE m.attribute = None
    BY <2>1 DEF MatchesMode
  <2>2. CASE m.attribute # None
    <3>1. attributes # {} /\ \A w \in attributes : w = m.attribute
      BY <1>1, <2>2 DEF Allows
    <3> HIDE DEF attributes
    <3> QED BY <3>1, CommonValue
  <2> QED BY <2>1, <2>2
<1>4. KindOf(team) = [band |-> common(bands), attribute |-> common(attributes)]
  BY DEF KindOf
<1>5. m = [band |-> m.band, attribute |-> m.attribute]
  BY DEF SearchModes
<1>6. KindOf(team) = m
  BY <1>2, <1>3, <1>4, <1>5
<1> QED BY <1>1, <1>6 DEF SharedSkill

LEMMA SkillUp ==
    ASSUME IsRequest(in), NEW m, NEW skill, NEW c \in BucketCards(m, skill)
    PROVE  skill.up \in Nat
<1>1. c \in in.cards /\ skill = SkillOf(c, m)
  BY DEF BucketCards, Allowed
<1>2. c.usual \in Nat /\ c.unified \in Nat \cup {None}
  BY <1>1 DEF IsRequest, IsCard
<1> QED BY <1>1, <1>2 DEF SkillOf, ScoreUp

LEMMA PowersFinite ==
    ASSUME NEW team, NEW i, Sum(team, i) \in Int
    PROVE  IsFiniteSet(Powers(team, i)) /\ Powers(team, i) \subseteq Int
<1>1. PICK a \in Int, b \in Int, c \in Int : a = Lower(Sum(team, i)) /\ b = Sum(team, i) /\ c = Upper(Sum(team, i))
  BY RoundedPowers
<1>2. Powers(team, i) \subseteq {a, b, c}
  BY <1>1 DEF Powers
<1>3. IsFiniteSet({a, b, c})
  <2>1. {a, b, c} = {a, b} \cup {c}
    OBVIOUS
  <2>2. IsFiniteSet({a, b})
    BY ONLY TwoFinite
  <2>3. IsFiniteSet({a, b} \cup {c})
    BY ONLY <2>2, FS_AddElement
  <2> QED BY <2>1, <2>3
<1>4. {a, b, c} \subseteq Int
  OBVIOUS
<1> QED BY <1>2, <1>3, <1>4, FS_Subset

(* What every candidate must satisfy.                                      *)
Answers(c, team, i) ==
    IsCandidate(c) /\ PlanIsExact(c) /\ PowerIsReal(c, i) /\ c.items = i /\ c.team = team

(* candidate_from_pair_records: what is made of a team is an exact plan, at*)
(* a power that the team really has.                                       *)
LEMMA CandidateExact ==
    ASSUME Ready, IsLayer(layer), NEW m \in SearchModes, NEW skill, NEW team, team # {},
           team \subseteq BucketCards(m, skill), NEW i, Usable(i), NEW cached,
           cached[<<skill, BasisPoints(Bonus(team))>>] = LayerIntervals(layer, skill, BasisPoints(Bonus(team))),
           NEW c, c = CandidateOf(cached, m, skill, team, i), c # None
    PROVE  Answers(c, team, i)
<1> DEFINE bonus == BasisPoints(Bonus(team))
           hits == {j \in cached[<<skill, bonus>>] : Powers(team, i) \cap Span(j) # {}}
           first == CHOOSE j \in hits : \A k \in hits \ {j} : RankedBefore(j, k)
           power == Max(Powers(team, i) \cap Span(first))
           plays == PlaysOf(skill, power, bonus, first)
<1>1. /\ hits # {} /\ MatchesMode(m, team) /\ plays # {}
      /\ c = [team |-> team, items |-> i, skill |-> skill, bonus |-> bonus, power |-> power, plays |-> plays]
  BY DEF CandidateOf
<1>2. team \subseteq in.cards
  BY DEF BucketCards, Allowed
<1>3. bonus \in Nat
  BY <1>2, BonusNat, BasisPointsNat DEF Ready
<1>4. skill.up \in Nat
  BY SkillUp DEF Ready
<1>5. PICK all : all = LayerIntervals(layer, skill, bonus)
  OBVIOUS
<1>6. IsFiniteSet(all) /\ RankKeyed(all)
  <2> HIDE DEF bonus
  <2> QED BY <1>3, <1>4, <1>5, LayerIntervalsRanked
<1>7. hits \subseteq all
  BY <1>5
<1>8. IsFiniteSet(hits) /\ RankKeyed(hits)
  <2> HIDE DEF hits
  <2> QED BY <1>6, <1>7, FS_Subset DEF RankKeyed
<1>9. first \in hits
  <2> HIDE DEF hits
  <2> QED BY <1>1, <1>8, FirstInterval
<1>10. PICK P : P = Powers(team, i) \cap Span(first)
  OBVIOUS
<1>11. P # {}
  BY <1>9, <1>10
<1>12. IsFiniteSet(P) /\ P \subseteq Int
  <2>1. Sum(team, i) \in Int
    BY <1>2, SumNat DEF Ready
  <2>2. IsFiniteSet(Powers(team, i)) /\ Powers(team, i) \subseteq Int
    BY <2>1, PowersFinite
  <2> QED BY <1>10, <2>2, FS_Subset
<1>13. power \in P
  <2>1. power = Max(P)
    BY <1>10
  <2> HIDE DEF power
  <2> QED BY <1>11, <1>12, <2>1, MaxOf
<1>14. power \in Int /\ power \in Powers(team, i)
  BY <1>10, <1>12, <1>13
<1>15. first \in LayerIntervals(layer, skill, bonus)
  BY <1>5, <1>7, <1>9
<1> HIDE DEF first, power, hits
<1>16. Produced(plays) = Missing /\ \A p \in plays : IsPlay(p, skill, power, bonus)
  <2> HIDE DEF bonus
  <2> QED BY <1>1, <1>3, <1>4, <1>14, <1>15, IntervalPlays
<1>17. SharedSkill(team) = {skill}
  BY <1>1, TeamShares
<1>18. \A p \in plays : PlayIsExact(c, p)
  BY <1>1, <1>16 DEF IsPlay, PlayIsExact
<1> HIDE DEF plays, bonus
<1> QED BY <1>1, <1>14, <1>16, <1>17, <1>18 DEF Answers, IsCandidate, PlanIsExact, PowerIsReal

(* The cache holds the intervals of every bonus that a team can have.      *)
IntervalsFor(cached, skill, cards) ==
    \A b \in TeamBonuses(cards) : cached[<<skill, b>>] = LayerIntervals(layer, skill, b)

(* The pair with the most power is one of the pairs.                       *)
LEMMA MostPowerIn ==
    ASSUME IsRequest(in), NEW S, S # {}, \A p \in S : p \subseteq in.cards, NEW i, Usable(i)
    PROVE  MostPower(S, i) \in S
<1> DEFINE sums == {Sum(p, i) : p \in S}
<1>1. \A p \in SUBSET in.cards : Sum(p, i) \in Nat
  BY SumNat
<1>2. \A p \in S : Sum(p, i) \in Nat
  BY <1>1
<1>3. IsFiniteSet(sums)
  <2> DEFINE f == [p \in SUBSET in.cards |-> Sum(p, i)]
  <2>1. IsFiniteSet(SUBSET in.cards)
    BY FS_SUBSET DEF IsRequest
  <2>2. \A p \in S : Sum(p, i) \in {f[q] : q \in SUBSET in.cards}
    OBVIOUS
  <2>3. IsFiniteSet({f[q] : q \in SUBSET in.cards})
    <3> HIDE DEF f
    <3> QED BY <2>1, FiniteImage
  <2>4. sums \subseteq {f[q] : q \in SUBSET in.cards}
    <3> HIDE DEF f
    <3> QED BY <2>2
  <2> HIDE DEF sums
  <2> QED BY <2>3, <2>4, FS_Subset
<1>4. sums # {} /\ sums \subseteq Int
  BY <1>2
<1>5. PICK top \in sums : \A n \in sums : top >= n
  <2> HIDE DEF sums
  <2> QED BY <1>3, <1>4, MaxOf
<1>6. PICK p \in S : top = Sum(p, i)
  OBVIOUS
<1>7. \A q \in S : Sum(q, i) <= Sum(p, i)
  BY <1>2, <1>5, <1>6
<1> QED BY <1>7 DEF MostPower

LEMMA Apart ==
    ASSUME NEW p, NEW t, Characters(p) \cap Characters(t) = {}
    PROVE  p \cap t = {}
BY DEF Characters

(* enumerate_item_context: whatever triple and pair meet in the middle, the*)
(* plan is exact, and its team is of the bucket.                           *)
LEMMA FoundExact ==
    ASSUME Ready, IsLayer(layer), NEW m \in SearchModes, NEW skill, NEW cards, cards \subseteq BucketCards(m, skill),
           NEW i, Usable(i), NEW cached, IntervalsFor(cached, skill, cards), NEW changed, NEW must,
           NEW c \in Found(cached, m, skill, cards, i, changed, must)
    PROVE  IsCandidate(c) /\ PlanIsExact(c) /\ PowerIsReal(c, i) /\ c.items = i /\ c.team \subseteq cards
<1>1. PICK t, b, run, team :
         /\ t \in Lineups(3, cards) /\ b \in PairBonuses(cards)
         /\ team = t \cup PairFor(cached, m, skill, cards, i, t, b, run, changed)
         /\ Cardinality(team) = TeamSize
         /\ c = CandidateOf(cached, m, skill, team, i)
  <2> DEFINE tried == {t \in Lineups(3, cards) :
                    /\ must => t \cap changed # {}
                    /\ \E r \in TripleRanges(cached, skill, cards, i, Bonus(t)) :
                          r.min <= Sum(t, i) /\ Sum(t, i) < r.end}
             runs(t, b) == UnionRuns(cached[<<skill, BasisPoints(Bonus(t) + b)>>])
             completed(t, b) == {t \cup PairFor(cached, m, skill, cards, i, t, b, run, changed) :
                                    run \in runs(t, b)}
             teams == UNION {completed(t, b) : t \in tried, b \in PairBonuses(cards)}
  <2>1. PICK team \in teams : Cardinality(team) = TeamSize /\ c = CandidateOf(cached, m, skill, team, i)
    BY DEF Found
  <2> HIDE DEF completed, tried
  <2>2. PICK t \in tried, b \in PairBonuses(cards) : team \in completed(t, b)
    BY <2>1
  <2>3. t \in Lineups(3, cards)
    BY DEF tried
  <2>4. PICK run : team = t \cup PairFor(cached, m, skill, cards, i, t, b, run, changed)
    BY <2>2 DEF completed
  <2> QED BY <2>1, <2>3, <2>4
<1>2. t \subseteq cards /\ Cardinality(t) = 3
  BY ONLY <1>1 DEF Lineups
<1> DEFINE fitting == {p \in Pairs(cards) :
                         /\ Bonus(p) = b
                         /\ Characters(p) \cap Characters(t) = {}
                         /\ Lower(run.min) - Sum(t, i) <= Sum(p, i) /\ Sum(p, i) < Upper(run.max + 1) - Sum(t, i)
                         /\ CandidateOf(cached, m, skill, p \cup t, i) # None}
           old == {p \in fitting : p \cap changed = {}}
<1>3. PICK pair : pair = PairFor(cached, m, skill, cards, i, t, b, run, changed)
  OBVIOUS
<1>4. pair = PairAmong(fitting, i, changed)
  BY <1>3 DEF PairFor
<1>5. fitting # {}
  <2> SUFFICES ASSUME fitting = {} PROVE FALSE
    OBVIOUS
  <2>1. pair = {}
    BY <1>4 DEF PairAmong
  <2>2. team = t
    BY <1>1, <1>3, <2>1
  <2>3. TeamSize = 5
    BY BoundAssumption
  <2>4. Cardinality(t) = 5 /\ Cardinality(t) = 3
    BY <1>1, <1>2, <2>2, <2>3
  <2> QED BY ONLY <2>4
<1>6. cards \subseteq in.cards
  BY DEF BucketCards, Allowed
<1>7. \A p \in fitting : p \subseteq in.cards
  BY <1>6 DEF Pairs, Lineups
<1>8. pair \in fitting
  <2> HIDE DEF fitting
  <2>1. old \subseteq fitting
    OBVIOUS
  <2>2. PICK S : S = (IF old # {} THEN old ELSE fitting)
    OBVIOUS
  <2>3. S # {} /\ S \subseteq fitting
    BY <1>5, <2>1, <2>2
  <2>4. pair = MostPower(S, i)
    BY <1>4, <1>5, <2>2 DEF PairAmong
  <2>5. \A p \in S : p \subseteq in.cards
    BY <1>7, <2>3
  <2>6. MostPower(S, i) \in S
    BY <2>3, <2>5, MostPowerIn DEF Ready
  <2> QED BY <2>3, <2>4, <2>6
<1>9. /\ pair \in Pairs(cards) /\ Bonus(pair) = b /\ Characters(pair) \cap Characters(t) = {}
      /\ CandidateOf(cached, m, skill, pair \cup t, i) # None
  BY <1>8
<1> HIDE DEF fitting, old
<1>10. team = pair \cup t
  BY <1>1, <1>3
<1>11. pair \subseteq cards /\ pair \cap t = {}
  BY <1>9, Apart DEF Pairs, Lineups
<1>12. Bonus(team) = Bonus(t) + b
  <2>1. t \subseteq in.cards /\ pair \subseteq in.cards /\ team \subseteq in.cards
    BY <1>2, <1>6, <1>10, <1>11
  <2>2. t \cap pair = {} /\ team = t \cup pair
    BY <1>10, <1>11
  <2>3. Bonus(t \cup pair) = Bonus(t) + Bonus(pair)
    BY <2>1, <2>2, BonusNat DEF Ready
  <2> QED BY <1>9, <2>2, <2>3
<1>13. BasisPoints(Bonus(team)) \in TeamBonuses(cards)
  <2>1. t \in kSubset(3, cards)
    BY <1>2 DEF kSubset
  <2> QED BY ONLY <1>1, <1>12, <2>1 DEF TeamBonuses
<1>14. team # {} /\ team \subseteq cards
  <2>1. t # {}
    BY <1>2, FS_EmptySet
  <2> QED BY <1>2, <1>10, <1>11, <2>1
<1>15. cached[<<skill, BasisPoints(Bonus(team))>>] = LayerIntervals(layer, skill, BasisPoints(Bonus(team)))
  BY <1>13 DEF IntervalsFor
<1>16. c # None
  BY <1>1, <1>9, <1>10
<1>17. team \subseteq BucketCards(m, skill)
  BY <1>14
<1>18. Answers(c, team, i)
  BY <1>1, <1>14, <1>15, <1>16, <1>17, CandidateExact
<1> QED BY <1>14, <1>18 DEF Answers

(* Nothing is kept that was not found.                                     *)
LEMMA InsertedFrom ==
    ASSUME NEW old, NEW found, NEW all \in Inserted(old, found)
    PROVE  all \subseteq old \cup found
<1>1. \A s : OnePerKey(s) \subseteq s
  BY DEF OnePerKey, Keys
<1>2. CASE Cardinality(Keys(old \cup found)) < in.limit
  BY <1>1, <1>2 DEF Inserted
<1>3. CASE ~(Cardinality(Keys(old \cup found)) < in.limit) /\ in.limit = 1
  BY <1>3 DEF Inserted
<1>4. CASE ~(Cardinality(Keys(old \cup found)) < in.limit) /\ in.limit # 1
  <2>1. PICK some \in SUBSET found : all = OnePerKey(old \cup some)
    BY <1>4 DEF Inserted
  <2> QED BY <1>1, <2>1
<1> QED BY <1>2, <1>3, <1>4

(* Items that differ only in the inner target, which base leaves out. *)
Adds(base, i, axis) ==
    /\ base.magazine = i.magazine
    /\ axis = "band" => base.band = i.band /\ base.attribute = {}
    /\ axis # "band" => base.attribute = i.attribute /\ base.band = {}

(* A team with no card that the inner target changes has the same powers   *)
(* under the items without it: that is what lets enumerate_local_item_batch*)
(* keep the teams of its base.                                             *)
THEOREM ReusedPower ==
    ASSUME IsRequest(in), NEW base, NEW i, NEW axis, Adds(base, i, axis),
           NEW cards, NEW team, team \subseteq cards, team \cap Changed(cards, i, axis) = {}
    PROVE  Powers(team, base) = Powers(team, i)
<1>1. ASSUME NEW c \in team PROVE PowerOf(c, base) = PowerOf(c, i)
  <2>1. ~(IF axis = "band" THEN c.attribute \in i.attribute ELSE c.band \in i.band)
    BY DEF Changed
  <2> QED BY <2>1 DEF Adds, PowerOf
<1>2. PowersOf(team, base) = PowersOf(team, i)
  BY <1>1 DEF PowersOf
<1>3. Sum(team, base) = Sum(team, i)
  BY <1>2, SumIsTotal
<1> QED BY <1>3 DEF Powers

-----------------------------------------------------------------------------
(* What stays while the request does.                                      *)

(* What depends on the request and its songs only stays while they do. *)
LEMMA SumStays ==
    ASSUME in' = in, NEW CONSTANT team, NEW CONSTANT i
    PROVE  Sum(team, i)' = Sum(team, i)
<1> DEFINE power == [c \in team |-> PowerOf(c, i)']
<1>1. \A c \in team : PowerOf(c, i)' = PowerOf(c, i)
  BY DEF PowerOf
<1>2. power = PowersOf(team, i)
  BY <1>1 DEF PowersOf
<1>3. \A it : IsSum(it, power, team) <=>
              it = [s \in SUBSET team |-> IF s = {} THEN 0 ELSE PowerOf(Pick(s), i)' + it[s \ {Pick(s)}]]
  BY PickIn DEF IsSum, SumStep
<1>4. Sum(team, i)' = Total(power, team)
  BY <1>3 DEF Sum, Total, MapThenSumSet, MapThenFoldSet, Pick
<1> QED BY <1>2, <1>4, SumIsTotal

LEMMA PowersStay ==
    ASSUME in' = in, NEW CONSTANT team, NEW CONSTANT i
    PROVE  Powers(team, i)' = Powers(team, i)
BY SumStays DEF Powers

LEMMA SafeStay ==
    ASSUME songs' = songs, NEW CONSTANT duration
    PROVE  SafeSongs(duration)' = SafeSongs(duration)
BY DEF SafeSongs, TemplateSongs

LEMMA PointsStay ==
    ASSUME in' = in, NEW CONSTANT score, NEW CONSTANT bonus
    PROVE  Points(score, bonus)' = Points(score, bonus)
BY DEF Points

LEMMA PlansStay ==
    ASSUME in' = in, songs' = songs, NEW CONSTANT c
    PROVE  PlanIsExact(c)' <=> PlanIsExact(c)
<1>1. Missing' = Missing
  BY DEF Missing
<1>2. ASSUME NEW CONSTANT p PROVE PlayIsExact(c, p)' <=> PlayIsExact(c, p)
  BY SafeStay, PointsStay DEF PlayIsExact
<1> QED BY <1>1, <1>2 DEF PlanIsExact

LEMMA RealStays ==
    ASSUME in' = in, NEW CONSTANT c, NEW CONSTANT i
    PROVE  PowerIsReal(c, i)' <=> PowerIsReal(c, i)
BY PowersStay DEF PowerIsReal

LEMMA IntervalStays ==
    ASSUME in' = in, NEW CONSTANT s, NEW CONSTANT skill, NEW CONSTANT points, NEW CONSTANT bonus
    PROVE  PowerInterval(s, skill, points, bonus)' = PowerInterval(s, skill, points, bonus)
BY DEF PowerInterval

LEMMA SinglesStay ==
    ASSUME in' = in, songs' = songs, NEW CONSTANT skill, NEW CONSTANT points, NEW CONSTANT bonus
    PROVE  SingleIntervals(skill, points, bonus)' = SingleIntervals(skill, points, bonus)
<1>1. {[song |-> s.id, powers |-> PowerInterval(s, skill, points, bonus)'] : s \in SafeSongs(skill.duration)'}
        = {[song |-> s.id, powers |-> PowerInterval(s, skill, points, bonus)] : s \in SafeSongs(skill.duration)}
  BY SafeStay, IntervalStays
<1> QED BY <1>1 DEF SingleIntervals

LEMMA PointPowersStay ==
    ASSUME in' = in, songs' = songs, NEW CONSTANT skill, NEW CONSTANT points, NEW CONSTANT bonus
    PROVE  PointPowers(skill, points, bonus)' = PointPowers(skill, points, bonus)
<1>1. {PowerInterval(s, skill, points, bonus)' : s \in SafeSongs(skill.duration)'}
        = {PowerInterval(s, skill, points, bonus) : s \in SafeSongs(skill.duration)}
  BY SafeStay, IntervalStays
<1> QED BY <1>1 DEF PointPowers

LEMMA DoublesStay ==
    ASSUME in' = in, songs' = songs, NEW CONSTANT skill, NEW CONSTANT plan, NEW CONSTANT bonus
    PROVE  PlanIntervals(skill, plan, bonus)' = PlanIntervals(skill, plan, bonus)
BY PointPowersStay DEF PlanIntervals

LEMMA LayersStay ==
    ASSUME in' = in, songs' = songs, NEW CONSTANT l, NEW CONSTANT skill, NEW CONSTANT bonus
    PROVE  LayerIntervals(l, skill, bonus)' = LayerIntervals(l, skill, bonus)
<1>1. {PlanIntervals(skill, p, bonus)' : p \in l.plans} = {PlanIntervals(skill, p, bonus) : p \in l.plans}
  BY DoublesStay
<1> QED BY <1>1, SinglesStay DEF LayerIntervals

LEMMA ReadyStays ==
    ASSUME in' = in, songs' = songs, Ready
    PROVE  Ready'
BY DEF Ready, CanScore, AvailableSongs, Missing

LEMMA LayerStays ==
    ASSUME in' = in, NEW CONSTANT l
    PROVE  IsLayer(l)' <=> IsLayer(l)
<1>1. Missing' = Missing
  BY DEF Missing
<1> QED BY <1>1 DEF IsLayer

LEMMA CardsStay ==
    ASSUME in' = in, NEW CONSTANT m, NEW CONSTANT skill
    PROVE  BucketCards(m, skill)' = BucketCards(m, skill)
BY DEF BucketCards

LEMMA ModesStay == ASSUME in' = in PROVE SearchModes' = SearchModes
BY DEF SearchModes

-----------------------------------------------------------------------------
(* The inductive invariant of the search.                                  *)

(* The phases of the search, from the outermost in.                        *)
Searching == {"layers", "modes", "buckets", "items", "inner"}
InLayer == {"modes", "buckets", "items", "inner"}
InMode == {"buckets", "items", "inner"}

(* The inductive invariant, in its parts.  The request is one the program  *)
(* can get, and its songs are those that can be played.                    *)
RequestHolds ==
    /\ IsRequest(in)
    /\ phase \in {"bounds"} \cup Searching => Ready
    /\ phase \in {"start", "bounds"} => candidates = {} /\ result = {}

(* The layers are those of what is missing.                                *)
LayersHold ==
    /\ phase \in Searching =>
          /\ range.min \in Nat \ {0} /\ range.max \in Int
          /\ layersLeft \subseteq SearchLayers(Missing, range.min, range.max)
    /\ phase \in InLayer => IsLayer(layer) /\ modesLeft \subseteq SearchModes
    /\ phase \in InMode => mode \in SearchModes

(* A part of the work: items that differ in the inner target only, or one. *)
IsWork(w) ==
    /\ w.items # {} /\ w.items \subseteq in.items /\ w.magazine \in Nat /\ w.full \in BOOLEAN
    /\ ~w.full => \A i, j \in w.items : i.magazine = j.magazine /\ OuterKey(i, w.axis) = OuterKey(j, w.axis)

WorkHolds == phase \in {"items", "inner"} => \A w \in itemsLeft : IsWork(w)

(* The cached intervals are those of the layer that is searched: a stale   *)
(* one would make plans that miss the target.                              *)
IntervalsHold ==
    phase \in InLayer => \A k \in DOMAIN intervals : intervals[k] = LayerIntervals(layer, k[1], k[2])

(* A team of the base: exact with the base's items, which every item of the*)
(* batch extends by the inner target only.                                 *)
IsBase(c, cards, left, axis) ==
    /\ IsCandidate(c) /\ PlanIsExact(c) /\ PowerIsReal(c, c.items) /\ c.team \subseteq cards
    /\ \A i \in left : Adds(c.items, i, axis)

(* The batch: its cards are of the bucket, its teams exact for the base.   *)
BatchHolds ==
    phase = "inner" =>
        /\ batch = [cards |-> batch.cards, axis |-> batch.axis, left |-> batch.left, can |-> batch.can,
                    found |-> batch.found]
        /\ batch.cards \subseteq BucketCards(mode, bucket)
        /\ {bucket} \X TeamBonuses(batch.cards) \subseteq DOMAIN intervals
        /\ batch.left \subseteq in.items
        /\ \A c \in batch.found : IsBase(c, batch.cards, batch.left, batch.axis)

(* What is kept is exact, at a real power, for items of the request.       *)
IsAnswer(c) == c.items \in in.items /\ PlanIsExact(c) /\ PowerIsReal(c, c.items)

CandidatesHold == \A c \in candidates \cup result : IsAnswer(c)

SearchHolds ==
    RequestHolds /\ LayersHold /\ WorkHolds /\ IntervalsHold /\ BatchHolds /\ CandidatesHold

(* Each part of the invariant stays when what it reads does.               *)
LEMMA AnswersStay ==
    ASSUME in' = in, songs' = songs, \A c \in candidates' \cup result' : IsAnswer(c)
    PROVE  CandidatesHold'
<1>1. \A c : IsAnswer(c)' <=> IsAnswer(c)
  BY PlansStay, RealStays DEF IsAnswer
<1> QED BY <1>1 DEF CandidatesHold

LEMMA IntervalsStay ==
    ASSUME in' = in, songs' = songs, layer' = layer,
           \A k \in DOMAIN intervals' : intervals'[k] = LayerIntervals(layer, k[1], k[2])
    PROVE  IntervalsHold'
<1>1. \A l, skill, bonus : LayerIntervals(l, skill, bonus)' = LayerIntervals(l, skill, bonus)
  BY LayersStay
<1> QED BY <1>1 DEF IntervalsHold

LEMMA WorkStays ==
    ASSUME in' = in, \A w \in itemsLeft' : IsWork(w)
    PROVE  WorkHolds'
BY DEF WorkHolds, IsWork

LEMMA RequestStays ==
    ASSUME in' = in, songs' = songs, IsRequest(in), Ready, phase' \notin {"start", "bounds"}
    PROVE  RequestHolds'
BY ReadyStays DEF RequestHolds

(* In a layer: the layer and its mode stay. *)
LEMMA ModeStays ==
    ASSUME in' = in, range' = range, layersLeft' = layersLeft, layer' = layer, mode' = mode,
           phase \in InMode, LayersHold, modesLeft' \subseteq modesLeft
    PROVE  LayersHold'
<1>1. Missing' = Missing
  BY DEF Missing
<1>2. \A l : IsLayer(l)' <=> IsLayer(l)
  BY LayerStays
<1>3. IsLayer(layer)' <=> IsLayer(layer)
  BY <1>2
<1> QED BY <1>1, <1>3, ModesStay DEF LayersHold, Searching, InLayer, InMode

LEMMA BatchStays ==
    ASSUME in' = in, songs' = songs, mode' = mode, bucket' = bucket, NEW CONSTANT b, batch' = b,
           b = [cards |-> b.cards, axis |-> b.axis, left |-> b.left, can |-> b.can, found |-> b.found],
           b.cards \subseteq BucketCards(mode, bucket), {bucket} \X TeamBonuses(b.cards) \subseteq DOMAIN intervals',
           b.left \subseteq in.items, \A c \in b.found : IsBase(c, b.cards, b.left, b.axis)
    PROVE  BatchHolds'
<1>1. \A c, cards, left, axis : IsBase(c, cards, left, axis)' <=> IsBase(c, cards, left, axis)
  BY PlansStay, RealStays DEF IsBase
<1>2. \A m, skill : BucketCards(m, skill)' = BucketCards(m, skill)
  BY CardsStay
<1>3. BucketCards(mode, bucket)' = BucketCards(mode, bucket)
  BY <1>2
<1> QED BY <1>1, <1>3 DEF BatchHolds

(* Every action keeps the invariant.                                       *)
LEMMA InitHolds == RangeInit => SearchHolds
<1> SUFFICES ASSUME RangeInit PROVE SearchHolds
  OBVIOUS
<1>1. IsRequest(in)
  BY RequestAssumption DEF RangeInit, RangeStart
<1> QED BY <1>1 DEF RangeInit, RangeStart, SearchHolds, RequestHolds, LayersHold, WorkHolds, IntervalsHold, BatchHolds,
              CandidatesHold, Searching, InLayer, InMode

LEMMA RejectKeeps == ASSUME SearchHolds, Reject \/ NothingMissing PROVE SearchHolds'
<1>1. candidates' = {} /\ result' = {} /\ in' = in /\ phase' \in {"error", "done"}
  BY DEF Reject, NothingMissing, SearchHolds, RequestHolds
<1> QED BY <1>1 DEF SearchHolds, RequestHolds, LayersHold, WorkHolds, IntervalsHold, BatchHolds,
              CandidatesHold, Searching, InLayer, InMode

LEMMA StartKeeps == ASSUME SearchHolds, Start PROVE SearchHolds'
<1>1. candidates' = {} /\ result' = {} /\ in' = in /\ phase' = "bounds" /\ songs' = AvailableSongs
  BY DEF Start, SearchHolds, RequestHolds
<1>2. AvailableSongs' = AvailableSongs
  BY <1>1 DEF AvailableSongs
<1>3. in.event \in Events /\ in.support \in Nat \cup {None} /\ in.current \in Int /\ in.wanted \in Int
  BY DEF SearchHolds, RequestHolds, IsRequest
<1>4. CanScore' /\ Missing' \in Nat \ {0}
  BY <1>1, <1>3 DEF Start, CanScore, Missing
<1>5. IsRequest(in')
  BY <1>1 DEF SearchHolds, RequestHolds
<1>6. Ready'
  BY <1>1, <1>2, <1>4, <1>5 DEF Ready
<1> QED BY <1>1, <1>5, <1>6 DEF SearchHolds, RequestHolds, LayersHold, WorkHolds, IntervalsHold, BatchHolds,
              CandidatesHold, Searching, InLayer, InMode

LEMMA FindLayersKeeps == ASSUME SearchHolds, FindLayers PROVE SearchHolds'
<1>1. /\ candidates' = {} /\ result' = {} /\ in' = in /\ songs' = songs /\ phase' = "layers"
      /\ range' = GlobalRange /\ layersLeft' = SearchLayers(Missing, range'.min, range'.max)
      /\ Ready /\ IsRequest(in)
  BY DEF FindLayers, SearchHolds, RequestHolds
<1>2. GlobalRange.min \in Nat \ {0} /\ GlobalRange.max \in Int
  BY <1>1, RangeInt DEF Ready
<1>3. Missing' = Missing
  BY <1>1 DEF Missing
<1>4. LayersHold'
  BY <1>1, <1>2, <1>3 DEF LayersHold, InLayer, InMode
<1>5. RequestHolds'
  BY <1>1, RequestStays
<1>6. CandidatesHold'
  BY <1>1 DEF CandidatesHold
<1> QED BY <1>1, <1>4, <1>5, <1>6 DEF SearchHolds, WorkHolds, IntervalsHold, BatchHolds, InLayer

LEMMA FirstIsLayer ==
    ASSUME Ready, NEW min \in Nat \ {0}, NEW max \in Int, NEW layers,
           layers \subseteq SearchLayers(Missing, min, max), layers # {}
    PROVE  IsLayer(FirstLayer(layers))
<1>1. PICK n \in Nat \ {0} : n = Missing
  BY DEF Ready
<1>2. FirstLayer(layers) \in SearchLayers(n, min, max)
  BY <1>1, FirstLayerIn
<1>3. PICK l : l = FirstLayer(layers) /\ l \in SearchLayers(n, min, max)
  BY <1>2
<1>4. IsOneSongLayer(l, n) \/ IsTwoSongLayer(l, n, TwoSongPlans(n, min, max))
  BY <1>3, LayerKinds
<1> QED BY <1>1, <1>3, <1>4 DEF IsLayer

LEMMA NextLayerKeeps == ASSUME SearchHolds, NextLayer PROVE SearchHolds'
<1>1. /\ in' = in /\ songs' = songs /\ range' = range /\ candidates' = {} /\ result' = result
      /\ layer' = FirstLayer(layersLeft) /\ layersLeft' \subseteq layersLeft /\ layersLeft # {}
      /\ intervals' = <<>> /\ phase = "layers"
      /\ phase' = "layers" \/ (phase' = "modes" /\ modesLeft' = SearchModes)
      /\ Ready /\ IsRequest(in)
  BY DEF NextLayer, SearchHolds, RequestHolds, Searching
<1>2. Missing' = Missing
  BY <1>1 DEF Missing
<1>3. /\ range.min \in Nat \ {0} /\ range.max \in Int
      /\ layersLeft \subseteq SearchLayers(Missing, range.min, range.max)
  BY <1>1 DEF SearchHolds, LayersHold, Searching
<1>4. PICK l : l = FirstLayer(layersLeft) /\ IsLayer(l)
  BY <1>1, <1>3, FirstIsLayer
<1>5. IsLayer(l)'
  BY <1>1, <1>4, LayerStays
<1>6. IsLayer(layer)'
  BY <1>1, <1>4, <1>5
<1>7. LayersHold'
  BY <1>1, <1>2, <1>3, <1>6, ModesStay DEF LayersHold, Searching, InLayer, InMode
<1>8. RequestHolds'
  BY <1>1, RequestStays
<1>9. CandidatesHold'
  BY <1>1, AnswersStay DEF SearchHolds, CandidatesHold
<1>10. DOMAIN intervals' = {}
  BY <1>1
<1> QED BY <1>1, <1>7, <1>8, <1>9, <1>10 DEF SearchHolds, WorkHolds, IntervalsHold, BatchHolds

(* Steps that leave the request, the layer and what was found. *)
LEMMA Stays ==
    ASSUME SearchHolds, phase \in Searching, UNCHANGED <<in, songs, range, layersLeft, layer, intervals>>,
           candidates' \cup result' \subseteq candidates \cup result, phase' \notin {"start", "bounds"}
    PROVE  RequestHolds' /\ CandidatesHold' /\ (phase \in InLayer => IntervalsHold')
<1>1. IsRequest(in) /\ Ready
  BY DEF SearchHolds, RequestHolds
<1>2. RequestHolds'
  BY <1>1, RequestStays
<1>3. CandidatesHold'
  BY AnswersStay DEF SearchHolds, CandidatesHold
<1>4. phase \in InLayer => IntervalsHold'
  BY IntervalsStay DEF SearchHolds, IntervalsHold
<1> QED BY <1>2, <1>3, <1>4

LEMMA EndingKeeps == ASSUME SearchHolds, NoLayerLeft \/ EndLayer PROVE SearchHolds'
<1>1. /\ UNCHANGED <<in, songs, range, layersLeft, layer, intervals>> /\ phase \in Searching
      /\ phase' \in {"layers", "done"} /\ candidates' \cup result' \subseteq candidates \cup result
  BY DEF NoLayerLeft, EndLayer, Searching
<1>2. RequestHolds' /\ CandidatesHold'
  BY <1>1, Stays
<1>3. Missing' = Missing
  BY <1>1 DEF Missing
<1>4. LayersHold'
  BY <1>1, <1>3 DEF SearchHolds, LayersHold, Searching, InLayer, InMode
<1> QED BY <1>1, <1>2, <1>4 DEF SearchHolds, WorkHolds, IntervalsHold, BatchHolds, InLayer

LEMMA RankBound == ASSUME NEW m PROVE ModeRank(m) \in 0 .. 2
<1>1. IsFiniteSet({m.band, m.attribute}) /\ Cardinality({m.band, m.attribute}) <= 2
  <2>1. IsFiniteSet({m.band}) /\ Cardinality({m.band}) = 1
    BY FS_Singleton
  <2>2. {m.band, m.attribute} = {m.band} \cup {m.attribute}
    OBVIOUS
  <2>3. /\ IsFiniteSet({m.band} \cup {m.attribute})
        /\ Cardinality({m.band} \cup {m.attribute})
             = (IF m.attribute \in {m.band} THEN Cardinality({m.band}) ELSE Cardinality({m.band}) + 1)
    BY <2>1, FS_AddElement
  <2> QED BY <2>1, <2>2, <2>3
<1>2. PICK S : S = {m.band, m.attribute} \ {None}
  OBVIOUS
<1>3. S \subseteq {m.band, m.attribute}
  BY <1>2
<1>4. IsFiniteSet(S) /\ Cardinality(S) <= Cardinality({m.band, m.attribute})
  BY <1>1, <1>3, FS_Subset
<1>5. Cardinality(S) \in Nat /\ Cardinality({m.band, m.attribute}) \in Nat
  BY <1>1, <1>4, FS_CardinalityType
<1> QED BY <1>1, <1>2, <1>4, <1>5 DEF ModeRank

(* The mode with the highest rank is one of the modes.                     *)
LEMMA BestMode ==
    ASSUME NEW modes, modes # {}
    PROVE  (CHOOSE m \in modes : \A n \in modes : ModeRank(n) <= ModeRank(m)) \in modes
<1> DEFINE ranks == {ModeRank(m) : m \in modes}
<1>1. ranks \subseteq 0 .. 2 /\ ranks # {}
  BY RankBound
<1>2. PICK least \in Int, most \in Int : least = 0 /\ most = 2
  OBVIOUS
<1>3. IsFiniteSet(ranks) /\ ranks \subseteq Int
  <2> HIDE DEF ranks
  <2>1. IsFiniteSet(least .. most)
    BY ONLY least \in Int, most \in Int, FS_Interval
  <2>2. ranks \subseteq least .. most
    BY <1>1, <1>2
  <2>3. IsFiniteSet(ranks)
    BY ONLY <2>1, <2>2, FS_Subset
  <2> QED BY <2>2, <2>3
<1>4. PICK top \in ranks : \A r \in ranks : top >= r
  <2> HIDE DEF ranks
  <2> QED BY <1>1, <1>3, MaxOf
<1>5. PICK m \in modes : top = ModeRank(m)
  OBVIOUS
<1>6. \A n \in modes : ModeRank(n) \in Int
  BY RankBound
<1>7. \A n \in modes : ModeRank(n) <= ModeRank(m)
  BY <1>4, <1>5, <1>6
<1> QED BY <1>7

LEMMA NextModeKeeps == ASSUME SearchHolds, NextMode PROVE SearchHolds'
<1>1. /\ UNCHANGED <<in, songs, range, layersLeft, layer, intervals, candidates, result>> /\ phase = "modes"
      /\ mode' = (CHOOSE m \in modesLeft : \A n \in modesLeft : ModeRank(n) <= ModeRank(m)) /\ modesLeft # {}
      /\ modesLeft' \subseteq modesLeft /\ phase' \in {"modes", "buckets"}
  BY DEF NextMode
<1>2. RequestHolds' /\ CandidatesHold' /\ IntervalsHold'
  BY <1>1, Stays DEF Searching, InLayer
<1>3. Missing' = Missing
  BY <1>1 DEF Missing
<1>4. mode' \in modesLeft
  BY <1>1, BestMode
<1>5. \A l : IsLayer(l)' <=> IsLayer(l)
  BY <1>1, LayerStays
<1>6. IsLayer(layer)' <=> IsLayer(layer)
  BY <1>1, <1>5
<1>7. LayersHold'
  BY <1>1, <1>3, <1>4, <1>6, ModesStay DEF SearchHolds, LayersHold, Searching, InLayer, InMode
<1> QED BY <1>1, <1>2, <1>7 DEF SearchHolds, WorkHolds, BatchHolds

LEMMA GroupsFrom == ASSUME NEW m PROVE ItemGroups(m) \subseteq in.items
BY DEF ItemGroups

LEMMA WorkIsWork ==
    ASSUME NEW m, NEW w \in WorkOf(m)
    PROVE  IsWork(w)
<1> DEFINE contexts(g) == {i \in ItemGroups(m) : i.magazine = g}
           local(g) == {i \in contexts(g) : IsLocal(i)}
           axis(g) == OuterAxis(local(g))
           full(g) == {[magazine |-> g, full |-> TRUE, axis |-> "band", items |-> {i}] : i \in contexts(g) \ local(g)}
           batches(g) == {[magazine |-> g, full |-> FALSE, axis |-> axis(g),
                           items |-> {i \in local(g) : OuterKey(i, axis(g)) = key}] :
                             key \in {OuterKey(i, axis(g)) : i \in local(g)}}
<1>1. WorkOf(m) = UNION {full(g) \cup batches(g) : g \in Magazines}
  BY DEF WorkOf
<1>2. PICK g \in Magazines : w \in full(g) \cup batches(g)
  <2> HIDE DEF full, batches
  <2> QED BY <1>1
<1>3. g \in Nat
  BY BoundAssumption
<1>4. contexts(g) \subseteq in.items
  BY GroupsFrom
<1>5. CASE w \in full(g)
  <2>1. PICK i \in contexts(g) : w = [magazine |-> g, full |-> TRUE, axis |-> "band", items |-> {i}]
    BY <1>5
  <2>2. w.items = {i} /\ i \in in.items /\ w.magazine = g /\ w.full = TRUE
    BY <1>4, <2>1
  <2> QED BY <1>3, <2>2 DEF IsWork
<1>6. CASE w \in batches(g)
  <2>1. PICK key \in {OuterKey(i, axis(g)) : i \in local(g)} :
           w = [magazine |-> g, full |-> FALSE, axis |-> axis(g),
                items |-> {i \in local(g) : OuterKey(i, axis(g)) = key}]
    BY <1>6
  <2>2. w.items # {} /\ w.items \subseteq contexts(g)
    BY <2>1
  <2>3. \A i \in w.items : i.magazine = g /\ OuterKey(i, w.axis) = key
    BY <2>1
  <2> HIDE DEF axis, local, contexts
  <2>4. w.magazine = g /\ w.full = FALSE
    BY <2>1
  <2> QED BY <1>3, <1>4, <2>2, <2>3, <2>4 DEF IsWork
<1> QED BY <1>2, <1>5, <1>6

LEMMA NextBucketKeeps == ASSUME SearchHolds, NextBucket PROVE SearchHolds'
<1>1. /\ UNCHANGED <<in, songs, range, layersLeft, layer, modesLeft, mode, intervals, candidates, result>>
      /\ phase = "buckets"
      /\ phase' = "buckets" \/ (phase' = "items" /\ itemsLeft' = WorkOf(mode))
  BY DEF NextBucket
<1>2. RequestHolds' /\ CandidatesHold' /\ IntervalsHold'
  BY <1>1, Stays DEF Searching, InLayer
<1>3. LayersHold'
  BY <1>1, ModeStays DEF SearchHolds, InMode
<1>4. CASE phase' = "buckets"
  BY <1>2, <1>3, <1>4 DEF SearchHolds, WorkHolds, BatchHolds
<1>5. CASE phase' = "items" /\ itemsLeft' = WorkOf(mode)
  <2>1. \A w \in itemsLeft' : IsWork(w)
    BY <1>5, WorkIsWork
  <2>2. WorkHolds'
    BY <1>1, <2>1, WorkStays
  <2> QED BY <1>2, <1>3, <1>5, <2>2 DEF SearchHolds, BatchHolds
<1> QED BY <1>1, <1>4, <1>5

LEMMA ReturnKeeps == ASSUME SearchHolds, EndMode \/ EndBucket \/ EndBatch PROVE SearchHolds'
<1>1. /\ UNCHANGED <<in, songs, range, layersLeft, layer, modesLeft, mode, itemsLeft, intervals, candidates, result>>
      /\ phase \in InMode /\ phase' \in {"modes", "buckets", "items"} /\ (phase' = "items" => phase = "inner")
  BY DEF EndMode, EndBucket, EndBatch, InMode
<1>2. RequestHolds' /\ CandidatesHold' /\ IntervalsHold'
  BY <1>1, Stays DEF Searching, InLayer, InMode
<1>3. LayersHold'
  BY <1>1, ModeStays DEF SearchHolds
<1>4. WorkHolds'
  <2>1. CASE phase' = "items"
    BY <1>1, <2>1, WorkStays DEF SearchHolds, WorkHolds
  <2>2. CASE phase' # "items"
    BY <1>1, <2>2 DEF WorkHolds
  <2> QED BY <2>1, <2>2
<1> QED BY <1>1, <1>2, <1>3, <1>4 DEF SearchHolds, BatchHolds

(* The next part of the work is one of those left.                         *)
LEMMA NextWorkIn ==
    ASSUME itemsLeft # {}, \A w \in itemsLeft : IsWork(w)
    PROVE  NextWork \in itemsLeft
<1> DEFINE ranks == {WorkRank(w) : w \in itemsLeft}
<1>1. \A w \in itemsLeft : WorkRank(w) \in Nat
  BY DEF IsWork, WorkRank
<1>2. ranks \subseteq Nat /\ ranks # {}
  BY <1>1
<1>3. PICK least \in ranks : \A r \in ranks : least <= r
  <2> HIDE DEF ranks
  <2> QED BY <1>2, NatLeast
<1>4. PICK w \in itemsLeft : least = WorkRank(w)
  OBVIOUS
<1>5. \A v \in itemsLeft : WorkRank(w) <= WorkRank(v)
  BY <1>3, <1>4
<1> QED BY <1>5 DEF NextWork

(* Filling the cache keeps it right for the layer.                         *)
LEMMA CachedHolds ==
    ASSUME IntervalsHold, phase \in InLayer, NEW CONSTANT cards,
           NEW CONSTANT cached, cached = WithIntervals(intervals, bucket, cards)
    PROVE  /\ \A k \in DOMAIN cached : cached[k] = LayerIntervals(layer, k[1], k[2])
           /\ {bucket} \X TeamBonuses(cards) \subseteq DOMAIN cached
           /\ IntervalsFor(cached, bucket, cards)
<1>1. PICK D : D = DOMAIN intervals \cup ({bucket} \X TeamBonuses(cards))
  OBVIOUS
<1>2. cached = [k \in D |-> IF k \in DOMAIN intervals THEN intervals[k] ELSE LayerIntervals(layer, bucket, k[2])]
  BY <1>1 DEF WithIntervals
<1>3. \A k \in D : k \notin DOMAIN intervals => k[1] = bucket
  BY <1>1
<1>4. \A k \in DOMAIN cached : cached[k] = LayerIntervals(layer, k[1], k[2])
  BY <1>2, <1>3 DEF IntervalsHold
<1>5. {bucket} \X TeamBonuses(cards) \subseteq DOMAIN cached
  BY <1>1, <1>2
<1>6. ASSUME NEW b \in TeamBonuses(cards)
      PROVE  cached[<<bucket, b>>] = LayerIntervals(layer, bucket, b)
  <2>1. <<bucket, b>> \in DOMAIN cached
    BY <1>5
  <2>2. cached[<<bucket, b>>] = LayerIntervals(layer, <<bucket, b>>[1], <<bucket, b>>[2])
    BY <1>4, <2>1
  <2> QED BY <2>2
<1> QED BY <1>4, <1>5, <1>6 DEF IntervalsFor

LEMMA KeptIntervals ==
    ASSUME IntervalsHold, phase \in InLayer, NEW CONSTANT cards,
           {bucket} \X TeamBonuses(cards) \subseteq DOMAIN intervals
    PROVE  IntervalsFor(intervals, bucket, cards)
<1>1. ASSUME NEW b \in TeamBonuses(cards)
      PROVE  intervals[<<bucket, b>>] = LayerIntervals(layer, bucket, b)
  <2>1. <<bucket, b>> \in DOMAIN intervals
    OBVIOUS
  <2>2. intervals[<<bucket, b>>] = LayerIntervals(layer, <<bucket, b>>[1], <<bucket, b>>[2])
    BY <2>1 DEF IntervalsHold
  <2> QED BY <2>2
<1> QED BY <1>1 DEF IntervalsFor

(* What is found for items of the request is exact.                        *)
LEMMA FoundAnswers ==
    ASSUME SearchHolds, phase \in InMode, NEW CONSTANT cards, cards \subseteq BucketCards(mode, bucket),
           NEW CONSTANT i \in in.items, NEW CONSTANT cached, IntervalsFor(cached, bucket, cards),
           NEW CONSTANT changed, NEW CONSTANT must,
           NEW CONSTANT all \in Inserted(candidates, Found(cached, mode, bucket, cards, i, changed, must))
    PROVE  \A c \in all : IsAnswer(c)
<1>1. Ready /\ IsLayer(layer) /\ mode \in SearchModes
  BY DEF SearchHolds, RequestHolds, LayersHold, Searching, InLayer, InMode
<1>2. Usable(i)
  BY <1>1, RequestItems DEF Ready
<1>3. ASSUME NEW c \in Found(cached, mode, bucket, cards, i, changed, must)
      PROVE  IsAnswer(c)
  <2>1. PICK m, skill : m \in SearchModes /\ m = mode /\ skill = bucket
    BY <1>1
  <2>2. PlanIsExact(c) /\ PowerIsReal(c, i) /\ c.items = i
    BY <1>1, <1>2, <1>3, <2>1, FoundExact
  <2> QED BY <2>2 DEF IsAnswer
<1>4. \A c \in candidates : IsAnswer(c)
  BY DEF SearchHolds, CandidatesHold
<1>5. all \subseteq candidates \cup Found(cached, mode, bucket, cards, i, changed, must)
  BY InsertedFrom
<1> QED BY <1>3, <1>4, <1>5

(* What every step of the search of a bucket keeps, whatever its batch. *)
LEMMA SeekKeeps ==
    ASSUME SearchHolds, phase \in {"items", "inner"},
           UNCHANGED <<in, songs, range, layersLeft, layer, mode, bucket, result>>,
           \A c \in candidates' : IsAnswer(c),
           \A k \in DOMAIN intervals' : intervals'[k] = LayerIntervals(layer, k[1], k[2]),
           itemsLeft' \subseteq itemsLeft, modesLeft' \subseteq modesLeft,
           phase' \in {"modes", "items", "inner"}
    PROVE  RequestHolds' /\ LayersHold' /\ WorkHolds' /\ IntervalsHold' /\ CandidatesHold'
<1>1. RequestHolds'
  <2>1. IsRequest(in) /\ Ready
    BY DEF SearchHolds, RequestHolds, Searching
  <2> QED BY <2>1, RequestStays
<1>2. LayersHold'
  BY ModeStays DEF SearchHolds, InMode
<1>3. WorkHolds'
  <2>1. \A w \in itemsLeft' : IsWork(w)
    BY DEF SearchHolds, WorkHolds
  <2> QED BY <2>1, WorkStays
<1>4. IntervalsHold'
  BY IntervalsStay
<1>5. CandidatesHold'
  <2>1. \A c \in candidates' \cup result' : IsAnswer(c)
    BY DEF SearchHolds, CandidatesHold
  <2> QED BY <2>1, AnswersStay
<1> QED BY <1>1, <1>2, <1>3, <1>4, <1>5

LEMMA Goes ==
    ASSUME NEW CONSTANT where, GoOn(where)
    PROVE  /\ modesLeft' \subseteq modesLeft
           /\ (phase' = "modes" /\ batch' = NoBatch) \/ phase' = where
BY DEF GoOn

LEMMA FullKeeps == ASSUME SearchHolds, SearchFull PROVE SearchHolds'
<1>1. /\ UNCHANGED <<in, songs, range, layersLeft, layer, mode, bucket, result>>
      /\ phase = "items" /\ itemsLeft # {} /\ itemsLeft' \subseteq itemsLeft /\ GoOn("items")
  BY DEF SearchFull
<1>2. modesLeft' \subseteq modesLeft /\ phase' \in {"modes", "items"}
  BY <1>1, Goes
<1>3. \A w \in itemsLeft : IsWork(w)
  BY <1>1 DEF SearchHolds, WorkHolds
<1>4. IsWork(NextWork)
  BY <1>1, <1>3, NextWorkIn
<1>5. PICK i : i = (CHOOSE j \in NextWork.items : TRUE) /\ i \in in.items
  BY <1>4 DEF IsWork
<1>6. PICK cards : cards = Canonical(BucketCards(mode, bucket), {i}) /\ cards \subseteq BucketCards(mode, bucket)
  BY DEF Canonical
<1>7. PICK cached : cached = WithIntervals(intervals, bucket, cards)
  OBVIOUS
<1>8. intervals' = intervals \/ intervals' = cached
  BY <1>5, <1>6, <1>7 DEF SearchFull
<1>9. \/ candidates' = candidates
      \/ candidates' \in Inserted(candidates, Found(cached, mode, bucket, cards, i, {}, FALSE))
  BY <1>5, <1>6, <1>7 DEF SearchFull
<1>10. IntervalsHold /\ phase \in InLayer /\ phase \in InMode
  BY <1>1 DEF SearchHolds, InLayer, InMode
<1>11. \A k \in DOMAIN cached : cached[k] = LayerIntervals(layer, k[1], k[2])
  BY <1>7, <1>10, CachedHolds
<1>12. IntervalsFor(cached, bucket, cards)
  BY <1>7, <1>10, CachedHolds
<1>13. \A k \in DOMAIN intervals' : intervals'[k] = LayerIntervals(layer, k[1], k[2])
  BY <1>8, <1>10, <1>11 DEF IntervalsHold
<1>14. \A c \in candidates' : IsAnswer(c)
  <2>1. CASE candidates' = candidates
    BY <2>1 DEF SearchHolds, CandidatesHold
  <2>2. CASE candidates' \in Inserted(candidates, Found(cached, mode, bucket, cards, i, {}, FALSE))
    BY <1>5, <1>6, <1>10, <1>12, <2>2, FoundAnswers
  <2> QED BY <1>9, <2>1, <2>2
<1>15. RequestHolds' /\ LayersHold' /\ WorkHolds' /\ IntervalsHold' /\ CandidatesHold'
  BY <1>1, <1>2, <1>13, <1>14, SeekKeeps
<1>16. BatchHolds'
  BY <1>2 DEF BatchHolds
<1> QED BY <1>15, <1>16 DEF SearchHolds

(* The base's items are usable, and each item of the batch adds only the   *)
(* inner target.                                                           *)
LEMMA BaseItems ==
    ASSUME IsRequest(in), NEW some \in in.items, NEW axis,
           NEW i, i = IF axis = "band" THEN [some EXCEPT !.attribute = {}] ELSE [some EXCEPT !.band = {}],
           NEW items, items \subseteq in.items,
           \A j \in items : j.magazine = some.magazine /\ OuterKey(j, axis) = OuterKey(some, axis)
    PROVE  Usable(i) /\ \A j \in items : Adds(i, j, axis)
<1>1. /\ some \in [band : SUBSET Bands, attribute : SUBSET Attributes, magazine : Magazines]
      /\ in.gain.band[some.band] \in Nat /\ in.gain.attribute[some.attribute] \in Nat
  BY DEF IsRequest, IsItems
<1>2. CASE axis = "band"
  <2>1. i.magazine = some.magazine /\ i.band = some.band /\ i.attribute = {}
    BY <1>1, <1>2
  <2>2. Usable(i)
    BY <1>1, <2>1 DEF Usable
  <2>3. \A j \in items : Adds(i, j, axis)
    BY <1>2, <2>1 DEF Adds, OuterKey
  <2> QED BY <2>2, <2>3
<1>3. CASE axis # "band"
  <2>1. i.magazine = some.magazine /\ i.attribute = some.attribute /\ i.band = {}
    BY <1>1, <1>3
  <2>2. Usable(i)
    BY <1>1, <2>1 DEF Usable
  <2>3. \A j \in items : Adds(i, j, axis)
    BY <1>3, <2>1 DEF Adds, OuterKey
  <2> QED BY <2>2, <2>3
<1> QED BY <1>2, <1>3

LEMMA BaseKeeps == ASSUME SearchHolds, SearchBase PROVE SearchHolds'
<1>1. /\ UNCHANGED <<in, songs, range, layersLeft, layer, mode, modesLeft, bucket, result, candidates>>
      /\ phase = "items" /\ itemsLeft # {} /\ ~NextWork.full /\ itemsLeft' \subseteq itemsLeft
  BY DEF SearchBase
<1>2. \A w \in itemsLeft : IsWork(w)
  BY <1>1 DEF SearchHolds, WorkHolds
<1>3. PICK work : work = NextWork /\ IsWork(work)
  BY <1>1, <1>2, NextWorkIn
<1>4. PICK axis, items : axis = work.axis /\ items = work.items
  OBVIOUS
<1>5. PICK some \in items : some = (CHOOSE j \in items : TRUE)
  BY <1>3, <1>4 DEF IsWork
<1>6. /\ items \subseteq in.items
      /\ \A j \in items : j.magazine = some.magazine /\ OuterKey(j, axis) = OuterKey(some, axis)
  BY <1>1, <1>3, <1>4 DEF IsWork
<1>7. PICK i : i = IF axis = "band" THEN [some EXCEPT !.attribute = {}] ELSE [some EXCEPT !.band = {}]
  OBVIOUS
<1>8. IsRequest(in) /\ Ready /\ IsLayer(layer) /\ mode \in SearchModes
  BY <1>1 DEF SearchHolds, RequestHolds, LayersHold, Searching, InLayer, InMode
<1>9. Usable(i) /\ \A j \in items : Adds(i, j, axis)
  BY <1>6, <1>7, <1>8, BaseItems
<1>10. PICK cards : cards = Canonical(BucketCards(mode, bucket), {i} \cup items)
                    /\ cards \subseteq BucketCards(mode, bucket)
  BY DEF Canonical
<1>11. PICK cached : cached = WithIntervals(intervals, bucket, cards)
  OBVIOUS
<1>12. PICK can : can = MayMatch(cached, bucket, cards, i)
  OBVIOUS
<1>13. \/ UNCHANGED <<intervals, phase, batch>>
       \/ intervals' = cached /\ UNCHANGED phase
       \/ /\ intervals' = cached /\ phase' = "inner"
          /\ \E found \in (IF can THEN Inserted({}, Found(cached, mode, bucket, cards, i, {}, FALSE)) ELSE {{}}) :
                batch' = [cards |-> cards, axis |-> axis, left |-> items, can |-> can, found |-> found]
  BY <1>3, <1>4, <1>5, <1>7, <1>10, <1>11, <1>12 DEF SearchBase
<1>14. IntervalsHold /\ phase \in InLayer
  BY <1>1 DEF SearchHolds, InLayer
<1>15. \A k \in DOMAIN cached : cached[k] = LayerIntervals(layer, k[1], k[2])
  BY <1>11, <1>14, CachedHolds
<1>16. {bucket} \X TeamBonuses(cards) \subseteq DOMAIN cached
  BY <1>11, <1>14, CachedHolds
<1>17. IntervalsFor(cached, bucket, cards)
  BY <1>11, <1>14, CachedHolds
<1>18. \A k \in DOMAIN intervals' : intervals'[k] = LayerIntervals(layer, k[1], k[2])
  BY <1>13, <1>14, <1>15 DEF IntervalsHold
<1>19. \A c \in candidates' : IsAnswer(c)
  BY <1>1 DEF SearchHolds, CandidatesHold
<1>20. phase' \in {"modes", "items", "inner"}
  BY <1>1, <1>13
<1>21. RequestHolds' /\ LayersHold' /\ WorkHolds' /\ IntervalsHold' /\ CandidatesHold'
  BY <1>1, <1>18, <1>19, <1>20, SeekKeeps
<1>22. CASE phase' = "items"
  BY <1>21, <1>22 DEF SearchHolds, BatchHolds
<1>23. CASE phase' # "items"
  <2>1. /\ intervals' = cached /\ phase' = "inner"
        /\ \E found \in (IF can THEN Inserted({}, Found(cached, mode, bucket, cards, i, {}, FALSE)) ELSE {{}}) :
              batch' = [cards |-> cards, axis |-> axis, left |-> items, can |-> can, found |-> found]
    BY <1>1, <1>13, <1>23
  <2>2. PICK found \in (IF can THEN Inserted({}, Found(cached, mode, bucket, cards, i, {}, FALSE)) ELSE {{}}) :
           batch' = [cards |-> cards, axis |-> axis, left |-> items, can |-> can, found |-> found]
    BY <2>1
  <2>3. found \subseteq Found(cached, mode, bucket, cards, i, {}, FALSE)
    <3>1. CASE can
      <4>1. found \in Inserted({}, Found(cached, mode, bucket, cards, i, {}, FALSE))
        BY <2>2, <3>1
      <4>2. found \subseteq {} \cup Found(cached, mode, bucket, cards, i, {}, FALSE)
        BY <4>1, InsertedFrom
      <4> QED BY <4>2
    <3>2. CASE ~can
      BY <2>2, <3>2
    <3> QED BY <3>1, <3>2
  <2>4. ASSUME NEW CONSTANT c \in found PROVE IsBase(c, cards, items, axis)
    <3>1. PICK m, skill : m \in SearchModes /\ m = mode /\ skill = bucket
      BY <1>8
    <3>2. c \in Found(cached, m, skill, cards, i, {}, FALSE)
      BY <2>3, <3>1
    <3>3. cards \subseteq BucketCards(m, skill) /\ IntervalsFor(cached, skill, cards)
      BY <1>10, <1>17, <3>1
    <3>4. IsCandidate(c) /\ PlanIsExact(c) /\ PowerIsReal(c, i) /\ c.items = i /\ c.team \subseteq cards
      BY ONLY <1>8, <1>9, <3>1, <3>2, <3>3, FoundExact
    <3> QED BY <1>9, <3>4 DEF IsBase
  <2>5. PICK b : b = [cards |-> cards, axis |-> axis, left |-> items, can |-> can, found |-> found]
    OBVIOUS
  <2>6. /\ b.cards = cards /\ b.left = items /\ b.axis = axis /\ b.found = found
        /\ b = [cards |-> b.cards, axis |-> b.axis, left |-> b.left, can |-> b.can, found |-> b.found]
    BY <2>5
  <2>7. BatchHolds'
    BY <1>1, <1>6, <1>10, <1>16, <2>1, <2>2, <2>4, <2>5, <2>6, BatchStays
  <2> QED BY <1>21, <2>7 DEF SearchHolds
<1> QED BY <1>22, <1>23

LEMMA InnerKeeps == ASSUME SearchHolds, SearchInner PROVE SearchHolds'
<1>1. /\ UNCHANGED <<in, songs, range, layersLeft, layer, mode, bucket, itemsLeft, intervals, result>>
      /\ phase = "inner" /\ batch.left # {}
  BY DEF SearchInner
<1>2. /\ batch = [cards |-> batch.cards, axis |-> batch.axis, left |-> batch.left, can |-> batch.can,
                  found |-> batch.found]
      /\ batch.cards \subseteq BucketCards(mode, bucket)
      /\ {bucket} \X TeamBonuses(batch.cards) \subseteq DOMAIN intervals
      /\ batch.left \subseteq in.items
      /\ \A c \in batch.found : IsBase(c, batch.cards, batch.left, batch.axis)
  BY <1>1 DEF SearchHolds, BatchHolds
<1>3. PICK i \in batch.left : i = (CHOOSE j \in batch.left : TRUE)
  BY <1>1
<1>4. PICK changed : changed = Changed(batch.cards, i, batch.axis)
  OBVIOUS
<1>5. PICK reusable : reusable = {c \in batch.found : c.team \cap changed = {}}
  OBVIOUS
<1>6. PICK reused : reused = (CHOOSE c \in reusable : TRUE)
  OBVIOUS
<1>7. PICK must : must = (batch.found = {})
  OBVIOUS
<1>8. \/ reusable # {} /\ candidates' = OnePerKey(candidates \cup {[reused EXCEPT !.items = i]})
      \/ candidates' \in Inserted(candidates, Found(intervals, mode, bucket, batch.cards, i, changed, must))
      \/ candidates' = candidates
  BY <1>3, <1>4, <1>5, <1>6, <1>7 DEF SearchInner
<1>9. /\ GoOn("inner")
      /\ LimitReached(candidates') \/ batch' = [batch EXCEPT !.left = @ \ {i}]
  BY <1>3 DEF SearchInner
<1>10. modesLeft' \subseteq modesLeft /\ phase' \in {"modes", "inner"}
  BY <1>9, Goes
<1>11. IntervalsHold /\ phase \in InLayer /\ phase \in InMode /\ IsRequest(in)
  BY <1>1 DEF SearchHolds, RequestHolds, InLayer, InMode
<1>12. \A k \in DOMAIN intervals' : intervals'[k] = LayerIntervals(layer, k[1], k[2])
  BY <1>1, <1>11 DEF IntervalsHold
<1>13. \A c \in candidates' : IsAnswer(c)
  <2>1. CASE reusable # {} /\ candidates' = OnePerKey(candidates \cup {[reused EXCEPT !.items = i]})
    <3>1. reused \in batch.found /\ reused.team \cap changed = {}
      BY <1>5, <1>6, <2>1
    <3>2. IsBase(reused, batch.cards, batch.left, batch.axis)
      BY <1>2, <3>1
    <3>3. PICK new : new = [reused EXCEPT !.items = i]
      OBVIOUS
    <3>4. /\ new.items = i /\ new.team = reused.team /\ new.skill = reused.skill /\ new.power = reused.power
          /\ new.plays = reused.plays
      BY <3>2, <3>3 DEF IsBase, IsCandidate
    <3>5. PlanIsExact(new)
      BY <3>2, <3>4 DEF IsBase, PlanIsExact, PlayIsExact
    <3>6. Powers(reused.team, reused.items) = Powers(reused.team, i)
      <4>1. Adds(reused.items, i, batch.axis) /\ reused.team \subseteq batch.cards
        BY <3>2 DEF IsBase
      <4> QED BY <1>4, <1>11, <3>1, <4>1, ReusedPower
    <3>7. PowerIsReal(new, new.items)
      BY <3>2, <3>4, <3>6 DEF IsBase, PowerIsReal
    <3>8. IsAnswer(new)
      BY <1>2, <3>4, <3>5, <3>7 DEF IsAnswer
    <3>9. candidates' \subseteq candidates \cup {new}
      BY <2>1, <3>3 DEF OnePerKey, Keys
    <3> QED BY <3>8, <3>9 DEF SearchHolds, CandidatesHold
  <2>2. CASE candidates' \in Inserted(candidates, Found(intervals, mode, bucket, batch.cards, i, changed, must))
    <3>1. PICK cards, cached : cards = batch.cards /\ cached = intervals
      OBVIOUS
    <3>2. IntervalsFor(intervals, bucket, cards)
      BY <1>2, <1>11, <3>1, KeptIntervals
    <3>3. candidates' \in Inserted(candidates, Found(cached, mode, bucket, cards, i, changed, must))
      BY <2>2, <3>1
    <3>4. i \in in.items /\ cards \subseteq BucketCards(mode, bucket) /\ IntervalsFor(cached, bucket, cards)
      BY <1>2, <1>3, <3>1, <3>2
    <3> QED BY <1>11, <3>3, <3>4, FoundAnswers
  <2>3. CASE candidates' = candidates
    BY <2>3 DEF SearchHolds, CandidatesHold
  <2> QED BY <1>8, <2>1, <2>2, <2>3
<1>14. RequestHolds' /\ LayersHold' /\ WorkHolds' /\ IntervalsHold' /\ CandidatesHold'
  BY <1>1, <1>10, <1>12, <1>13, SeekKeeps
<1>15. BatchHolds'
  <2>1. CASE phase' # "inner"
    BY <2>1 DEF BatchHolds
  <2>2. CASE phase' = "inner"
    <3>1. batch' = [batch EXCEPT !.left = @ \ {i}]
      BY <1>9, <2>2 DEF GoOn
    <3>2. PICK b : b = [batch EXCEPT !.left = @ \ {i}]
      OBVIOUS
    <3>3. /\ b.cards = batch.cards /\ b.left = batch.left \ {i} /\ b.axis = batch.axis /\ b.found = batch.found
          /\ b = [cards |-> b.cards, axis |-> b.axis, left |-> b.left, can |-> b.can, found |-> b.found]
      BY <1>2, <3>2
    <3>4. \A c \in b.found : IsBase(c, b.cards, b.left, b.axis)
      BY <1>2, <3>3 DEF IsBase
    <3>5. b.cards \subseteq BucketCards(mode, bucket) /\ b.left \subseteq in.items
      BY <1>2, <3>3
    <3>6. {bucket} \X TeamBonuses(b.cards) \subseteq DOMAIN intervals'
      BY <1>1, <1>2, <3>3
    <3> QED BY <1>1, <3>1, <3>2, <3>3, <3>4, <3>5, <3>6, BatchStays
  <2> QED BY <2>1, <2>2
<1> QED BY <1>14, <1>15 DEF SearchHolds

LEMMA StutterKeeps == ASSUME SearchHolds, UNCHANGED rangeVars PROVE SearchHolds'
<1>1. /\ UNCHANGED <<in, phase, songs, range, layersLeft, layer, modesLeft, mode, bucketsLeft, bucket,
                     itemsLeft, batch, intervals, candidates, result>>
  BY DEF rangeVars
<1>2. Missing' = Missing
  BY <1>1 DEF Missing
<1>3. RequestHolds'
  <2>1. Ready => Ready'
    BY <1>1, ReadyStays
  <2> QED BY <1>1, <2>1 DEF SearchHolds, RequestHolds
<1>4. LayersHold'
  <2>1. \A l : IsLayer(l)' <=> IsLayer(l)
    BY <1>1, LayerStays
  <2>2. IsLayer(layer)' <=> IsLayer(layer)
    BY <1>1, <2>1
  <2> QED BY <1>1, <1>2, <2>2, ModesStay DEF SearchHolds, LayersHold
<1>5. WorkHolds'
  BY <1>1, WorkStays DEF SearchHolds, WorkHolds, IsWork
<1>6. IntervalsHold'
  BY <1>1, IntervalsStay DEF SearchHolds, IntervalsHold
<1>7. BatchHolds'
  <2>1. PICK b : b = batch
    OBVIOUS
  <2>2. CASE phase # "inner"
    BY <1>1, <2>2 DEF BatchHolds
  <2>3. CASE phase = "inner"
    BY <1>1, <2>1, <2>3, BatchStays DEF SearchHolds, BatchHolds
  <2> QED BY <2>2, <2>3
<1>8. CandidatesHold'
  BY <1>1, AnswersStay DEF SearchHolds, CandidatesHold
<1> QED BY <1>3, <1>4, <1>5, <1>6, <1>7, <1>8 DEF SearchHolds

LEMMA NextKeeps == SearchHolds /\ [RangeNext]_rangeVars => SearchHolds'
<1> SUFFICES ASSUME SearchHolds, [RangeNext]_rangeVars PROVE SearchHolds'
  OBVIOUS
<1>1. CASE Reject \/ NothingMissing
  BY <1>1, RejectKeeps
<1>2. CASE Start
  BY <1>2, StartKeeps
<1>3. CASE FindLayers
  BY <1>3, FindLayersKeeps
<1>4. CASE NextLayer
  BY <1>4, NextLayerKeeps
<1>5. CASE NoLayerLeft \/ EndLayer
  BY <1>5, EndingKeeps
<1>6. CASE NextMode
  BY <1>6, NextModeKeeps
<1>7. CASE NextBucket
  BY <1>7, NextBucketKeeps
<1>8. CASE EndMode \/ EndBucket \/ EndBatch
  BY <1>8, ReturnKeeps
<1>9. CASE SearchFull
  BY <1>9, FullKeeps
<1>10. CASE SearchBase
  BY <1>10, BaseKeeps
<1>11. CASE SearchInner
  BY <1>11, InnerKeeps
<1>12. CASE UNCHANGED rangeVars
  BY <1>12, StutterKeeps
<1> QED BY <1>1, <1>2, <1>3, <1>4, <1>5, <1>6, <1>7, <1>8, <1>9, <1>10, <1>11, <1>12 DEF RangeNext

(* At every step of the search: the cached intervals are those of the layer,*)
(* the work is of the request, and every team of the batch and every       *)
(* candidate makes exactly what is missing.                                *)
THEOREM SearchSound == RangeSpec => []SearchHolds
BY InitHolds, NextKeeps, PTL DEF RangeSpec

(* Whatever score_range answers, for every request: the plays make exactly *)
(* the points that are missing, each with the song's score at the power and*)
(* skill of the team, and the team really has that power with those items. *)
THEOREM PlansExact == RangeSpec => []PlansAreExact
<1>1. SearchHolds => PlansAreExact
  <2> SUFFICES ASSUME SearchHolds, NEW c \in result PROVE
        /\ Produced(c.plays) = Missing
        /\ c.items \in in.items /\ c.power \in Powers(c.team, c.items)
        /\ SharedSkill(c.team) = {c.skill}
        /\ \A p \in c.plays : \E s \in SafeSongs(c.skill.duration) :
              /\ s.id = p.song /\ p.score = Score(s, c.skill, c.power)
              /\ p.pt = p.fire * Points(p.score, BasisPoints(Bonus(c.team)))
    BY DEF PlansAreExact
  <2>1. IsAnswer(c)
    BY DEF SearchHolds, CandidatesHold
  <2> QED BY <2>1 DEF IsAnswer, PlanIsExact, PlayIsExact, PowerIsReal
<1> QED BY <1>1, SearchSound, PTL

-----------------------------------------------------------------------------
(* The score of the counts (AutoTimeline).                                 *)

(* A function's values add up to the sum over its domain.                  *)
LEMMA FoldIsTotal ==
    ASSUME NEW f
    PROVE  FoldFunction(+, 0, f) = Total(f, DOMAIN f)
<1>1. ASSUME NEW S PROVE FoldFunctionOnSet(+, 0, f, S) = Total(f, S)
  <2>1. \A it : IsSum(it, f, S) <=>
                it = [s \in SUBSET S |-> IF s = {} THEN 0 ELSE f[Pick(s)] + it[s \ {Pick(s)}]]
    BY DEF IsSum, SumStep
  <2> QED BY <2>1 DEF FoldFunctionOnSet, Total, MapThenFoldSet, Pick
<1>2. FoldFunction(+, 0, f) = FoldFunctionOnSet(+, 0, f, DOMAIN f)
  BY DEF FoldFunction
<1> QED BY <1>1, <1>2

(* What the judgements of a window of a rising skill are settled to.       *)
Rises == [k \in Nat |-> Settled(Added(k))]

LEMMA RisesAreTotal ==
    ASSUME NEW n \in Nat
    PROVE  MapThenSumSet(LAMBDA k : Settled(Added(k)), 1 .. n) = Total(Rises, 1 .. n)
<1>1. \A it : IsSum(it, Rises, 1 .. n) <=>
              it = [s \in SUBSET (1 .. n) |-> IF s = {} THEN 0 ELSE Settled(Added(Pick(s))) + it[s \ {Pick(s)}]]
  <2>1. ASSUME NEW s \in SUBSET (1 .. n), s # {} PROVE Rises[Pick(s)] = Settled(Added(Pick(s)))
    <3>0. Pick(s) \in 1 .. n
      BY <2>1, PickIn
    <3>1. PICK k \in Nat : k = Pick(s)
      BY <3>0
    <3>2. Rises[k] = Settled(Added(k))
      BY DEF Rises
    <3> QED BY <3>1, <3>2
  <2> QED BY <2>1 DEF IsSum, SumStep
<1> QED BY <1>1 DEF Total, MapThenSumSet, MapThenFoldSet, Pick

(* Adding to one value adds to the sum.                                    *)
LEMMA TotalBump ==
    ASSUME NEW S, IsFiniteSet(S), NEW x \in S, NEW f \in [S -> Int], NEW d \in Int,
           NEW h, h = [f EXCEPT ![x] = @ + d]
    PROVE  Total(h, S) = Total(f, S) + d
<1>1. /\ Total(f, S) = f[x] + Total(f, S \ {x})
      /\ Total(h, S) = h[x] + Total(h, S \ {x})
  <2>1. \A y \in S : f[y] \in Int /\ h[y] \in Int
    OBVIOUS
  <2> QED BY <2>1, TotalRemove
<1>2. Total(h, S \ {x}) = Total(f, S \ {x})
  BY TotalSame, FS_Subset
<1>3. Total(f, S \ {x}) \in Int
  BY TotalInt, FS_Subset
<1> QED BY <1>1, <1>2, <1>3

LEMMA TotalZero ==
    ASSUME NEW S, IsFiniteSet(S), NEW f, \A x \in S : f[x] = 0
    PROVE  Total(f, S) = 0
<1> DEFINE Bad == {s \in SUBSET S : Total(f, s) # 0}
<1> SUFFICES ASSUME Bad # {} PROVE FALSE
  OBVIOUS
<1>1. PICK u \in Bad : \A t \in Bad : ~(t \subseteq u /\ t # u)
  <2>1. Bad \subseteq SUBSET S
    OBVIOUS
  <2> HIDE DEF Bad
  <2> QED BY <2>1, SmallestSubset
<1>2. u # {}
  BY TotalEmpty
<1>3. PICK x : x \in u
  BY <1>2
<1>4. Total(f, u \ {x}) = 0
  BY <1>1, <1>3
<1>5. Total(f, u) = f[x] + Total(f, u \ {x})
  <2>1. IsFiniteSet(u) /\ \A y \in u : f[y] \in Int
    BY FS_Subset
  <2> QED BY <1>3, <2>1, TotalRemove
<1> QED BY <1>1, <1>3, <1>4, <1>5

LEMMA TotalScaled ==
    ASSUME NEW S, IsFiniteSet(S), NEW f, \A x \in S : f[x] \in Int, NEW s \in Int,
           NEW h, \A x \in S : h[x] = f[x] * s
    PROVE  Total(h, S) = Total(f, S) * s
<1> DEFINE Bad == {t \in SUBSET S : Total(h, t) # Total(f, t) * s}
<1> SUFFICES ASSUME Bad # {} PROVE FALSE
  OBVIOUS
<1>1. PICK u \in Bad : \A t \in Bad : ~(t \subseteq u /\ t # u)
  <2>1. Bad \subseteq SUBSET S
    OBVIOUS
  <2> HIDE DEF Bad
  <2> QED BY <2>1, SmallestSubset
<1>2. u # {}
  <2> SUFFICES ASSUME u = {} PROVE FALSE
    OBVIOUS
  <2>1. Total(h, u) = 0 /\ Total(f, u) = 0
    BY TotalEmpty
  <2> QED BY <1>1, <2>1
<1>3. PICK x : x \in u
  BY <1>2
<1>4. Total(h, u \ {x}) = Total(f, u \ {x}) * s
  BY <1>1, <1>3
<1>5. Total(h, u) = h[x] + Total(h, u \ {x}) /\ Total(f, u) = f[x] + Total(f, u \ {x})
  <2>1. IsFiniteSet(u) /\ (\A y \in u : f[y] \in Int) /\ (\A y \in u : h[y] \in Int)
    BY FS_Subset
  <2> QED BY <1>3, <2>1, TotalRemove
<1>6. Total(f, u \ {x}) \in Int /\ f[x] \in Int /\ h[x] = f[x] * s
  <2>1. IsFiniteSet(u \ {x}) /\ \A y \in u \ {x} : f[y] \in Int
    BY FS_Subset
  <2> QED BY <1>3, <2>1, TotalInt
<1>7. PICK a \in Int, b \in Int : a = f[x] /\ b = Total(f, u \ {x})
  BY <1>6
<1>8. a * s + b * s = (a + b) * s
  BY <1>7
<1>9. Total(h, u) = a * s + b * s /\ Total(f, u) = a + b
  BY <1>4, <1>5, <1>6, <1>7
<1> QED BY <1>1, <1>8, <1>9

-----------------------------------------------------------------------------
(* Both walks over a chart: what is known after every judgement.           *)

(* The skills that were triggered. *)
SkillsBefore == {n \in 1 .. place - 1 : nodes[n].skill}

AutoEvent == [time : Int, active : 0 .. SkillCount]

CountedWalk(E, A, C, S) ==
    [events : E, active : A, inactive : Nat, counts : C, starts : S, queueRisk : BOOLEAN]

PlayedWalk(E, A) == [events : E, active : A, rise : Nat, score : Int]

TimelineTypes ==
    /\ nodes \in AutoCharts /\ lasts \in SkillFrames /\ shared \in AutoSkills
    /\ place \in 1 .. Len(nodes) + 1
    /\ ideal \in [until : Int, next : Int]
    /\ envelope \in [must : Int, may : Int, end : Int]
    /\ counted \in CountedWalk(Seq(AutoEvent), 0 .. SkillCount, [1 .. SkillCount -> Nat], Seq(Int))
    /\ played \in PlayedWalk(Seq(AutoEvent), 0 .. SkillCount)
    /\ Len(counted.starts) = Cardinality(SkillsBefore)

(* Every judgement is counted once. *)
EachCounted == counted.inactive + Total(counted.counts, 1 .. SkillCount) = place - 1

(* What the counts score: a window of n judgements, and each window.       *)
WindowScore(n) == IF shared.rateup THEN Total(Rises, 1 .. n) ELSE n * Settled(shared.up)

WindowScores(counts) == [a \in 1 .. SkillCount |-> WindowScore(counts[a])]

(* The last trigger, as both timelines remember it. *)
Triggers == Len(counted.starts)

Remembered ==
    /\ Triggers = 0 => ideal.until = -1 /\ envelope.must = -1 /\ envelope.may = -1
    /\ Triggers > 0 =>
          /\ ideal.until = JudgementFrame(counted.starts[Triggers]) + lasts + 47
          /\ envelope.must = counted.starts[Triggers] + Ticks(lasts) + 184
          /\ envelope.may = counted.starts[Triggers] + Ticks(lasts) + 192

(* No skill is in effect on either timeline, or the same one is on both. *)
Silent ==
    /\ counted.events = <<>> /\ counted.active = 0
    /\ played.events = <<>> /\ played.active = 0

(* The end, on the timeline of 60 frames, of a skill that starts at t.     *)
IdealEnd(t) == Ticks(JudgementFrame(t) + 1 + lasts)

Sounding ==
    /\ Triggers > 0 /\ counted.active = Triggers /\ played.active = Triggers
    /\ counted.events = <<[time |-> IdealEnd(counted.starts[Triggers]), active |-> 0]>>
    /\ played.events = <<[time |-> counted.starts[Triggers] + Ticks(lasts) + 8, active |-> 0]>>
    /\ played.rise = counted.counts[Triggers]

(* What was settled judgement by judgement is what the counts score.       *)
ScoresAgree ==
    played.score = counted.inactive * Settled(0) + Total(WindowScores(counted.counts), 1 .. SkillCount)

WalksAgree ==
    /\ ScoresAgree /\ Remembered
    /\ \A a \in 1 .. SkillCount : a > Triggers => counted.counts[a] = 0
    /\ Silent \/ Sounding

(* The counts hold for every duration, the rest only while no risk was met:*)
(* after one the two timelines may be under different skills.              *)
TimelineHolds == TimelineTypes /\ EachCounted /\ (Safe => WalksAgree)

LEMMA Fields ==
    ASSUME TimelineTypes
    PROVE  /\ counted.events \in Seq(AutoEvent) /\ counted.active \in 0 .. SkillCount /\ counted.inactive \in Nat
           /\ counted.counts \in [1 .. SkillCount -> Nat] /\ counted.starts \in Seq(Int)
           /\ counted.queueRisk \in BOOLEAN
           /\ played.events \in Seq(AutoEvent) /\ played.active \in 0 .. SkillCount
           /\ played.rise \in Nat /\ played.score \in Int
           /\ nodes \in AutoCharts /\ lasts \in Nat /\ shared \in AutoSkills
<1>1. PICK E, A, C, S : E = Seq(AutoEvent) /\ A = 0 .. SkillCount /\ C = [1 .. SkillCount -> Nat] /\ S = Seq(Int)
  OBVIOUS
<1>2. counted \in CountedWalk(E, A, C, S) /\ played \in PlayedWalk(E, A)
  BY <1>1 DEF TimelineTypes
<1>3. /\ counted.events \in E /\ counted.active \in A /\ counted.inactive \in Nat
      /\ counted.counts \in C /\ counted.starts \in S /\ counted.queueRisk \in BOOLEAN
  BY <1>2 DEF CountedWalk
<1>4. played.events \in E /\ played.active \in A /\ played.rise \in Nat /\ played.score \in Int
  BY <1>2 DEF PlayedWalk
<1>5. nodes \in AutoCharts /\ lasts \in Nat /\ shared \in AutoSkills
  BY AutoAssumption DEF TimelineTypes
<1> QED BY <1>1, <1>3, <1>4, <1>5

LEMMA ChartOrdered ==
    ASSUME nodes \in AutoCharts
    PROVE  /\ nodes \in Seq(AutoNode) /\ Len(nodes) \in Nat
           /\ \A n \in DOMAIN nodes : nodes[n].time \in Nat
           /\ \A m, n \in DOMAIN nodes : m <= n => nodes[m].time <= nodes[n].time
<1>1. nodes \in Seq(AutoNode) /\ Ordered(nodes)
  BY AutoAssumption
<1>2. ASSUME NEW n \in DOMAIN nodes PROVE nodes[n].time \in Nat
  <2>1. nodes[n] \in AutoNode
    BY <1>1
  <2> QED BY <2>1 DEF AutoNode
<1> QED BY <1>1, <1>2 DEF Ordered

LEMMA SkillsCounted ==
    ASSUME nodes \in AutoCharts, place \in 1 .. Len(nodes) + 1
    PROVE  /\ SkillCount \in Nat /\ IsFiniteSet(SkillsBefore) /\ Cardinality(SkillsBefore) \in 0 .. SkillCount
           /\ place \in DOMAIN nodes /\ nodes[place].skill => Cardinality(SkillsBefore) + 1 \in 1 .. SkillCount
<1> DEFINE all == {n \in DOMAIN nodes : nodes[n].skill}
<1>1. DOMAIN nodes = 1 .. Len(nodes) /\ Len(nodes) \in Nat
  BY ChartOrdered
<1>2. IsFiniteSet(all)
  <2>1. IsFiniteSet(1 .. Len(nodes))
    BY <1>1, FS_Interval
  <2> QED BY <1>1, <2>1, FS_Subset
<1>3. SkillCount = Cardinality(all)
  BY DEF SkillCount
<1>4. SkillsBefore \subseteq all
  BY <1>1 DEF SkillsBefore
<1> HIDE DEF all
<1>5. IsFiniteSet(SkillsBefore) /\ Cardinality(SkillsBefore) <= Cardinality(all)
  BY <1>2, <1>4, FS_Subset
<1>6. Cardinality(SkillsBefore) \in Nat /\ Cardinality(all) \in Nat
  BY <1>2, <1>5, FS_CardinalityType
<1>7. ASSUME place \in DOMAIN nodes, nodes[place].skill
      PROVE  Cardinality(SkillsBefore) + 1 <= SkillCount
  <2>1. place \in all /\ place \notin SkillsBefore
    BY <1>7 DEF all, SkillsBefore
  <2>2. Cardinality(SkillsBefore \cup {place}) = Cardinality(SkillsBefore) + 1
    BY <1>5, <2>1, FS_AddElement
  <2>3. SkillsBefore \cup {place} \subseteq all
    BY <1>4, <2>1
  <2>4. Cardinality(SkillsBefore \cup {place}) <= Cardinality(all)
    BY <1>2, <2>3, FS_Subset
  <2> QED BY <1>3, <2>2, <2>4
<1> QED BY <1>3, <1>5, <1>6, <1>7

(* A step past a judgement. *)
LEMMA SkillsNext ==
    ASSUME nodes \in AutoCharts, place \in DOMAIN nodes, nodes' = nodes, place' = place + 1
    PROVE  /\ place' \in 1 .. Len(nodes) + 1 /\ SkillCount' = SkillCount
           /\ Cardinality(SkillsBefore)' = Cardinality(SkillsBefore) + (IF nodes[place].skill THEN 1 ELSE 0)
<1>1. DOMAIN nodes = 1 .. Len(nodes) /\ Len(nodes) \in Nat /\ place \in 1 .. Len(nodes)
  BY ChartOrdered
<1>2. SkillCount' = SkillCount
  BY DEF SkillCount
<1>3. IsFiniteSet(SkillsBefore)
  BY <1>1, SkillsCounted
<1>4. CASE nodes[place].skill
  <2>1. SkillsBefore' = SkillsBefore \cup {place} /\ place \notin SkillsBefore
    BY <1>1, <1>4 DEF SkillsBefore
  <2>2. Cardinality(SkillsBefore \cup {place}) = Cardinality(SkillsBefore) + 1
    BY <1>3, <2>1, FS_AddElement
  <2>3. Cardinality(SkillsBefore') = Cardinality(SkillsBefore) + 1
    BY <2>1, <2>2
  <2> QED BY <1>1, <1>2, <1>4, <2>3
<1>5. CASE ~nodes[place].skill
  <2>1. SkillsBefore' = SkillsBefore
    BY <1>1, <1>5 DEF SkillsBefore
  <2>2. Cardinality(SkillsBefore) \in Nat
    BY <1>3, FS_CardinalityType
  <2> QED BY <1>1, <1>2, <1>5, <2>1, <2>2
<1> QED BY <1>4, <1>5

(* What is due. *)
LEMMA DueType ==
    ASSUME NEW walk, walk.events \in Seq(AutoEvent), walk.active \in 0 .. SkillCount
    PROVE  /\ AutoDue(walk.events) \in 0 .. Len(walk.events)
           /\ InEffect(walk) \in 0 .. SkillCount
           /\ Remaining(walk) \in Seq(AutoEvent)
<1> DEFINE due == {k \in DOMAIN walk.events : \A j \in 1 .. k : walk.events[j].time < nodes[place].time}
<1>1. DOMAIN walk.events = 1 .. Len(walk.events) /\ Len(walk.events) \in Nat
  OBVIOUS
<1>2. IsFiniteSet(due) /\ Cardinality(due) \in 0 .. Len(walk.events)
  <2>1. IsFiniteSet(1 .. Len(walk.events)) /\ Cardinality(1 .. Len(walk.events)) = Len(walk.events)
    BY <1>1, FS_Interval
  <2>2. due \subseteq 1 .. Len(walk.events)
    BY <1>1
  <2>3. IsFiniteSet(due) /\ Cardinality(due) <= Len(walk.events)
    BY <2>1, <2>2, FS_Subset
  <2> QED BY <1>1, <2>3, FS_CardinalityType
<1>3. AutoDue(walk.events) = Cardinality(due)
  BY DEF AutoDue
<1> HIDE DEF due
<1>4. InEffect(walk) \in 0 .. SkillCount
  <2>1. ASSUME AutoDue(walk.events) # 0 PROVE walk.events[AutoDue(walk.events)] \in AutoEvent
    BY <1>1, <1>2, <1>3, <2>1
  <2> QED BY <2>1 DEF InEffect, AutoEvent
<1>5. Remaining(walk) \in Seq(AutoEvent)
  BY <1>1, <1>2, <1>3 DEF Remaining
<1> QED BY <1>2, <1>3, <1>4, <1>5

LEMMA NoneDue ==
    ASSUME NEW walk, walk.events = <<>>
    PROVE  InEffect(walk) = walk.active /\ Remaining(walk) = <<>>
<1>1. {k \in DOMAIN walk.events : \A j \in 1 .. k : walk.events[j].time < nodes[place].time} = {}
  OBVIOUS
<1>2. AutoDue(walk.events) = 0
  BY <1>1, FS_EmptySet DEF AutoDue
<1> QED BY <1>2 DEF InEffect, Remaining

LEMMA OneDue ==
    ASSUME NEW walk, NEW end \in Int, nodes[place].time \in Int,
           walk.events = <<[time |-> end, active |-> 0]>>
    PROVE  /\ end < nodes[place].time => InEffect(walk) = 0 /\ Remaining(walk) = <<>>
           /\ end >= nodes[place].time => InEffect(walk) = walk.active /\ Remaining(walk) = walk.events
<1> DEFINE due == {k \in DOMAIN walk.events : \A j \in 1 .. k : walk.events[j].time < nodes[place].time}
<1>1. DOMAIN walk.events = {1} /\ Len(walk.events) = 1 /\ walk.events[1].time = end /\ walk.events[1].active = 0
  OBVIOUS
<1>2. AutoDue(walk.events) = Cardinality(due)
  BY DEF AutoDue
<1>3. CASE end < nodes[place].time
  <2>1. due = {1}
    BY <1>1, <1>3
  <2>2. AutoDue(walk.events) = 1
    BY <1>2, <2>1, FS_Singleton
  <2>3. SubSeq(walk.events, 2, 1) = <<>>
    OBVIOUS
  <2>4. InEffect(walk) = 0 /\ Remaining(walk) = <<>>
    BY <1>1, <2>2, <2>3 DEF InEffect, Remaining
  <2> QED BY <1>3, <2>4
<1>4. CASE end >= nodes[place].time
  <2>1. due = {}
    BY <1>1, <1>4
  <2>2. AutoDue(walk.events) = 0
    BY <1>2, <2>1, FS_EmptySet
  <2>3. SubSeq(walk.events, 1, 1) = walk.events
    <3>1. PICK e : e = [time |-> end, active |-> 0]
      OBVIOUS
    <3>2. <<e>> \in Seq({e}) /\ Len(<<e>>) = 1
      OBVIOUS
    <3>3. SubSeq(<<e>>, 1, Len(<<e>>)) = <<e>>
      BY <3>2, SubSeqFull
    <3> QED BY <3>1, <3>2, <3>3
  <2>4. InEffect(walk) = walk.active /\ Remaining(walk) = walk.events
    BY <1>1, <2>2, <2>3 DEF InEffect, Remaining
  <2> QED BY <1>4, <2>4
<1> QED BY <1>3, <1>4

(* Outside the interval of the end. *)
LEMMA Outside ==
    ASSUME nodes \in AutoCharts, lasts \in Nat, NEW t \in Int, ~TailRiskAt(t), NEW n \in DOMAIN nodes
    PROVE  nodes[n].time < t + Ticks(lasts) + 2 \/ nodes[n].time > t + Ticks(lasts) + 8
<1> SUFFICES ASSUME nodes[n].time >= t + Ticks(lasts) + 2 PROVE nodes[n].time > t + Ticks(lasts) + 8
  BY ChartOrdered DEF Ticks
<1> DEFINE later == {k \in DOMAIN nodes : nodes[k].time >= t + EndInterval.lower}
<1>1. EndInterval.lower = Ticks(lasts) + 2 /\ EndInterval.upper = Ticks(lasts) + 8 /\ Ticks(lasts) \in Nat
  BY DEF EndInterval, Ticks
<1>2. DOMAIN nodes = 1 .. Len(nodes) /\ Len(nodes) \in Nat /\ \A k \in DOMAIN nodes : nodes[k].time \in Nat
  BY ChartOrdered
<1>3. n \in later /\ later \subseteq 1 .. Len(nodes)
  BY <1>1, <1>2
<1>4. IsFiniteSet(later)
  <2>1. IsFiniteSet(1 .. Len(nodes))
    BY <1>2, FS_Interval
  <2> QED BY <1>3, <2>1, FS_Subset
<1>5. ~(nodes[Min(later)].time <= t + EndInterval.upper)
  BY <1>3 DEF TailRiskAt
<1> HIDE DEF later
<1>6. Min(later) \in later /\ Min(later) <= n
  BY <1>2, <1>3, <1>4, MinOf
<1>7. nodes[Min(later)].time <= nodes[n].time
  BY <1>2, <1>3, <1>6, ChartOrdered
<1>8. nodes[Min(later)].time \in Nat /\ nodes[n].time \in Nat
  BY <1>2, <1>3, <1>6
<1> QED BY <1>1, <1>5, <1>7, <1>8

LEMMA SettledInt == ASSUME NEW added \in Int PROVE Settled(added) \in Int
<1>1. AutoFirst \in Int /\ 200 + added \in Int
  BY AutoAssumption
<1>2. PICK v \in Int : v = AutoFirst * (200 + added)
  BY <1>1
<1> QED BY <1>2 DEF Settled

LEMMA AddedInt ==
    ASSUME shared \in AutoSkills, NEW k \in Int
    PROVE  Added(k) \in Int /\ (~shared.rateup => Added(k) = shared.up) /\ shared.up \in Int
<1>1. shared.up \in Nat /\ shared.rateup \in BOOLEAN
  BY AutoAssumption
<1>2. Min({k, 300 - shared.up}) \in Int
  <2>1. PICK S : S = {k, 300 - shared.up}
    OBVIOUS
  <2>2. IsFiniteSet(S) /\ S # {} /\ S \subseteq Int
    <3>1. IsFiniteSet({k}) /\ IsFiniteSet({300 - shared.up})
      BY FS_Singleton
    <3>2. IsFiniteSet({k} \cup {300 - shared.up})
      BY <3>1, FS_Union
    <3>3. S = {k} \cup {300 - shared.up}
      BY <2>1
    <3> QED BY <1>1, <3>2, <3>3
  <2>3. Min(S) \in S
    BY <2>2, MinOf
  <2> QED BY <2>1, <2>2, <2>3
<1> QED BY <1>1, <1>2 DEF Added

LEMMA WindowScoreGrows ==
    ASSUME shared \in AutoSkills, NEW n \in Nat
    PROVE  /\ WindowScore(n) \in Int
           /\ WindowScore(n + 1) = WindowScore(n) + Settled(Added(n + 1))
<1>1. \A k \in Nat : Rises[k] \in Int
  <2>1. ASSUME NEW k \in Nat PROVE Rises[k] \in Int
    <3>1. PICK v \in Int : v = Added(k)
      BY AddedInt
    <3>2. Settled(v) \in Int
      BY SettledInt
    <3> QED BY <3>1, <3>2 DEF Rises
  <2> QED BY <2>1
<1>2. CASE shared.rateup
  <2>1. IsFiniteSet(1 .. n) /\ IsFiniteSet(1 .. n + 1)
    BY FS_Interval
  <2>2. Total(Rises, 1 .. n) \in Int
    BY <1>1, <2>1, TotalInt
  <2>3. n + 1 \in 1 .. n + 1 /\ (1 .. n + 1) \ {n + 1} = 1 .. n
    OBVIOUS
  <2>4. Total(Rises, 1 .. n + 1) = Rises[n + 1] + Total(Rises, 1 .. n)
    <3>1. PICK S : S = 1 .. n + 1
      OBVIOUS
    <3>2. IsFiniteSet(S) /\ n + 1 \in S /\ \A y \in S : Rises[y] \in Int
      BY <1>1, <2>1, <3>1
    <3>3. Total(Rises, S) = Rises[n + 1] + Total(Rises, S \ {n + 1})
      BY <3>2, TotalRemove
    <3> QED BY <2>3, <3>1, <3>3
  <2>5. Rises[n + 1] = Settled(Added(n + 1)) /\ Rises[n + 1] \in Int
    <3>1. n + 1 \in Nat
      OBVIOUS
    <3> QED BY <1>1, <3>1 DEF Rises
  <2>6. WindowScore(n) = Total(Rises, 1 .. n) /\ WindowScore(n + 1) = Total(Rises, 1 .. n + 1)
    BY <1>2 DEF WindowScore
  <2> QED BY <2>2, <2>4, <2>5, <2>6
<1>3. CASE ~shared.rateup
  <2>1. Added(n + 1) = shared.up /\ shared.up \in Int
    BY <1>3, AddedInt
  <2>2. PICK s \in Int : s = Settled(shared.up)
    BY <2>1, SettledInt
  <2>3. WindowScore(n) = n * s /\ WindowScore(n + 1) = (n + 1) * s
    BY <1>3, <2>2 DEF WindowScore
  <2>4. (n + 1) * s = n * s + s /\ n * s \in Int
    OBVIOUS
  <2> QED BY <2>1, <2>2, <2>3, <2>4
<1> QED BY <1>2, <1>3

LEMMA WindowScoreZero ==
    ASSUME shared \in AutoSkills
    PROVE  WindowScore(0) = 0
<1>1. Total(Rises, 1 .. 0) = 0
  <2>1. 1 .. 0 = {}
    OBVIOUS
  <2> QED BY <2>1, TotalEmpty
<1>2. PICK s \in Int : s = Settled(shared.up)
  BY AddedInt, SettledInt
<1>3. 0 * s = 0
  OBVIOUS
<1> QED BY <1>1, <1>2, <1>3 DEF WindowScore

(* The counts after a judgement under skill a, none for 0. *)
CountedFor(a) ==
    /\ CountNow.inactive = counted.inactive + (IF a = 0 THEN 1 ELSE 0)
    /\ CountNow.counts = IF a = 0 THEN counted.counts ELSE [counted.counts EXCEPT ![a] = counted.counts[a] + 1]
    /\ CountNow.starts = counted.starts /\ CountNow.queueRisk = counted.queueRisk

LEMMA CountedNow ==
    ASSUME TimelineTypes, NEW a, a = InEffect(counted)
    PROVE  /\ a \in 0 .. SkillCount
           /\ CountNow \in CountedWalk(Seq(AutoEvent), 0 .. SkillCount, [1 .. SkillCount -> Nat], Seq(Int))
           /\ CountedFor(a)
<1>1. a \in 0 .. SkillCount /\ SkillCount \in Nat
  <2>1. a \in 0 .. SkillCount
    BY Fields, DueType
  <2>2. place \in 1 .. Len(nodes) + 1
    BY DEF TimelineTypes
  <2> QED BY <2>1, <2>2, Fields, SkillsCounted
<1>2. PICK E, A, C, S : E = Seq(AutoEvent) /\ A = 0 .. SkillCount /\ C = [1 .. SkillCount -> Nat] /\ S = Seq(Int)
  OBVIOUS
<1>3. counted \in CountedWalk(E, A, C, S)
  BY <1>2 DEF TimelineTypes
<1>4. CASE a = 0
  <2>1. CountNow = [counted EXCEPT !.inactive = counted.inactive + 1]
    BY <1>4 DEF CountNow
  <2>2. CountNow \in CountedWalk(E, A, C, S) /\ CountedFor(a)
    BY <1>3, <1>4, <2>1 DEF CountedWalk, CountedFor
  <2> QED BY <1>1, <1>2, <2>2
<1>5. CASE a # 0
  <2>1. PICK N, f : N \in Nat /\ f \in [1 .. N -> Nat] /\ N = SkillCount /\ f = counted.counts
    BY <1>1, Fields
  <2>2. a \in 1 .. N
    BY <1>1, <1>5, <2>1
  <2>3. [f EXCEPT ![a] = f[a] + 1] \in [1 .. N -> Nat]
    BY <2>1, <2>2
  <2>4. PICK h \in C : h = [f EXCEPT ![a] = f[a] + 1]
    BY <1>2, <2>1, <2>3
  <2>5. CountNow = [counted EXCEPT !.counts = h]
    BY <1>5, <2>1, <2>4 DEF CountNow
  <2>6. CountNow \in CountedWalk(E, A, C, S)
    BY <1>3, <2>5 DEF CountedWalk
  <2>7. CountNow.inactive = counted.inactive /\ CountNow.counts = h
        /\ CountNow.starts = counted.starts /\ CountNow.queueRisk = counted.queueRisk
    BY <1>3, <2>5 DEF CountedWalk
  <2>8. CountedFor(a)
    BY <1>5, <2>1, <2>4, <2>7, Fields DEF CountedFor
  <2> QED BY <1>1, <1>2, <2>6, <2>8
<1> QED BY <1>4, <1>5

(* Every judgement is counted once. *)
LEMMA CountsAdd ==
    ASSUME TimelineTypes, NEW a \in 0 .. SkillCount, CountedFor(a)
    PROVE  CountNow.inactive + Total(CountNow.counts, 1 .. SkillCount)
             = counted.inactive + Total(counted.counts, 1 .. SkillCount) + 1
<1> DEFINE S == 1 .. SkillCount
<1>1. SkillCount \in Nat /\ IsFiniteSet(S)
  <2>1. SkillCount \in Nat
    BY Fields, SkillsCounted DEF TimelineTypes
  <2> QED BY <2>1, FS_Interval
<1>2. counted.counts \in [S -> Int] /\ counted.inactive \in Int /\ Total(counted.counts, S) \in Int
  <2>1. counted.counts \in [S -> Nat] /\ counted.inactive \in Nat
    BY Fields
  <2> HIDE DEF S
  <2>2. counted.counts \in [S -> Int] /\ \A x \in S : counted.counts[x] \in Int
    BY <2>1
  <2> QED BY <1>1, <2>1, <2>2, TotalInt
<1>3. CASE a = 0
  BY <1>2, <1>3 DEF CountedFor
<1>4. CASE a # 0
  <2>1. a \in S
    BY <1>1, <1>4
  <2>2. PICK f \in [S -> Int], d \in Int : f = counted.counts /\ d = 1
    BY <1>2
  <2>3. PICK h : h = [f EXCEPT ![a] = @ + d]
    OBVIOUS
  <2>4. CountNow.counts = h /\ CountNow.inactive = counted.inactive
    <3>1. h = [f EXCEPT ![a] = f[a] + 1]
      BY <2>2, <2>3
    <3> QED BY <1>2, <1>4, <2>2, <3>1 DEF CountedFor
  <2> HIDE DEF S
  <2>5. Total(h, S) = Total(f, S) + d
    BY <1>1, <2>1, <2>3, TotalBump
  <2> QED BY <1>2, <2>2, <2>4, <2>5 DEF S
<1> QED BY <1>3, <1>4

(* The score of the counts after a judgement under skill a. *)
LEMMA ScoresAdd ==
    ASSUME TimelineTypes, NEW a \in 0 .. SkillCount, CountedFor(a)
    PROVE  CountNow.inactive * Settled(0) + Total(WindowScores(CountNow.counts), 1 .. SkillCount)
             = counted.inactive * Settled(0) + Total(WindowScores(counted.counts), 1 .. SkillCount)
               + Settled(IF a = 0 THEN 0 ELSE Added(counted.counts[a] + 1))
<1> DEFINE S == 1 .. SkillCount
<1>1. SkillCount \in Nat /\ IsFiniteSet(S) /\ shared \in AutoSkills
  <2>1. SkillCount \in Nat /\ shared \in AutoSkills
    BY Fields, SkillsCounted DEF TimelineTypes
  <2> QED BY <2>1, FS_Interval
<1>2. counted.counts \in [S -> Nat] /\ counted.inactive \in Nat
  BY Fields
<1>3. WindowScores(counted.counts) \in [S -> Int]
  BY <1>1, <1>2, WindowScoreGrows DEF WindowScores
<1>4. Total(WindowScores(counted.counts), S) \in Int
  <2>1. \A x \in S : WindowScores(counted.counts)[x] \in Int
    BY <1>3
  <2> HIDE DEF S
  <2> QED BY <1>1, <2>1, TotalInt
<1>5. PICK zero \in Int, none \in Int : none = 0 /\ zero = Settled(none)
  BY SettledInt
<1>6. CASE a = 0
  <2>1. CountNow.inactive = counted.inactive + 1 /\ CountNow.counts = counted.counts
    BY <1>6 DEF CountedFor
  <2>2. (counted.inactive + 1) * zero = counted.inactive * zero + zero /\ counted.inactive * zero \in Int
    BY <1>2
  <2> QED BY <1>4, <1>5, <1>6, <2>1, <2>2
<1>7. CASE a # 0
  <2>1. a \in S
    BY <1>1, <1>7
  <2>2. PICK n \in Nat : n = counted.counts[a]
    BY <1>2, <2>1
  <2>3. PICK d \in Int : d = Settled(Added(n + 1)) /\ WindowScore(n + 1) = WindowScore(n) + d
    <3>1. PICK v \in Int : v = Added(n + 1)
      BY <1>1, AddedInt
    <3>2. Settled(v) \in Int
      BY SettledInt
    <3>3. WindowScore(n + 1) = WindowScore(n) + Settled(Added(n + 1))
      BY <1>1, WindowScoreGrows
    <3> QED BY <3>1, <3>2, <3>3
  <2>4. CountNow.inactive = counted.inactive /\ CountNow.counts = [counted.counts EXCEPT ![a] = counted.counts[a] + 1]
    BY <1>2, <1>7 DEF CountedFor
  <2>5. PICK f \in [S -> Int] : f = WindowScores(counted.counts)
    BY <1>3
  <2>6. WindowScores(CountNow.counts) = [f EXCEPT ![a] = @ + d]
    BY <1>2, <2>1, <2>2, <2>3, <2>4, <2>5 DEF WindowScores
  <2>7. PICK h : h = [f EXCEPT ![a] = @ + d]
    OBVIOUS
  <2>8. Total(h, S) = Total(f, S) + d
    <3> HIDE DEF S
    <3> QED BY <1>1, <2>1, <2>7, TotalBump
  <2>9. counted.inactive * zero \in Int
    BY <1>2
  <2>10. Settled(IF a = 0 THEN 0 ELSE Added(counted.counts[a] + 1)) = d
    BY <1>7, <2>2, <2>3
  <2> HIDE DEF S
  <2>11. /\ CountNow.inactive * Settled(0) = counted.inactive * zero
         /\ counted.inactive * Settled(0) = counted.inactive * zero
    BY <1>5, <2>4
  <2>12. Total(WindowScores(CountNow.counts), S) = Total(WindowScores(counted.counts), S) + d
    BY <2>5, <2>6, <2>7, <2>8
  <2> QED BY <1>4, <2>9, <2>10, <2>11, <2>12 DEF S
<1> QED BY <1>6, <1>7

LEMMA ScoredNow ==
    ASSUME TimelineTypes, NEW b, b = InEffect(played)
    PROVE  /\ b \in 0 .. SkillCount /\ RiseOf \in Nat
           /\ ScoreNow \in PlayedWalk(Seq(AutoEvent), 0 .. SkillCount)
           /\ ScoreNow.score = played.score + Settled(IF b = 0 THEN 0 ELSE Added(RiseOf))
           /\ ScoreNow.rise = RiseOf
<1>1. b \in 0 .. SkillCount
  BY Fields, DueType
<1>2. PICK E, A : E = Seq(AutoEvent) /\ A = 0 .. SkillCount
  OBVIOUS
<1>3. played \in PlayedWalk(E, A)
  BY <1>2 DEF TimelineTypes
<1>4. RiseOf \in Nat
  BY Fields DEF RiseOf
<1>5. PICK r \in Nat : r = RiseOf
  BY <1>4
<1>6. PICK v \in Int : v = Settled(IF b = 0 THEN 0 ELSE Added(r))
  <2>1. PICK w \in Int : w = (IF b = 0 THEN 0 ELSE Added(r))
    BY AddedInt, Fields
  <2> QED BY <2>1, SettledInt
<1>7. ScoreNow = [played EXCEPT !.score = played.score + v, !.rise = r]
  BY <1>5, <1>6 DEF ScoreNow
<1>8. /\ ScoreNow \in PlayedWalk(E, A) /\ ScoreNow.score = played.score + v /\ ScoreNow.rise = r
  <2>1. PICK u \in Int : u = played.score + v
    BY Fields
  <2>2. ScoreNow = [played EXCEPT !.score = u, !.rise = r]
    BY <1>7, <2>1
  <2>3. ScoreNow \in PlayedWalk(E, A)
    BY <1>3, <2>2 DEF PlayedWalk
  <2>4. ScoreNow.score = u /\ ScoreNow.rise = r
    BY <1>3, <2>2 DEF PlayedWalk
  <2> QED BY <2>1, <2>3, <2>4
<1> QED BY <1>1, <1>2, <1>5, <1>6, <1>8

LEMMA NoteTypes ==
    ASSUME TimelineTypes, PlayNote
    PROVE  TimelineTypes'
<1>1. place \in DOMAIN nodes /\ ~nodes[place].skill /\ place' = place + 1
      /\ UNCHANGED <<nodes, lasts, shared, ideal, envelope>>
  BY DEF PlayNote
<1>2. /\ place' \in 1 .. Len(nodes) + 1 /\ SkillCount' = SkillCount
      /\ Cardinality(SkillsBefore)' = Cardinality(SkillsBefore)
  <2>1. Cardinality(SkillsBefore) \in Int
    BY Fields, SkillsCounted DEF TimelineTypes
  <2> QED BY <1>1, <2>1, Fields, SkillsNext
<1>3. PICK E, A, C, S : E = Seq(AutoEvent) /\ A = 0 .. SkillCount /\ C = [1 .. SkillCount -> Nat] /\ S = Seq(Int)
  OBVIOUS
<1>4. E = Seq(AutoEvent)' /\ A = 0 .. SkillCount' /\ C = [1 .. SkillCount' -> Nat]
  BY <1>2, <1>3 DEF AutoEvent
<1>5. PICK e, a : e = Remaining(counted) /\ a = InEffect(counted) /\ e \in E /\ a \in A
  BY <1>3, Fields, DueType
<1>6. PICK f, b : f = Remaining(played) /\ b = InEffect(played) /\ f \in E /\ b \in A
  BY <1>3, Fields, DueType
<1>7. counted' \in CountedWalk(E, A, C, S) /\ counted'.starts = counted.starts
  <2>1. CountNow \in CountedWalk(E, A, C, S) /\ CountNow.starts = counted.starts
    BY <1>3, CountedNow DEF CountedFor
  <2>2. counted' = [CountNow EXCEPT !.events = e, !.active = a]
    BY <1>5 DEF PlayNote
  <2> QED BY <1>5, <2>1, <2>2 DEF CountedWalk
<1>8. played' \in PlayedWalk(E, A)
  <2>1. ScoreNow \in PlayedWalk(E, A)
    BY <1>3, ScoredNow
  <2>2. played' = [ScoreNow EXCEPT !.events = f, !.active = b]
    BY <1>6 DEF PlayNote
  <2> QED BY <1>6, <2>1, <2>2 DEF PlayedWalk
<1>9. Len(counted.starts)' = Cardinality(SkillsBefore)'
  BY <1>2, <1>7 DEF TimelineTypes
<1> QED BY <1>1, <1>2, <1>3, <1>4, <1>7, <1>8, <1>9 DEF TimelineTypes

LEMMA WindowsInt ==
    ASSUME TimelineTypes, NEW t \in Int
    PROVE  /\ IdealWindow(t).start \in Int /\ IdealWindow(t).end \in Int
           /\ EnvelopeWindow(t).start \in Int /\ EnvelopeWindow(t).end \in Int
           /\ EnvelopeWindow(t).risk \in BOOLEAN
           /\ IdealAfter(IdealWindow(t)) \in [until : Int, next : Int]
           /\ EnvelopeAfter(EnvelopeWindow(t)) \in [must : Int, may : Int, end : Int]
<1>1. lasts \in Nat /\ ideal.until \in Int /\ ideal.next \in Int
      /\ envelope.must \in Int /\ envelope.may \in Int /\ envelope.end \in Int
  BY Fields DEF TimelineTypes
<1>2. PICK f \in Int : f = JudgementFrame(t)
  BY DEF JudgementFrame
<1>3. PICK s \in Int, e \in Int : s = IdealWindow(t).start /\ e = IdealWindow(t).end
  BY <1>1, <1>2 DEF IdealWindow, Ticks
<1>4. PICK u \in Int, v \in Int : u = EnvelopeWindow(t).start /\ v = EnvelopeWindow(t).end
  BY <1>1 DEF EnvelopeWindow, EndInterval, Ticks, Max2
<1>5. EnvelopeWindow(t).risk \in BOOLEAN
  BY DEF EnvelopeWindow
<1>6. IdealAfter(IdealWindow(t)) \in [until : Int, next : Int]
  BY <1>3 DEF IdealAfter
<1>7. EnvelopeAfter(EnvelopeWindow(t)) \in [must : Int, may : Int, end : Int]
  BY <1>1, <1>4 DEF EnvelopeAfter, QueueGap, Ticks
<1> QED BY <1>3, <1>4, <1>5, <1>6, <1>7

LEMMA TriggeredType ==
    ASSUME NEW walk, walk.events \in Seq(AutoEvent), walk.active \in 0 .. SkillCount,
           NEW w, w.start \in Int, w.end \in Int, SkillCount \in Nat, NEW k \in 0 .. SkillCount
    PROVE  /\ Triggered(walk, w, k).events \in Seq(AutoEvent)
           /\ Triggered(walk, w, k).active \in 0 .. SkillCount
<1>1. Remaining(walk) \in Seq(AutoEvent) /\ InEffect(walk) \in 0 .. SkillCount
  BY DueType
<1>2. [time |-> w.start, active |-> k] \in AutoEvent /\ [time |-> w.end, active |-> 0] \in AutoEvent
  BY DEF AutoEvent
<1>3. PICK r, s, e : r = Remaining(walk) /\ s = [time |-> w.start, active |-> k] /\ e = [time |-> w.end, active |-> 0]
  OBVIOUS
<1>4. PICK D : D = AutoEvent
  OBVIOUS
<1>5. r \in Seq(D) /\ s \in D /\ e \in D
  BY <1>1, <1>2, <1>3, <1>4
<1>6. \A delayed : r \o (IF delayed THEN <<s>> ELSE <<>>) \o <<e>> \in Seq(D)
  BY <1>5
<1>7. Triggered(walk, w, k).events = r \o (IF w.start > nodes[place].time THEN <<s>> ELSE <<>>) \o <<e>>
  BY <1>3 DEF Triggered
<1>8. Triggered(walk, w, k).active \in 0 .. SkillCount
  BY <1>1 DEF Triggered
<1> QED BY <1>4, <1>6, <1>7, <1>8

LEMMA SkillTypes ==
    ASSUME TimelineTypes, PlaySkill
    PROVE  TimelineTypes' /\ Number \in 1 .. SkillCount
<1>1. place \in DOMAIN nodes /\ nodes[place].skill /\ place' = place + 1
      /\ UNCHANGED <<nodes, lasts, shared>>
  BY DEF PlaySkill
<1>2. /\ place' \in 1 .. Len(nodes) + 1 /\ SkillCount' = SkillCount /\ SkillCount \in Nat
      /\ Cardinality(SkillsBefore)' = Cardinality(SkillsBefore) + 1
      /\ Cardinality(SkillsBefore) + 1 \in 1 .. SkillCount
  <2>1. SkillCount \in Nat /\ Cardinality(SkillsBefore) + 1 \in 1 .. SkillCount
    BY <1>1, Fields, SkillsCounted DEF TimelineTypes
  <2> QED BY <1>1, <2>1, Fields, SkillsNext
<1>3. PICK E, A, C, S : E = Seq(AutoEvent) /\ A = 0 .. SkillCount /\ C = [1 .. SkillCount -> Nat] /\ S = Seq(Int)
  OBVIOUS
<1>4. E = Seq(AutoEvent)' /\ A = 0 .. SkillCount' /\ C = [1 .. SkillCount' -> Nat]
  BY <1>2, <1>3 DEF AutoEvent
<1>5. Number \in 1 .. SkillCount
  BY <1>2 DEF Number, TimelineTypes
<1>6. PICK t, i, e : t = nodes[place].time /\ i = IdealWindow(t) /\ e = EnvelopeWindow(t)
  OBVIOUS
<1>7. t \in Int
  BY <1>1, <1>6, Fields, ChartOrdered
<1>8. /\ i.start \in Int /\ i.end \in Int /\ e.start \in Int /\ e.end \in Int /\ e.risk \in BOOLEAN
      /\ IdealAfter(i) \in [until : Int, next : Int]
      /\ EnvelopeAfter(e) \in [must : Int, may : Int, end : Int]
  BY <1>6, <1>7, WindowsInt
<1>9. PICK c, p : c = Triggered(counted, i, Number) /\ p = Triggered(played, e, Number)
  OBVIOUS
<1>5a. PICK k \in 0 .. SkillCount : k = Number
  BY <1>2, <1>5
<1>10. c.events \in E /\ c.active \in A
  <2>1. counted.events \in Seq(AutoEvent) /\ counted.active \in 0 .. SkillCount
    BY Fields
  <2>2. Triggered(counted, i, k).events \in Seq(AutoEvent) /\ Triggered(counted, i, k).active \in 0 .. SkillCount
    BY ONLY <1>2, <1>8, <2>1, k \in 0 .. SkillCount, TriggeredType
  <2> QED BY <1>3, <1>9, <1>5a, <2>2
<1>11. p.events \in E /\ p.active \in A
  <2>1. played.events \in Seq(AutoEvent) /\ played.active \in 0 .. SkillCount
    BY Fields
  <2>2. Triggered(played, e, k).events \in Seq(AutoEvent) /\ Triggered(played, e, k).active \in 0 .. SkillCount
    BY ONLY <1>2, <1>8, <2>1, k \in 0 .. SkillCount, TriggeredType
  <2> QED BY <1>3, <1>9, <1>5a, <2>2
<1>12. counted' \in CountedWalk(E, A, C, S) /\ counted'.starts = Append(counted.starts, e.start)
  <2>1. CountNow \in CountedWalk(E, A, C, S) /\ CountNow.starts = counted.starts /\ CountNow.queueRisk \in BOOLEAN
    BY <1>3, CountedNow, Fields DEF CountedFor
  <2>2. counted' = [CountNow EXCEPT !.events = c.events, !.active = c.active,
                                    !.starts = Append(CountNow.starts, e.start),
                                    !.queueRisk = CountNow.queueRisk \/ e.risk]
    BY <1>6, <1>9 DEF PlaySkill
  <2>3. Append(CountNow.starts, e.start) \in S
    BY <1>3, <1>8, <2>1, Fields
  <2> QED BY <1>8, <1>10, <2>1, <2>2, <2>3 DEF CountedWalk
<1>13. played' \in PlayedWalk(E, A)
  <2>1. ScoreNow \in PlayedWalk(E, A)
    BY <1>3, ScoredNow
  <2>2. PICK r \in Nat : r = IF p.active = Number THEN 0 ELSE ScoreNow.rise
    BY <2>1 DEF PlayedWalk
  <2>3. played' = [ScoreNow EXCEPT !.events = p.events, !.active = p.active, !.rise = r]
    BY <1>6, <1>9, <2>2 DEF PlaySkill
  <2> QED BY <1>11, <2>1, <2>2, <2>3 DEF PlayedWalk
<1>14. ideal' = IdealAfter(i) /\ envelope' = EnvelopeAfter(e)
  BY <1>6 DEF PlaySkill
<1>15. Len(counted.starts)' = Cardinality(SkillsBefore)'
  <2>1. counted.starts \in Seq(Int) /\ Len(counted.starts) = Cardinality(SkillsBefore)
    BY Fields DEF TimelineTypes
  <2>2. PICK s, v : s = counted.starts /\ v = e.start
    OBVIOUS
  <2>3. Len(Append(s, v)) = Len(s) + 1
    BY <2>1, <2>2
  <2>4. Len(counted'.starts) = Len(counted.starts) + 1
    BY <1>12, <2>2, <2>3
  <2> QED BY <1>2, <2>1, <2>4
<1>16. TimelineTypes'
  BY <1>1, <1>2, <1>3, <1>4, <1>8, <1>12, <1>13, <1>14, <1>15 DEF TimelineTypes
<1> QED BY <1>5, <1>16

(* What a step does to the counts and the score. *)
LEMMA StepCounts ==
    ASSUME TimelineTypes, AutoNext
    PROVE  /\ place \in DOMAIN nodes /\ place' = place + 1 /\ SkillCount' = SkillCount /\ SkillCount \in Nat
           /\ nodes' = nodes /\ lasts' = lasts /\ shared' = shared
           /\ counted'.inactive = CountNow.inactive /\ counted'.counts = CountNow.counts
           /\ played'.score = ScoreNow.score
<1>1. /\ place \in DOMAIN nodes /\ place' = place + 1
      /\ nodes' = nodes /\ lasts' = lasts /\ shared' = shared
  BY DEF AutoNext, PlayNote, PlaySkill
<1>2. SkillCount' = SkillCount /\ SkillCount \in Nat
  BY <1>1, Fields, SkillsCounted, SkillsNext DEF TimelineTypes
<1>3. PICK E, A, C, S : E = Seq(AutoEvent) /\ A = 0 .. SkillCount /\ C = [1 .. SkillCount -> Nat] /\ S = Seq(Int)
  OBVIOUS
<1>4. CountNow \in CountedWalk(E, A, C, S) /\ ScoreNow \in PlayedWalk(E, A)
  BY <1>3, CountedNow, ScoredNow
<1>5. CASE PlayNote
  <2>1. PICK e, a, f, b : /\ counted' = [CountNow EXCEPT !.events = e, !.active = a]
                          /\ played' = [ScoreNow EXCEPT !.events = f, !.active = b]
    BY <1>5 DEF PlayNote
  <2>2. counted'.inactive = CountNow.inactive /\ counted'.counts = CountNow.counts
    BY <1>4, <2>1 DEF CountedWalk
  <2>3. played'.score = ScoreNow.score
    BY <1>4, <2>1 DEF PlayedWalk
  <2> QED BY <1>1, <1>2, <2>2, <2>3
<1>6. CASE PlaySkill
  <2>1. PICK i, j : i = IdealWindow(nodes[place].time) /\ j = EnvelopeWindow(nodes[place].time)
    OBVIOUS
  <2>2. PICK c, p : c = Triggered(counted, i, Number) /\ p = Triggered(played, j, Number)
    OBVIOUS
  <2>3. counted' = [CountNow EXCEPT !.events = c.events, !.active = c.active,
                                    !.starts = Append(CountNow.starts, j.start),
                                    !.queueRisk = CountNow.queueRisk \/ j.risk]
    BY <1>6, <2>1, <2>2 DEF PlaySkill
  <2>4. PICK r : played' = [ScoreNow EXCEPT !.events = p.events, !.active = p.active, !.rise = r]
    <3>1. PICK r : r = IF p.active = Number THEN 0 ELSE ScoreNow.rise
      OBVIOUS
    <3>2. played' = [ScoreNow EXCEPT !.events = p.events, !.active = p.active, !.rise = r]
      BY <1>6, <2>1, <2>2, <3>1 DEF PlaySkill
    <3> QED BY <3>2
  <2>5. counted'.inactive = CountNow.inactive /\ counted'.counts = CountNow.counts
    BY <1>4, <2>3 DEF CountedWalk
  <2>6. played'.score = ScoreNow.score
    BY <1>4, <2>4 DEF PlayedWalk
  <2> QED BY <1>1, <1>2, <2>5, <2>6
<1> QED BY <1>5, <1>6 DEF AutoNext

LEMMA EachCountedNext ==
    ASSUME TimelineTypes, EachCounted, AutoNext
    PROVE  EachCounted'
<1>1. PICK a \in 0 .. SkillCount : CountedFor(a)
  BY CountedNow
<1>2. CountNow.inactive + Total(CountNow.counts, 1 .. SkillCount)
        = counted.inactive + Total(counted.counts, 1 .. SkillCount) + 1
  BY <1>1, CountsAdd
<1>3. place \in Int
  BY Fields, ChartOrdered DEF TimelineTypes
<1>4. counted'.inactive + Total(counted'.counts, 1 .. SkillCount') = place'
        - 1
  BY <1>2, <1>3, StepCounts DEF EachCounted
<1> QED BY <1>4 DEF EachCounted

(* What a step does to the starts and the risk of waiting.                 *)
LEMMA StepRisks ==
    ASSUME TimelineTypes, AutoNext
    PROVE  /\ PlayNote => counted'.starts = counted.starts /\ counted'.queueRisk = counted.queueRisk
           /\ PlaySkill =>
                 /\ counted'.starts = Append(counted.starts, EnvelopeWindow(nodes[place].time).start)
                 /\ counted'.queueRisk = (counted.queueRisk \/ EnvelopeWindow(nodes[place].time).risk)
<1>1. PICK E, A, C, S : E = Seq(AutoEvent) /\ A = 0 .. SkillCount /\ C = [1 .. SkillCount -> Nat] /\ S = Seq(Int)
  OBVIOUS
<1>2. CountNow \in CountedWalk(E, A, C, S) /\ CountNow.starts = counted.starts /\ CountNow.queueRisk = counted.queueRisk
  BY <1>1, CountedNow DEF CountedFor
<1>3. ASSUME PlayNote PROVE counted'.starts = counted.starts /\ counted'.queueRisk = counted.queueRisk
  <2>1. PICK e, a : counted' = [CountNow EXCEPT !.events = e, !.active = a]
    BY <1>3 DEF PlayNote
  <2> QED BY <1>2, <2>1 DEF CountedWalk
<1>4. ASSUME PlaySkill
      PROVE  /\ counted'.starts = Append(counted.starts, EnvelopeWindow(nodes[place].time).start)
             /\ counted'.queueRisk = (counted.queueRisk \/ EnvelopeWindow(nodes[place].time).risk)
  <2>1. PICK i, j : i = IdealWindow(nodes[place].time) /\ j = EnvelopeWindow(nodes[place].time)
    OBVIOUS
  <2>2. PICK c : c = Triggered(counted, i, Number)
    OBVIOUS
  <2>3. counted' = [CountNow EXCEPT !.events = c.events, !.active = c.active,
                                    !.starts = Append(CountNow.starts, j.start),
                                    !.queueRisk = CountNow.queueRisk \/ j.risk]
    BY <1>4, <2>1, <2>2 DEF PlaySkill
  <2> QED BY <1>2, <2>1, <2>3 DEF CountedWalk
<1> QED BY <1>3, <1>4

(* A risk that was met is never forgotten.                                 *)
LEMMA SafeBefore ==
    ASSUME TimelineTypes, AutoNext, Safe'
    PROVE  /\ Safe
           /\ PlaySkill => ~EnvelopeWindow(nodes[place].time).risk
<1>1. counted.starts \in Seq(Int)
  BY Fields
<1>2. nodes' = nodes /\ lasts' = lasts
  BY StepCounts
<1>3. ASSUME NEW t PROVE TailRiskAt(t)' <=> TailRiskAt(t)
  BY <1>2 DEF TailRiskAt, EndInterval, Ticks
<1>4. \A k \in DOMAIN counted.starts : k \in DOMAIN counted'.starts /\ counted'.starts[k] = counted.starts[k]
  <2>1. CASE PlayNote
    BY <2>1, StepRisks
  <2>2. CASE PlaySkill
    <3>1. PICK v : counted'.starts = Append(counted.starts, v)
      BY <2>2, StepRisks
    <3>2. PICK s \in Seq(Int) : s = counted.starts
      BY <1>1
    <3>3. v \in Int
      <4>1. nodes[place].time \in Int
        BY StepCounts, Fields, ChartOrdered
      <4>2. EnvelopeWindow(nodes[place].time).start \in Int
        BY <4>1, WindowsInt
      <4>3. counted'.starts = Append(counted.starts, EnvelopeWindow(nodes[place].time).start)
        BY <2>2, StepRisks
      <4>4. Append(s, v) = Append(s, EnvelopeWindow(nodes[place].time).start)
        BY <3>1, <3>2, <4>3
      <4>5. PICK u \in Int : u = EnvelopeWindow(nodes[place].time).start
        BY <4>2
      <4>6. Append(s, v)[Len(s) + 1] = v /\ Append(s, u)[Len(s) + 1] = u
        OBVIOUS
      <4> QED BY <4>4, <4>5, <4>6
    <3>4. \A k \in DOMAIN s : k \in DOMAIN Append(s, v) /\ Append(s, v)[k] = s[k]
      BY <3>3
    <3> QED BY <3>1, <3>2, <3>4
  <2> QED BY <2>1, <2>2 DEF AutoNext
<1>5. ~TailRisk' /\ ~counted'.queueRisk
  BY DEF Safe
<1>6. ~TailRisk
  BY <1>3, <1>4, <1>5 DEF TailRisk
<1>7. ~counted.queueRisk
  BY <1>5, StepRisks DEF AutoNext
<1>8. PlaySkill => ~EnvelopeWindow(nodes[place].time).risk
  BY <1>5, StepRisks
<1> QED BY <1>6, <1>7, <1>8 DEF Safe

(* The same skill is in effect on both timelines, and has covered as many  *)
(* judgements on both.                                                     *)
Same(a) ==
    /\ a = InEffect(counted) /\ a = InEffect(played) /\ a \in 0 .. SkillCount
    /\ a = 0 => Remaining(counted) = <<>> /\ Remaining(played) = <<>>
    /\ a # 0 =>
          /\ Sounding /\ a = Triggers /\ RiseOf = counted.counts[a] + 1
          /\ Remaining(counted) = counted.events /\ Remaining(played) = played.events

LEMMA StartsInt ==
    ASSUME TimelineTypes
    PROVE  Triggers \in Nat /\ (Triggers > 0 => counted.starts[Triggers] \in Int)
           /\ Triggers <= SkillCount /\ SkillCount \in Nat
<1>1. counted.starts \in Seq(Int)
  BY Fields
<1>2. Triggers = Cardinality(SkillsBefore) /\ Cardinality(SkillsBefore) \in 0 .. SkillCount /\ SkillCount \in Nat
  BY Fields, SkillsCounted DEF TimelineTypes, Triggers
<1>3. PICK s \in Seq(Int) : s = counted.starts
  BY <1>1
<1>4. Len(s) \in Nat /\ (Len(s) > 0 => s[Len(s)] \in Int)
  OBVIOUS
<1> QED BY <1>2, <1>3, <1>4 DEF Triggers

(* The end on the timeline of 60 frames lies within the interval. *)
LEMMA EndsInside ==
    ASSUME lasts \in Nat, NEW t \in Int
    PROVE  /\ IdealEnd(t) \in Int
           /\ IdealEnd(t) >= t + Ticks(lasts) + 4 /\ IdealEnd(t) <= t + Ticks(lasts) + 7
           /\ Ticks(lasts) \in Nat /\ JudgementFrame(t) \in Int
BY DEF IdealEnd, Ticks, JudgementFrame

(* No judgement lies between the ends on the two timelines.                *)
LEMMA BothDue ==
    ASSUME TimelineTypes, Safe, WalksAgree, place \in DOMAIN nodes
    PROVE  \E a : Same(a)
<1>1. /\ lasts \in Nat /\ nodes \in AutoCharts /\ nodes[place].time \in Int
      /\ InEffect(counted) \in 0 .. SkillCount
  BY Fields, ChartOrdered, DueType
<1>2. CASE Silent
  <2>1. InEffect(counted) = 0 /\ InEffect(played) = 0 /\ Remaining(counted) = <<>> /\ Remaining(played) = <<>>
    BY <1>2, NoneDue DEF Silent
  <2>2. Same(0)
    BY <1>1, <2>1 DEF Same
  <2> QED BY <2>2
<1>3. CASE Sounding
  <2>1. Triggers > 0
    BY <1>3 DEF Sounding
  <2>2. PICK t \in Int : t = counted.starts[Triggers]
    BY <2>1, StartsInt
  <2>3. ~TailRiskAt(t)
    <3>1. Triggers \in DOMAIN counted.starts
      BY <2>1, StartsInt, Fields DEF Triggers
    <3> QED BY <2>2, <3>1 DEF Safe, TailRisk
  <2>4. nodes[place].time < t + Ticks(lasts) + 2 \/ nodes[place].time > t + Ticks(lasts) + 8
    BY <1>1, <2>3, Outside
  <2>5. PICK d \in Int, e \in Int, w \in Nat :
            /\ d = IdealEnd(t) /\ e = t + Ticks(lasts) + 8 /\ w = Ticks(lasts)
            /\ d >= t + w + 4 /\ d <= t + w + 7
    <3>1. PICK d \in Int, w \in Nat : d = IdealEnd(t) /\ w = Ticks(lasts) /\ d >= t + w + 4 /\ d <= t + w + 7
      BY <1>1, EndsInside
    <3>2. PICK e \in Int : e = t + w + 8
      OBVIOUS
    <3> QED BY <3>1, <3>2
  <2>6. /\ counted.events = <<[time |-> d, active |-> 0]>> /\ counted.active = Triggers
        /\ played.events = <<[time |-> e, active |-> 0]>> /\ played.active = Triggers
        /\ played.rise = counted.counts[Triggers]
    BY <1>3, <2>2, <2>5 DEF Sounding
  <2>7. CASE nodes[place].time > t + w + 8
    <3>1. d < nodes[place].time /\ e < nodes[place].time
      BY <1>1, <2>5, <2>7
    <3>2. InEffect(counted) = 0 /\ Remaining(counted) = <<>>
      BY <1>1, <2>6, <3>1, OneDue
    <3>3. InEffect(played) = 0 /\ Remaining(played) = <<>>
      BY <1>1, <2>6, <3>1, OneDue
    <3>4. Same(0)
      BY <1>1, <3>2, <3>3 DEF Same
    <3> QED BY <3>4
  <2>8. CASE nodes[place].time < t + w + 2
    <3>1. d >= nodes[place].time /\ e >= nodes[place].time
      BY <1>1, <2>5, <2>8
    <3>2. InEffect(counted) = Triggers /\ Remaining(counted) = counted.events
      BY <1>1, <2>6, <3>1, OneDue
    <3>3. InEffect(played) = Triggers /\ Remaining(played) = played.events
      BY <1>1, <2>6, <3>1, OneDue
    <3>4. RiseOf = counted.counts[Triggers] + 1
      BY <2>6, <3>3 DEF RiseOf
    <3>5. Same(Triggers)
      BY <1>1, <1>3, <2>1, <3>2, <3>3, <3>4, StartsInt DEF Same
    <3> QED BY <3>5
  <2> QED BY <2>4, <2>5, <2>7, <2>8
<1> QED BY <1>2, <1>3 DEF WalksAgree

(* A judgement under the same skill adds to both what is settled for it. *)
LEMMA ScoresStay ==
    ASSUME TimelineTypes, WalksAgree, AutoNext, NEW a, Same(a)
    PROVE  /\ ScoresAgree'
           /\ \A k \in 1 .. SkillCount : k # a => counted'.counts[k] = counted.counts[k]
           /\ a # 0 => counted'.counts[a] = counted.counts[a] + 1
<1>1. a \in 0 .. SkillCount /\ a = InEffect(counted) /\ a = InEffect(played)
  BY DEF Same
<1>2. CountedFor(a)
  BY <1>1, CountedNow
<1>3. ScoreNow.score = played.score + Settled(IF a = 0 THEN 0 ELSE Added(RiseOf))
  BY <1>1, ScoredNow
<1>4. CountNow.inactive * Settled(0) + Total(WindowScores(CountNow.counts), 1 .. SkillCount)
        = counted.inactive * Settled(0) + Total(WindowScores(counted.counts), 1 .. SkillCount)
          + Settled(IF a = 0 THEN 0 ELSE Added(counted.counts[a] + 1))
  BY <1>1, <1>2, ScoresAdd
<1>5. Settled(IF a = 0 THEN 0 ELSE Added(RiseOf)) = Settled(IF a = 0 THEN 0 ELSE Added(counted.counts[a] + 1))
  BY DEF Same
<1>6. ScoreNow.score = CountNow.inactive * Settled(0) + Total(WindowScores(CountNow.counts), 1 .. SkillCount)
  BY <1>3, <1>4, <1>5 DEF WalksAgree, ScoresAgree
<1>7. ScoresAgree'
  <2>1. \A added : Settled(added)' = Settled(added)
    BY DEF Settled
  <2>2. \A k : Added(k)' = Added(k)
    BY StepCounts DEF Added
  <2>3. Rises' = Rises
    BY <2>1, <2>2 DEF Rises
  <2>4. \A n : WindowScore(n)' = WindowScore(n)
    BY <2>1, <2>3, StepCounts DEF WindowScore
  <2>5. WindowScores(counted.counts)' = WindowScores(CountNow.counts)
    BY <2>4, StepCounts DEF WindowScores
  <2> QED BY <1>6, <2>1, <2>5, StepCounts DEF ScoresAgree
<1>8. counted.counts \in [1 .. SkillCount -> Nat]
  BY Fields
<1>9. counted'.counts = IF a = 0 THEN counted.counts ELSE [counted.counts EXCEPT ![a] = counted.counts[a] + 1]
  BY <1>2, StepCounts DEF CountedFor
<1>10. \A k \in 1 .. SkillCount : k # a => counted'.counts[k] = counted.counts[k]
  BY <1>8, <1>9
<1>11. a # 0 => counted'.counts[a] = counted.counts[a] + 1
  BY <1>1, <1>8, <1>9, StepCounts
<1> QED BY <1>7, <1>10, <1>11

LEMMA NoteAgrees ==
    ASSUME TimelineTypes, Safe, WalksAgree, PlayNote
    PROVE  WalksAgree'
<1>1. AutoNext /\ place \in DOMAIN nodes
  BY DEF AutoNext, PlayNote
<1>2. PICK a : Same(a)
  BY <1>1, BothDue
<1>3. /\ ScoresAgree'
      /\ \A k \in 1 .. SkillCount : k # a => counted'.counts[k] = counted.counts[k]
      /\ a # 0 => counted'.counts[a] = counted.counts[a] + 1
  BY <1>1, <1>2, ScoresStay
<1>4. counted'.starts = counted.starts /\ Triggers' = Triggers
  BY <1>1, StepRisks DEF Triggers
<1>5. lasts' = lasts /\ ideal' = ideal /\ envelope' = envelope /\ SkillCount' = SkillCount
  BY <1>1, StepCounts DEF PlayNote
<1>6. Remembered'
  <2>1. Remembered
    BY DEF WalksAgree
  <2> QED BY <1>4, <1>5, <2>1 DEF Remembered, JudgementFrame, Ticks
<1>7. \A k \in 1 .. SkillCount' : k > Triggers' => counted'.counts[k] = 0
  <2>1. ASSUME NEW k \in 1 .. SkillCount, k > Triggers PROVE counted'.counts[k] = 0
    <3>1. k # a
      BY <1>2, <2>1, StartsInt DEF Same
    <3> QED BY <1>3, <2>1, <3>1 DEF WalksAgree
  <2> QED BY <1>4, <1>5, <2>1
<1>8. PICK E, A, C, S : E = Seq(AutoEvent) /\ A = 0 .. SkillCount /\ C = [1 .. SkillCount -> Nat] /\ S = Seq(Int)
  OBVIOUS
<1>9. CountNow \in CountedWalk(E, A, C, S) /\ ScoreNow \in PlayedWalk(E, A) /\ ScoreNow.rise = RiseOf
  BY <1>8, CountedNow, ScoredNow
<1>10. /\ counted'.events = Remaining(counted) /\ counted'.active = a
       /\ played'.events = Remaining(played) /\ played'.active = a /\ played'.rise = RiseOf
  <2>1. PICK e, f : e = Remaining(counted) /\ f = Remaining(played)
    OBVIOUS
  <2>2. counted' = [CountNow EXCEPT !.events = e, !.active = a]
    BY <1>2, <2>1 DEF PlayNote, Same
  <2>3. played' = [ScoreNow EXCEPT !.events = f, !.active = a]
    BY <1>2, <2>1 DEF PlayNote, Same
  <2>4. counted'.events = e /\ counted'.active = a
    BY <1>9, <2>2 DEF CountedWalk
  <2>5. played'.events = f /\ played'.active = a /\ played'.rise = ScoreNow.rise
    BY <1>9, <2>3 DEF PlayedWalk
  <2> QED BY <1>9, <2>1, <2>4, <2>5
<1>11. Silent' \/ Sounding'
  <2>1. CASE a = 0
    <3>1. Silent'
      BY <1>2, <1>10, <2>1 DEF Same, Silent
    <3> QED BY <3>1
  <2>2. CASE a # 0
    <3>1. Sounding /\ a = Triggers /\ RiseOf = counted.counts[a] + 1
          /\ Remaining(counted) = counted.events /\ Remaining(played) = played.events
      BY <1>2, <2>2 DEF Same
    <3>2. IdealEnd(counted.starts[Triggers])' = IdealEnd(counted.starts[Triggers])
          /\ Ticks(lasts)' = Ticks(lasts)
      BY <1>4, <1>5 DEF IdealEnd, Ticks, JudgementFrame
    <3>3. played'.rise = counted'.counts[Triggers']
      BY <1>3, <1>4, <1>10, <2>2, <3>1
    <3>4. Triggers' > 0 /\ counted'.active = Triggers' /\ played'.active = Triggers'
      BY <1>4, <1>10, <3>1 DEF Sounding
    <3>5. counted'.events = <<[time |-> IdealEnd(counted.starts[Triggers])', active |-> 0]>>
      BY <1>10, <3>1, <3>2 DEF Sounding
    <3>6. played'.events = <<[time |-> (counted.starts[Triggers] + Ticks(lasts) + 8)', active |-> 0]>>
      BY <1>4, <1>10, <3>1, <3>2 DEF Sounding
    <3>7. Sounding'
      BY <3>3, <3>4, <3>5, <3>6 DEF Sounding
    <3> QED BY <3>7
  <2> QED BY <2>1, <2>2
<1> QED BY <1>3, <1>6, <1>7, <1>11 DEF WalksAgree

(* Without a risk a trigger does not wait, on either timeline, and finds no
   skill in effect. *)
LEMMA NoWait ==
    ASSUME TimelineTypes, Safe, WalksAgree, place \in DOMAIN nodes,
           NEW t, t = nodes[place].time, ~EnvelopeWindow(t).risk
    PROVE  /\ t \in Nat
           /\ IdealWindow(t) = [start |-> t, end |-> IdealEnd(t)]
           /\ EnvelopeWindow(t) = [start |-> t, end |-> t + Ticks(lasts) + 8, risk |-> FALSE]
           /\ Same(0)
<1>1. lasts \in Nat /\ t \in Nat /\ Ticks(lasts) \in Nat /\ JudgementFrame(t) \in Int
  BY Fields, ChartOrdered DEF Ticks, JudgementFrame
<1>2. ~(t <= envelope.may)
  BY DEF EnvelopeWindow
<1>3. ~(t <= envelope.must) /\ ~(JudgementFrame(t) <= ideal.until)
      /\ (Triggers > 0 => t > counted.starts[Triggers] + Ticks(lasts) + 192)
  <2>1. CASE Triggers = 0
    <3>1. ideal.until = -1 /\ envelope.must = -1
      BY <2>1 DEF WalksAgree, Remembered
    <3> QED BY <1>1, <2>1, <3>1 DEF JudgementFrame
  <2>2. CASE Triggers > 0
    <3>1. PICK s \in Int, w \in Nat : s = counted.starts[Triggers] /\ w = Ticks(lasts)
      BY <1>1, <2>2, StartsInt
    <3>2. ideal.until = JudgementFrame(s) + lasts + 47 /\ envelope.must = s + w + 184
          /\ envelope.may = s + w + 192 /\ w = 4 * lasts
      BY <2>2, <3>1 DEF WalksAgree, Remembered, Ticks
    <3>3. t > s + w + 192
      BY <1>1, <1>2, <3>1, <3>2
    <3>4. JudgementFrame(t) > JudgementFrame(s) + lasts + 47
      BY <1>1, <3>1, <3>2, <3>3 DEF JudgementFrame
    <3>5. JudgementFrame(s) + lasts + 47 \in Int
      BY <1>1, <3>1 DEF JudgementFrame
    <3> QED BY <1>1, <3>1, <3>2, <3>3, <3>4, <3>5
  <2> QED BY <2>1, <2>2, StartsInt
<1>4. IdealWindow(t) = [start |-> t, end |-> IdealEnd(t)]
  <2>1. JudgementFrame(t) + 1 + lasts = (JudgementFrame(t) + 1) + lasts
    BY <1>1
  <2> QED BY <1>3, <2>1 DEF IdealWindow, IdealEnd
<1>5. EnvelopeWindow(t) = [start |-> t, end |-> t + Ticks(lasts) + 8, risk |-> FALSE]
  <2>1. EnvelopeWindow(t) = [start |-> t, end |-> t + EndInterval.upper, risk |-> t <= envelope.may]
    BY <1>3 DEF EnvelopeWindow
  <2>2. EndInterval.upper = Ticks(lasts) + 8
    BY DEF EndInterval
  <2>3. t + EndInterval.upper = t + Ticks(lasts) + 8
    BY <1>1, <2>2
  <2>4. (t <= envelope.may) = FALSE
    BY <1>2
  <2> QED BY <2>1, <2>3, <2>4
<1>6. Same(0)
  <2>1. PICK a : Same(a)
    BY BothDue
  <2>2. ASSUME a # 0 PROVE FALSE
    <3>1. Sounding /\ InEffect(counted) = a /\ a = Triggers
      BY <2>1, <2>2 DEF Same
    <3>2. PICK s \in Int, w \in Nat : s = counted.starts[Triggers] /\ w = Ticks(lasts)
      BY <1>1, <3>1, StartsInt DEF Sounding
    <3>3. PICK d \in Int : d = IdealEnd(s) /\ d <= s + w + 7
      BY <1>1, <3>2, EndsInside
    <3>4. d < nodes[place].time /\ counted.events = <<[time |-> d, active |-> 0]>>
      BY <1>1, <1>3, <3>1, <3>2, <3>3 DEF Sounding
    <3>5. InEffect(counted) = 0
      BY <1>1, <3>4, OneDue
    <3> QED BY <2>2, <3>1, <3>5
  <2> QED BY <2>1, <2>2
<1> QED BY <1>1, <1>4, <1>5, <1>6

(* The new skill is the one in effect on both, with its end inside the     *)
(* interval.                                                               *)
LEMMA SkillAgrees ==
    ASSUME TimelineTypes, Safe, WalksAgree, PlaySkill, ~EnvelopeWindow(nodes[place].time).risk
    PROVE  WalksAgree'
<1>1. AutoNext /\ place \in DOMAIN nodes
  BY DEF AutoNext, PlaySkill
<1>2. PICK t : t = nodes[place].time
  OBVIOUS
<1>3. /\ t \in Nat /\ Same(0)
      /\ IdealWindow(t) = [start |-> t, end |-> IdealEnd(t)]
      /\ EnvelopeWindow(t) = [start |-> t, end |-> t + Ticks(lasts) + 8, risk |-> FALSE]
  BY <1>1, <1>2, NoWait
<1>4. /\ ScoresAgree'
      /\ \A k \in 1 .. SkillCount : k # 0 => counted'.counts[k] = counted.counts[k]
  BY <1>1, <1>3, ScoresStay
<1>5. counted'.starts = Append(counted.starts, t)
  BY <1>1, <1>2, <1>3, StepRisks
<1>6. Triggers' = Triggers + 1 /\ counted'.starts[Triggers'] = t /\ Triggers \in Nat
      /\ Number = Triggers + 1
  <2>1. PICK s \in Seq(Int) : s = counted.starts
    BY Fields
  <2>2. Len(Append(s, t)) = Len(s) + 1 /\ Append(s, t)[Len(s) + 1] = t /\ Len(s) \in Nat
    BY <1>3
  <2> QED BY <1>5, <2>1, <2>2 DEF Triggers, Number
<1>7. lasts' = lasts /\ SkillCount' = SkillCount /\ lasts \in Nat
  BY <1>1, StepCounts, Fields
<1>8. ideal' = IdealAfter(IdealWindow(t)) /\ envelope' = EnvelopeAfter(EnvelopeWindow(t))
  BY <1>2 DEF PlaySkill
<1>9. Remembered'
  <2>1. PICK f \in Int, w \in Nat : f = JudgementFrame(t) /\ w = Ticks(lasts)
    BY <1>3, <1>7 DEF JudgementFrame, Ticks
  <2>2. ideal'.until = f + lasts + 47
    <3>1. PICK e : e = IdealEnd(t) /\ IdealWindow(t).end = e
      BY <1>3
    <3>2. e = 4 * (f + 1 + lasts)
      BY <2>1, <3>1 DEF IdealEnd, Ticks
    <3>3. e \div 4 = f + 1 + lasts
      BY <1>7, <3>2
    <3>4. ideal'.until = e \div 4 + 46
      BY <1>8, <3>1 DEF IdealAfter
    <3> QED BY <1>7, <3>3, <3>4
  <2>3. envelope'.must = t + w + 184 /\ envelope'.may = t + w + 192
    <3>1. EnvelopeWindow(t).start = t
      BY <1>3
    <3>2. envelope'.must = t + QueueGap.lower /\ envelope'.may = t + QueueGap.upper
      BY <1>8, <3>1 DEF EnvelopeAfter
    <3>3. QueueGap.lower = w + 180 + 4 /\ QueueGap.upper = w + 180 + 12
      BY <2>1 DEF QueueGap
    <3> QED BY <1>3, <3>2, <3>3
  <2>4. JudgementFrame(counted.starts[Triggers])' = f /\ Ticks(lasts)' = w
    BY <1>6, <1>7, <2>1 DEF JudgementFrame, Ticks
  <2> QED BY <1>6, <1>7, <2>1, <2>2, <2>3, <2>4 DEF Remembered
<1>10. \A k \in 1 .. SkillCount' : k > Triggers' => counted'.counts[k] = 0
  BY <1>4, <1>6, <1>7 DEF WalksAgree
<1>11. PICK E, A, C, S : E = Seq(AutoEvent) /\ A = 0 .. SkillCount /\ C = [1 .. SkillCount -> Nat] /\ S = Seq(Int)
  OBVIOUS
<1>12. CountNow \in CountedWalk(E, A, C, S) /\ ScoreNow \in PlayedWalk(E, A)
  BY <1>11, CountedNow, ScoredNow
<1>13. PICK i, j : i = IdealWindow(t) /\ j = EnvelopeWindow(t)
  OBVIOUS
<1>14. PICK c, p : c = Triggered(counted, i, Number) /\ p = Triggered(played, j, Number)
  OBVIOUS
<1>15. c.events = <<[time |-> IdealEnd(t), active |-> 0]>> /\ c.active = Number
  <2>1. Remaining(counted) = <<>>
    BY <1>3 DEF Same
  <2>2. i.start = t /\ i.end = IdealEnd(t) /\ ~(t > nodes[place].time)
    BY <1>2, <1>3, <1>13
  <2>3. c = [events |-> <<>> \o <<>> \o <<[time |-> i.end, active |-> 0]>>, active |-> Number]
    BY <1>2, <1>14, <2>1, <2>2 DEF Triggered
  <2>4. PICK v : v = [time |-> IdealEnd(t), active |-> 0]
    OBVIOUS
  <2>5. <<>> \o <<>> \o <<v>> = <<v>>
    OBVIOUS
  <2> QED BY <2>2, <2>3, <2>4, <2>5
<1>16. p.events = <<[time |-> t + Ticks(lasts) + 8, active |-> 0]>> /\ p.active = Number
  <2>1. Remaining(played) = <<>>
    BY <1>3 DEF Same
  <2>2. j.start = t /\ j.end = t + Ticks(lasts) + 8 /\ ~(t > nodes[place].time)
    BY <1>2, <1>3, <1>13
  <2>3. p = [events |-> <<>> \o <<>> \o <<[time |-> j.end, active |-> 0]>>, active |-> Number]
    BY <1>2, <1>14, <2>1, <2>2 DEF Triggered
  <2>4. PICK v : v = [time |-> t + Ticks(lasts) + 8, active |-> 0]
    OBVIOUS
  <2>5. <<>> \o <<>> \o <<v>> = <<v>>
    OBVIOUS
  <2> QED BY <2>2, <2>3, <2>4, <2>5
<1>17. counted'.events = c.events /\ counted'.active = c.active
  <2>1. counted' = [CountNow EXCEPT !.events = c.events, !.active = c.active,
                                    !.starts = Append(CountNow.starts, j.start),
                                    !.queueRisk = CountNow.queueRisk \/ j.risk]
    BY <1>2, <1>13, <1>14 DEF PlaySkill
  <2> QED BY <1>12, <2>1 DEF CountedWalk
<1>18. played'.events = p.events /\ played'.active = p.active /\ played'.rise = 0
  <2>1. played' = [ScoreNow EXCEPT !.events = p.events, !.active = p.active,
                                   !.rise = IF p.active = Number THEN 0 ELSE ScoreNow.rise]
    BY <1>2, <1>13, <1>14 DEF PlaySkill
  <2>2. played' = [ScoreNow EXCEPT !.events = p.events, !.active = p.active, !.rise = 0]
    BY <1>16, <2>1
  <2> QED BY <1>12, <2>2 DEF PlayedWalk
<1>19. Sounding'
  <2>1. IdealEnd(counted.starts[Triggers])' = IdealEnd(t)
        /\ (counted.starts[Triggers] + Ticks(lasts) + 8)' = t + Ticks(lasts) + 8
    BY <1>6, <1>7 DEF IdealEnd, Ticks, JudgementFrame
  <2>2. counted'.counts[Triggers'] = 0
    <3>1. Number \in 1 .. SkillCount
      BY SkillTypes
    <3>2. counted'.counts[Number] = counted.counts[Number]
      BY <1>4, <3>1
    <3>3. Number > Triggers
      BY <1>6
    <3> QED BY <1>6, <3>1, <3>2, <3>3 DEF WalksAgree
  <2> QED BY <1>6, <1>15, <1>16, <1>17, <1>18, <2>1, <2>2 DEF Sounding
<1> QED BY <1>4, <1>9, <1>10, <1>19 DEF WalksAgree

LEMMA TimelineStarts ==
    ASSUME AutoInit
    PROVE  TimelineHolds
<1>1. nodes \in AutoCharts /\ lasts \in SkillFrames /\ shared \in AutoSkills /\ place = 1
      /\ ideal = [until |-> -1, next |-> 0] /\ envelope = [must |-> -1, may |-> -1, end |-> 0]
  BY DEF AutoInit, AutoStart
<1>2. Len(nodes) \in Nat /\ SkillCount \in Nat
  <2>1. Len(nodes) \in Nat
    BY <1>1, ChartOrdered
  <2> QED BY <1>1, <2>1, SkillsCounted
<1>3. PICK E, A, C, S, z :
          /\ E = Seq(AutoEvent) /\ A = 0 .. SkillCount /\ C = [1 .. SkillCount -> Nat] /\ S = Seq(Int)
          /\ z = [a \in 1 .. SkillCount |-> 0]
  OBVIOUS
<1>4. <<>> \in E /\ 0 \in A /\ z \in C /\ <<>> \in S
  <2>1. \A D : <<>> \in Seq(D)
    OBVIOUS
  <2> QED BY <1>2, <1>3, <2>1
<1>5. counted = [events |-> <<>>, active |-> 0, inactive |-> 0, counts |-> z, starts |-> <<>>, queueRisk |-> FALSE]
      /\ played = [events |-> <<>>, active |-> 0, rise |-> 0, score |-> 0]
  BY <1>3 DEF AutoInit, AutoStart
<1>6. counted \in CountedWalk(E, A, C, S) /\ played \in PlayedWalk(E, A)
  BY <1>4, <1>5 DEF CountedWalk, PlayedWalk
<1>7. Len(counted.starts) = Cardinality(SkillsBefore) /\ Triggers = 0
  <2>1. SkillsBefore = {}
    BY <1>1 DEF SkillsBefore
  <2>2. Len(counted.starts) = 0
    BY <1>5
  <2> QED BY <2>1, <2>2, FS_EmptySet DEF Triggers
<1>8. TimelineTypes
  <2>1. ideal \in [until : Int, next : Int] /\ envelope \in [must : Int, may : Int, end : Int]
    BY <1>1
  <2>2. place \in 1 .. Len(nodes) + 1
    BY <1>1, <1>2
  <2> QED BY <1>1, <1>3, <1>6, <1>7, <2>1, <2>2 DEF TimelineTypes
<1>9. IsFiniteSet(1 .. SkillCount)
  BY <1>2, FS_Interval
<1>10. EachCounted
  <2>1. Total(z, 1 .. SkillCount) = 0
    <3>1. \A x \in 1 .. SkillCount : z[x] = 0
      BY <1>3
    <3> QED BY <1>9, <3>1, TotalZero
  <2> QED BY <1>1, <1>5, <2>1 DEF EachCounted
<1>11. ScoresAgree
  <2>1. \A x \in 1 .. SkillCount : WindowScores(z)[x] = 0
    BY <1>1, <1>3, WindowScoreZero DEF WindowScores
  <2>2. Total(WindowScores(z), 1 .. SkillCount) = 0
    BY <1>9, <2>1, TotalZero
  <2>3. PICK n \in Int, v \in Int : n = 0 /\ v = Settled(n)
    BY SettledInt
  <2>4. 0 * v = 0
    OBVIOUS
  <2> QED BY <1>5, <2>2, <2>3, <2>4 DEF ScoresAgree
<1>12. Remembered
  BY <1>1, <1>7 DEF Remembered
<1>13. \A a \in 1 .. SkillCount : counted.counts[a] = 0
  BY <1>3, <1>5
<1>14. Silent
  BY <1>5 DEF Silent
<1> QED BY <1>8, <1>10, <1>11, <1>12, <1>13, <1>14 DEF TimelineHolds, WalksAgree

LEMMA TimelineSteps ==
    ASSUME TimelineHolds, AutoNext
    PROVE  TimelineHolds'
<1>1. TimelineTypes /\ EachCounted /\ (Safe => WalksAgree)
  BY DEF TimelineHolds
<1>2. TimelineTypes'
  BY <1>1, NoteTypes, SkillTypes DEF AutoNext
<1>3. EachCounted'
  BY <1>1, EachCountedNext
<1>4. ASSUME Safe' PROVE WalksAgree'
  <2>1. Safe /\ (PlaySkill => ~EnvelopeWindow(nodes[place].time).risk)
    BY <1>1, <1>4, SafeBefore
  <2>2. CASE PlayNote
    BY <1>1, <2>1, <2>2, NoteAgrees
  <2>3. CASE PlaySkill
    BY <1>1, <2>1, <2>3, SkillAgrees
  <2> QED BY <2>2, <2>3 DEF AutoNext
<1> QED BY <1>2, <1>3, <1>4 DEF TimelineHolds

LEMMA TimelineStays ==
    ASSUME TimelineHolds, UNCHANGED autoVars
    PROVE  TimelineHolds'
<1>1. /\ nodes' = nodes /\ lasts' = lasts /\ shared' = shared /\ place' = place /\ ideal' = ideal
      /\ envelope' = envelope /\ counted' = counted /\ played' = played
  BY DEF autoVars
<1>2. SkillCount' = SkillCount
  BY <1>1 DEF SkillCount
<1>3. TimelineTypes'
  <2>1. SkillsBefore' = SkillsBefore
    BY <1>1 DEF SkillsBefore
  <2>2. AutoEvent' = AutoEvent
    BY <1>2 DEF AutoEvent
  <2> QED BY <1>1, <1>2, <2>1, <2>2 DEF TimelineHolds, TimelineTypes, CountedWalk, PlayedWalk
<1>4. EachCounted'
  BY <1>1, <1>2 DEF TimelineHolds, EachCounted
<1>5. Safe' <=> Safe
  <2>1. EndInterval' = EndInterval
    BY <1>1 DEF EndInterval, Ticks
  <2>2. \A t : TailRiskAt(t)' <=> TailRiskAt(t)
    BY <1>1, <2>1 DEF TailRiskAt
  <2>3. TailRisk' <=> TailRisk
    BY <1>1, <2>2 DEF TailRisk
  <2> QED BY <1>1, <2>3 DEF Safe
<1>6. Triggers' = Triggers
  BY <1>1 DEF Triggers
<1>7. ASSUME WalksAgree PROVE WalksAgree'
  <2>1. ScoresAgree'
    <3>1. \A added : Settled(added)' = Settled(added)
      BY DEF Settled
    <3>2. \A k : Added(k)' = Added(k)
      BY <1>1 DEF Added
    <3>3. Rises' = Rises
      BY <3>1, <3>2 DEF Rises
    <3>4. \A n : WindowScore(n)' = WindowScore(n)
      BY <1>1, <3>1, <3>3 DEF WindowScore
    <3>5. WindowScores(counted.counts)' = WindowScores(counted.counts)
      BY <1>1, <1>2, <3>4 DEF WindowScores
    <3> QED BY <1>1, <1>2, <1>7, <3>1, <3>5 DEF WalksAgree, ScoresAgree
  <2>2. Remembered'
    BY <1>1, <1>6, <1>7 DEF WalksAgree, Remembered, JudgementFrame, Ticks
  <2>3. Silent \/ Sounding => (Silent \/ Sounding)'
    <3>1. \A t : IdealEnd(t)' = IdealEnd(t)
      BY <1>1 DEF IdealEnd, Ticks, JudgementFrame
    <3>2. Ticks(lasts)' = Ticks(lasts)
      BY <1>1 DEF Ticks
    <3> QED BY <1>1, <1>6, <3>1, <3>2 DEF Silent, Sounding
  <2>4. \A a \in 1 .. SkillCount' : a > Triggers' => counted'.counts[a] = 0
    BY <1>1, <1>2, <1>6, <1>7 DEF WalksAgree
  <2> QED BY <1>7, <2>1, <2>2, <2>3, <2>4 DEF WalksAgree
<1> QED BY <1>3, <1>4, <1>5, <1>7 DEF TimelineHolds

LEMMA HoldsIsExact ==
    ASSUME TimelineHolds
    PROVE  RangeScoresExact
<1> SUFFICES ASSUME place = Len(nodes) + 1
             PROVE  /\ counted.inactive + FoldFunction(+, 0, counted.counts) = Len(nodes)
                    /\ Safe => CountScore = played.score
  BY DEF RangeScoresExact
<1>1. TimelineTypes /\ EachCounted
  BY DEF TimelineHolds
<1>2. /\ counted.counts \in [1 .. SkillCount -> Nat] /\ counted.inactive \in Nat
      /\ SkillCount \in Nat /\ Len(nodes) \in Nat /\ shared \in AutoSkills
  BY <1>1, Fields, ChartOrdered, StartsInt
<1>3. FoldFunction(+, 0, counted.counts) = Total(counted.counts, 1 .. SkillCount)
  <2>1. DOMAIN counted.counts = 1 .. SkillCount
    BY <1>2
  <2> QED BY <2>1, FoldIsTotal
<1>4. counted.inactive + FoldFunction(+, 0, counted.counts) = Len(nodes)
  <2>1. place - 1 = Len(nodes)
    BY <1>2
  <2>2. counted.inactive + Total(counted.counts, 1 .. SkillCount) = Len(nodes)
    BY <1>1, <2>1 DEF EachCounted
  <2> QED BY <1>3, <2>2
<1>5. ASSUME Safe PROVE CountScore = played.score
  <2>1. played.score = counted.inactive * Settled(0) + Total(WindowScores(counted.counts), 1 .. SkillCount)
    BY <1>5 DEF TimelineHolds, WalksAgree, ScoresAgree
  <2>2. CASE shared.rateup
    <3>1. PICK h : h = [a \in DOMAIN counted.counts |->
                          MapThenSumSet(LAMBDA k : Settled(Added(k)), 1 .. counted.counts[a])]
      OBVIOUS
    <3>2. CountScore = counted.inactive * Settled(0) + FoldFunction(+, 0, h)
      BY <2>2, <3>1 DEF CountScore
    <3>3. h = WindowScores(counted.counts)
      <4>1. ASSUME NEW a \in 1 .. SkillCount
            PROVE  MapThenSumSet(LAMBDA k : Settled(Added(k)), 1 .. counted.counts[a]) = WindowScore(counted.counts[a])
        <5>1. PICK n \in Nat : n = counted.counts[a]
          BY <1>2
        <5>2. MapThenSumSet(LAMBDA k : Settled(Added(k)), 1 .. n) = Total(Rises, 1 .. n)
          BY RisesAreTotal
        <5> QED BY <2>2, <5>1, <5>2 DEF WindowScore
      <4> QED BY <1>2, <3>1, <4>1 DEF WindowScores
    <3>4. FoldFunction(+, 0, h) = Total(h, 1 .. SkillCount)
      <4>1. DOMAIN h = 1 .. SkillCount
        BY <3>3 DEF WindowScores
      <4> QED BY <4>1, FoldIsTotal
    <3> QED BY <2>1, <3>2, <3>3, <3>4
  <2>3. CASE ~shared.rateup
    <3>1. PICK s \in Int : s = Settled(shared.up)
      <4>1. PICK up \in Int : up = shared.up
        BY <1>2, AutoAssumption
      <4> QED BY <4>1, SettledInt
    <3>2. CountScore = counted.inactive * Settled(0) + FoldFunction(+, 0, counted.counts) * s
      BY <2>3, <3>1 DEF CountScore
    <3>3. Total(WindowScores(counted.counts), 1 .. SkillCount) = Total(counted.counts, 1 .. SkillCount) * s
      <4>1. PICK S, f, h : S = 1 .. SkillCount /\ f = counted.counts /\ h = WindowScores(counted.counts)
        OBVIOUS
      <4>2. IsFiniteSet(S) /\ \A x \in S : f[x] \in Int
        <5>1. IsFiniteSet(1 .. SkillCount)
          BY <1>2, FS_Interval
        <5>2. \A x \in 1 .. SkillCount : counted.counts[x] \in Int
          BY <1>2
        <5>3. \A x \in S : f[x] \in Int
          BY ONLY <4>1, <5>2
        <5>4. IsFiniteSet(S)
          BY ONLY <4>1, <5>1
        <5> QED BY <5>3, <5>4
      <4>3. \A x \in S : h[x] = f[x] * s
        BY <1>2, <2>3, <3>1, <4>1 DEF WindowScores, WindowScore
      <4>4. Total(h, S) = Total(f, S) * s
        BY <4>2, <4>3, TotalScaled
      <4> QED BY <4>1, <4>4
    <3> QED BY <1>3, <2>1, <3>2, <3>3
  <2>4. shared.rateup \in BOOLEAN
    BY <1>2, AutoAssumption
  <2> QED BY <2>2, <2>3, <2>4
<1> QED BY <1>4, <1>5

(* The score range search scores what is played (score_range/model.rs,     *)
(* is_safe_for_duration and compressed_score against the scorer of an Auto *)
(* chart), for every chart, duration and skill: every judgement is counted *)
(* once, and without a risk of the frame rate the counts of one ideal      *)
(* timeline score what the scorer settles judgement by judgement on the    *)
(* timeline of the intervals, though skills start and end elsewhere.       *)
THEOREM RangeScores == AutoSpec => []RangeScoresExact
<1>1. AutoInit => TimelineHolds
  BY TimelineStarts
<1>2. TimelineHolds /\ [AutoNext]_autoVars => TimelineHolds'
  BY TimelineSteps, TimelineStays
<1>3. TimelineHolds => RangeScoresExact
  BY HoldsIsExact
<1> QED BY <1>1, <1>2, <1>3, PTL DEF AutoSpec

-----------------------------------------------------------------------------
(* A search that keeps the promise ends with the optimum, whatever the      *)
(* problem is, finite or not.                                               *)

VARIABLES possible, open, best

Promise == INSTANCE Optimum

(* Nothing that can be reached is lost: every possible score is matched by  *)
(* the best one seen or by one that is open.                                *)
Matched(v) ==
    \/ best # None /\ v <= best
    \/ \E w \in open : v <= w

Types ==
    /\ possible \subseteq Int /\ open \subseteq possible
    /\ best \in Int \cup {None}

NoneLost == \A v \in possible : Matched(v)

Reachable == best # None => \E v \in possible : best <= v

IInv == Types /\ NoneLost /\ Reachable

LEMMA BeginsWithNoneLost ==
    ASSUME None \notin Int, Promise!Init
    PROVE  IInv
BY DEF Promise!Init, IInv, Types, NoneLost, Reachable, Matched

\* A step loses nothing and makes nothing up.
LEMMA StepLosesNone ==
    ASSUME None \notin Int, IInv, Promise!Step
    PROVE  IInv'
<1>1. Types'
  BY DEF IInv, Types, Promise!Step
<1>2. NoneLost'
  <2> SUFFICES ASSUME NEW v \in possible PROVE Matched(v)'
    BY DEF NoneLost, Promise!Step
  <2>1. CASE best # None /\ v <= best
    <3>1. best' # None /\ best <= best'
      BY <2>1 DEF IInv, Types, Promise!Step
    <3>2. v \in Int /\ best \in Int /\ best' \in Int
      BY <1>1, <2>1, <3>1 DEF IInv, Types
    <3> QED BY <2>1, <3>1, <3>2 DEF Matched
  <2>2. ASSUME NEW w \in open, v <= w
        PROVE  Matched(v)'
    <3>1. v \in Int /\ w \in Int
      BY DEF IInv, Types
    <3>2. CASE best' # None /\ w <= best'
      <4>1. best' \in Int
        BY <1>1, <3>2 DEF Types
      <4> QED BY <2>2, <3>1, <3>2, <4>1 DEF Matched
    <3>3. ASSUME NEW x \in open', w <= x
          PROVE  Matched(v)'
      <4>1. x \in Int
        BY <1>1 DEF Types
      <4> QED BY <2>2, <3>1, <3>3, <4>1 DEF Matched
    <3> QED BY <3>2, <3>3 DEF Promise!Step
  <2> QED BY <2>1, <2>2 DEF IInv, NoneLost, Matched
<1>3. Reachable'
  BY DEF IInv, Reachable, Promise!Step
<1> QED BY <1>1, <1>2, <1>3 DEF IInv

LEMMA EndsWithOptimum ==
    ASSUME None \notin Int, IInv
    PROVE  Promise!IsOptimum
<1> SUFFICES ASSUME open = {}
             PROVE  /\ \A v \in possible : best # None /\ v <= best
                    /\ best # None => best \in possible
  BY DEF Promise!IsOptimum
<1>1. \A v \in possible : best # None /\ v <= best
  BY DEF IInv, NoneLost, Matched
<1>2. ASSUME best # None PROVE best \in possible
  <2>1. PICK v \in possible : best <= v
    BY <1>2 DEF IInv, Reachable
  <2>2. v \in Int /\ best \in Int /\ v <= best
    BY <1>1, <1>2 DEF IInv, Types
  <2>3. v = best
    BY <2>1, <2>2
  <2> QED BY <2>3
<1> QED BY <1>1, <1>2

(* Whatever a search passes over, in whatever order: if each step keeps the *)
(* promise, then the best score is the highest one when nothing is open     *)
(* (the results of maximize/mod.rs and of the medley solver).               *)
THEOREM NothingBetter ==
    ASSUME None \notin Int
    PROVE  Promise!Spec => []Promise!IsOptimum
<1>1. Promise!Init => IInv
  BY BeginsWithNoneLost
<1>2. IInv /\ [Promise!Step]_(Promise!vars) => IInv'
  <2> SUFFICES ASSUME IInv, [Promise!Step]_(Promise!vars) PROVE IInv'
    OBVIOUS
  <2>1. CASE Promise!Step
    BY <2>1, StepLosesNone
  <2>2. CASE UNCHANGED Promise!vars
    BY <2>2 DEF Promise!vars, IInv, Types, NoneLost, Reachable, Matched
  <2> QED BY <2>1, <2>2
<1>3. IInv => Promise!IsOptimum
  BY EndsWithOptimum
<1> QED BY <1>1, <1>2, <1>3, PTL DEF Promise!Spec

=============================================================================
