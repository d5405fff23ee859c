----------------------------- MODULE EventPoints -----------------------------
(***************************************************************************)
(* Event points for a score (event_pt/mod.rs), the scores that give a      *)
(* number of points (score_range/pt.rs), and how a number of points is     *)
(* made of plays (score_range/mitm.rs).                                    *)
(*                                                                         *)
(* A song gives a fixed number of points and one for every divisor of its  *)
(* score; some event types multiply the sum by the point bonus of the      *)
(* team, mission lives then add the bonus of the support team.             *)
(***************************************************************************)
EXTENDS Integers, FiniteSetsExt

CONSTANTS Rule,     \* of each event type: fixed, divisor, multiplied, supported
          Whole,    \* POINT_BONUS_BASE_BASIS_POINTS: the bonus that doubles the points
          Micros,   \* the part of a basis point in which bonuses of cards are counted
          Never,    \* no interval
          NoPlan    \* no plan of two songs

Events == DOMAIN Rule

ASSUME RuleAssumption ==
    /\ Whole \in Nat \ {0} /\ Micros \in Nat \ {0}
    /\ \A e \in Events : Rule[e] \in [fixed : Nat, divisor : Nat \ {0},
                                      multiplied : BOOLEAN, supported : BOOLEAN]

ASSUME NeverAssumption == Never \notin [min : Nat, max : Nat]

(* bonus_micros_to_basis_points: rounded half up. *)
BasisPoints(micros) == (micros + Micros \div 2) \div Micros

ApplyPointBonus(value, bonus) == (value * (Whole + bonus)) \div Whole

(* The points of a song, for one unit of fire. *)
PointsFor(event, score, bonus, support) ==
    LET rule == Rule[event]
        inner == rule.fixed + score \div rule.divisor
    IN  (IF rule.multiplied THEN ApplyPointBonus(inner, bonus) ELSE inner)
        + (IF rule.supported THEN support ELSE 0)

DivCeil(value, divisor) == (value + divisor - 1) \div divisor

(* The values before the bonus that give points after it. *)
InnerRange(event, points, bonus) ==
    IF Rule[event].multiplied
    THEN [min |-> DivCeil(points * Whole, Whole + bonus),
          max |-> DivCeil((points + 1) * Whole, Whole + bonus) - 1]
    ELSE [min |-> points, max |-> points]

(* The scores that give points, an interval. *)
ScoreInterval(event, points, bonus, support) ==
    LET rule == Rule[event]
        own == points - (IF rule.supported THEN support ELSE 0)
        inner == InnerRange(event, own, bonus)
        min == IF inner.min < rule.fixed THEN rule.fixed ELSE inner.min
    IN  IF own < 0 \/ inner.max < rule.fixed \/ min > inner.max
        THEN Never
        ELSE [min |-> (min - rule.fixed) * rule.divisor,
              max |-> (inner.max - rule.fixed + 1) * rule.divisor - 1]

-----------------------------------------------------------------------------
(* Plays.  A play multiplies its points by the fire it burns: 15 times for *)
(* three fires, 10 for two, 5 for one, once for none.  A song that gives p *)
(* points makes target points when p divides it, by target / p units; two  *)
(* songs share the units.  Fewer plays are better, then less fire.         *)

(* FIRE_MULTIPLIERS and fire_cost_for_multiplier. *)
Fires == {1, 5, 10, 15}
FireCost(fire) == CASE fire = 1 -> 0 [] fire = 5 -> 1 [] fire = 10 -> 2 [] fire = 15 -> 3

(* Greedily: plays of 15 units, then of 10, of 5 and of 1. *)
CountOf(fire, units) ==
    CASE fire = 15 -> units \div 15
      [] fire = 10 -> (units % 15) \div 10
      [] fire = 5  -> ((units % 15) % 10) \div 5
      [] fire = 1  -> ((units % 15) % 10) % 5

ObjectiveForUnits(units) ==
    [plays |-> MapThenSumSet(LAMBDA f : CountOf(f, units), Fires),
     fire  |-> MapThenSumSet(LAMBDA f : CountOf(f, units) * FireCost(f), Fires)]

PlaysForUnits(song, score, points, units) ==
    {[song |-> song, score |-> score, fire |-> f, pt |-> points * f, count |-> CountOf(f, units)] :
        f \in {g \in Fires : CountOf(g, units) > 0}}

Plus(o, p) == [plays |-> o.plays + p.plays, fire |-> o.fire + p.fire]

Better(o, p) == \/ o.plays < p.plays
                \/ o.plays = p.plays /\ o.fire < p.fire

PlanObjective(plays) ==
    [plays |-> MapThenSumSet(LAMBDA p : p.count, plays),
     fire  |-> MapThenSumSet(LAMBDA p : p.count * FireCost(p.fire), plays)]

Produced(plays) == MapThenSumSet(LAMBDA p : p.pt * p.count, plays)

Divisors(n) == {d \in 1 .. n : n % d = 0}

Gcd(a, b) == Max(Divisors(a) \cap Divisors(b))

ModularInverse(value, modulus) ==
    IF modulus = 1 THEN 0 ELSE CHOOSE i \in 0 .. modulus - 1 : (value * i) % modulus = 1

TwoSongUnits(left, right, leftUnits, rightUnits) ==
    [left |-> left, right |-> right, leftUnits |-> leftUnits, rightUnits |-> rightUnits,
     objective |-> Plus(ObjectiveForUnits(leftUnits), ObjectiveForUnits(rightUnits))]

TwoSongBefore(p, q) ==
    \/ Better(p.objective, q.objective)
    \/ p.objective = q.objective /\ p.leftUnits < q.leftUnits

(* best_two_song_plan: both songs are played at least once.  The left       *)
(* units of all solutions differ by multiples of right / gcd; only the      *)
(* fifteen lowest are compared.                                             *)
BestTwoSongPlan(target, left, right) ==
    LET remaining == target - left - right
        divisor == Gcd(left, right)
        l == left \div divisor
        r == right \div divisor
        extraLeft == (((remaining \div divisor) % r) * ModularInverse(l % r, r)) % r
        extraRight == (remaining - left * extraLeft) \div right
        steps == Min({14, extraRight \div l})
        plans == {TwoSongUnits(left, right, 1 + extraLeft + k * r, 1 + extraRight - k * l) :
                     k \in 0 .. steps}
    IN  IF remaining < 0 \/ remaining % divisor # 0 \/ left * extraLeft > remaining
        THEN NoPlan
        ELSE CHOOSE p \in plans : \A q \in plans \ {p} : TwoSongBefore(p, q)

TwoSongPlans(target, min, max) ==
    {BestTwoSongPlan(target, pair[1], pair[2]) :
        pair \in {p \in (min .. max) \X (min .. max) : p[1] < p[2]}} \ {NoPlan}

(* The layers of the search: a layer has one objective; points of one song  *)
(* (0: none) or plans of two songs.                                         *)
OneSongLayers(target) ==
    {[objective |-> ObjectiveForUnits(target \div p), points |-> p, plans |-> {}] :
        p \in Divisors(target)}

TwoSongLayers(target, min, max) ==
    LET plans == TwoSongPlans(target, min, max)
    IN  {[objective |-> o, points |-> 0, plans |-> {p \in plans : p.objective = o}] :
            o \in {p.objective : p \in plans}}

SearchLayers(target, min, max) == OneSongLayers(target) \cup TwoSongLayers(target, min, max)

LayerBefore(a, b) ==
    \/ Better(a.objective, b.objective)
    \/ a.objective = b.objective /\ a.points > b.points

FirstLayer(layers) == CHOOSE a \in layers : \A b \in layers \ {a} : LayerBefore(a, b)

LayerPoints(layer) ==
    IF layer.points > 0 THEN {layer.points}
    ELSE UNION {{p.left, p.right} : p \in layer.plans}

(* SearchLayer::contains_points_in *)
ContainsPointsIn(layer, bounds) ==
    LET within(p) == bounds.min <= p /\ p <= bounds.max
    IN  IF layer.points > 0 THEN within(layer.points)
        ELSE \E p \in layer.plans : within(p.left) /\ within(p.right)

=============================================================================
