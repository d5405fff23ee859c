----------------------------- MODULE EventMedley -----------------------------
(***************************************************************************)
(* The search for the medley with the most event points                    *)
(* (pt_maximize/medley.rs), which shares the dropping of cards, the pools  *)
(* and the candidates with the search for the highest score (MedleySearch).*)
(*                                                                         *)
(* The points of a medley are those of the three scores together, rounded  *)
(* down, on average over the skill orders of all three songs.  The search  *)
(* works with the mean score, which bounds the points: a plan can have a   *)
(* lower mean and more points, but not by more than one divisor.  Means    *)
(* and scores are sums over the paths of a shuffle.                        *)
(*                                                                         *)
(* The solver that lists the plans above a floor is modelled by its        *)
(* contract.  Left out: the tie of equal points and scores, and queued     *)
(* skills.                                                                 *)
(***************************************************************************)
EXTENDS MedleySearch, SkillShuffle

CONSTANTS PointDecks,      \* the sets of cards a search for points may be asked for
          MedleyFixed,     \* points of every medley (100)
          MedleyDivisor,   \* score for one more point (18,500)
          ScoreSpan        \* more than any sum of scores

ASSUME PointAssumption ==
    /\ \A d \in PointDecks : \A b, c \in d : b.id = c.id => b = c
    /\ MedleyFixed \in Nat /\ MedleyDivisor \in Nat \ {0} /\ ScoreSpan \in Nat

VARIABLES goal,    \* "score" or "points": what is asked for
          layouts, \* history: the layouts of every team that may be of use, by combination
          values   \* history: the value of every plan

eventVars == <<medleyVars, goal, layouts, values>>

-----------------------------------------------------------------------------
(* The points of plans.                                                    *)

(* A histogram gives the number of paths to each score. *)
Histogram(s, team, i, layout) ==
    LET score(turn) == OrderScore(s, team, i, OrderOf(layout, turn), layout[CaptainSlot])
        reached == {<<score(turn), turn>> : turn \in {t \in Turns : ShuffleWeight[t] > 0}}
    IN  [v \in {x[1] : x \in reached} |->
            MapThenSumSet(LAMBDA x : ShuffleWeight[x[2]], {x \in reached : x[1] = v})]

ScoreSum(h) == MapThenSumSet(LAMBDA v : v * h[v], DOMAIN h)

AtMost(h, score) == MapThenSumSet(LAMBDA v : h[v], {v \in DOMAIN h : v <= score})

(* stochastically_dominates. *)
StochasticallyDominates(g, h) ==
    /\ Min(DOMAIN g) >= Min(DOMAIN h) /\ Max(DOMAIN g) >= Max(DOMAIN h)
    /\ ScoreSum(g) >= ScoreSum(h)
    /\ \A v \in DOMAIN g : AtMost(g, v) <= AtMost(h, v)

(* full_team_score_distributions: of the layouts of a team those that no    *)
(* other makes useless, whatever the points.                                *)
Distributions(s, team, i) ==
    LET all == {Histogram(s, team, i, layout) : layout \in DisplayLayouts(team)}
        useful == {h \in all : ~ \E g \in all \ {h} : StochasticallyDominates(g, h)}
    IN  {[paths |-> h, mean |-> ScoreSum(h)] : h \in useful}

AllDistributions(teams) ==
    [i \in Items |-> [team \in teams |->
        <<Distributions(1, team, i), Distributions(2, team, i), Distributions(3, team, i)>>]]

(* best_mean_numerator *)
TeamMean(s, team, i) == Max({d.mean : d \in layouts[i][team][s]})

Samples == PathCount * PathCount * PathCount

(* medley_three_song_points *)
MedleyPoints(score) == MedleyFixed + score \div MedleyDivisor

(* What two songs contribute to the points whatever the third adds, and how *)
(* many of their paths a remainder of the third carries over                *)
(* (MedleyPairSummary).                                                     *)
PairSummary(g, h) ==
    LET paths == (DOMAIN g) \X (DOMAIN h)
        weight(p) == g[p[1]] * h[p[2]]
        rest(p) == (p[1] + p[2]) % MedleyDivisor
    IN  [samples |-> PathCount * PathCount,
         base |-> MapThenSumSet(LAMBDA p : (MedleyFixed + (p[1] + p[2]) \div MedleyDivisor) * weight(p), paths),
         carried |-> [threshold \in 1 .. MedleyDivisor |->
                        MapThenSumSet(weight, {p \in paths : rest(p) >= threshold})]]

(* with_third *)
WithThird(pair, h) ==
    pair.base * PathCount
      + MapThenSumSet(LAMBDA v : ((v \div MedleyDivisor) * pair.samples
                                    + pair.carried[MedleyDivisor - (v % MedleyDivisor)]) * h[v], DOMAIN h)

(* A plan counts by its points, then by its scores (better_result). *)
Encoded(points, score) == points * ScoreSpan + score
PointSum(value) == value \div ScoreSpan

(* The mean without which a plan has fewer points                           *)
(* (mean_numerator_to_match).                                               *)
MeanToMatch(value) ==
    LET variable == Max({0, PointSum(value) - MedleyFixed * Samples})
    IN  (MedleyDivisor * PathCount * variable + Samples - 1) \div Samples

(* The best layouts for the teams of a plan (evaluate_plan). *)
EvaluatePlan(p, i) ==
    LET mean(t) == t[1].mean + t[2].mean + t[3].mean
        value(t) == Encoded(WithThird(PairSummary(t[1].paths, t[2].paths), t[3].paths), mean(t))
        try(t, b) == IF b # None /\ mean(t) < MeanToMatch(b) THEN b ELSE Higher(b, value(t))
    IN  FoldSet(try, None, layouts[i][p[1]][1] \X layouts[i][p[2]][2] \X layouts[i][p[3]][3])

-----------------------------------------------------------------------------
(* The plans of one combination of items.                                  *)

Mean(p, i) == TeamMean(1, p[1], i) + TeamMean(2, p[2], i) + TeamMean(3, p[3], i)

(* build_mean_candidates *)
MeansOf(teams, i) == [t \in teams |-> <<TeamMean(1, t, i), TeamMean(2, t, i), TeamMean(3, t, i)>>]

DisjointPlans(teams) ==
    UNION {LET apart == {b \in teams : Disjoint(a, b)}
           IN  UNION {{<<a, b, c>> : c \in {t \in apart : Disjoint(t, b)}} : b \in apart} : a \in teams}

NoSlack == 0
Slack == MedleyDivisor * PathCount

(* The score that candidates must exceed. *)
FixedFloor(mean) == (mean + PathCount - 1) \div PathCount - 1

(* retain_mean_band_candidates, retain_raw_score_band_candidates: teams that *)
(* reach the floor with the best companions.                                *)
Band(teams, valuesOf, floor) ==
    CompatibleTeams(Promising(teams, valuesOf, floor - 1), valuesOf, floor)

(* What the best plan can be after all plans whose mean is not below the    *)
(* floor were visited, while better plans raise the floor                   *)
(* (enumerate_medley_band).                                                 *)
Scanned(teams, i, floor, first) ==
    LET visited == {[mean |-> Mean(p, i), value |-> EvaluatePlan(p, i)] :
                        p \in {q \in DisjointPlans(teams) : Mean(q, i) >= floor}}
        final(v) == v >= first /\ \A x \in visited : x.mean >= MeanToMatch(v) => x.value <= v
    IN  {v \in {first} \cup {x.value : x \in visited} : final(v)}

(* approximate_mean_seed: the plan given, or one of a higher mean from a    *)
(* random search.                                                           *)
MeanSeeds(teams, given, i) ==
    LET means == [t \in teams |-> [s \in SongIds |-> TeamMean(s, t, i) \div PathCount]]
        better(draws) == {p \in BucketPlans(teams, means, 0, draws) : Mean(p, i) > Mean(given, i)}
    IN  UNION {IF better(draws) = {} THEN {given} ELSE better(draws) : draws \in Draws}

(* search_medley_for_items_seeded, after the candidates were built: the     *)
(* teams of the plan stay, then those of the plan found at random.          *)
BestWithPlan(i) ==
    LET best1024 == [t \in candidates |-> [s \in SongIds |-> PathCount * scores[i][t][s]]]
        own(p) == {p[1], p[2], p[3]}
        inBand(teams, floor) == Band(teams, MeansOf(teams, i), floor)
        floor == Mean(plan, i) - Slack
        some == inBand(Band(candidates, best1024, floor) \cup own(plan), floor) \cup own(plan)
        search(seed) ==
            LET seedFloor == Mean(seed, i) - Slack
                first == EvaluatePlan(seed, i)
                left == inBand(some, seedFloor) \cup own(seed)
            IN  Scanned(left, i, Max({seedFloor, MeanToMatch(first)}), first)
    IN  UNION {search(seed) : seed \in MeanSeeds(some, plan, i)}

(* search_medley_for_items_above *)
BestAbove(i) ==
    LET best1024 == [t \in candidates |-> [s \in SongIds |-> PathCount * scores[i][t][s]]]
        floor == MeanToMatch(best)
        some == Band(candidates, best1024, floor)
    IN  Scanned(Band(some, MeansOf(some, i), floor), i, floor, best)

-----------------------------------------------------------------------------
(* The search (search_medley).  Without a first plan it fails.             *)

(* The candidates of a combination, for plans of at least this mean. *)
Build(i, floor) ==
    LET songs == SongUppers(deck, i)
    IN  /\ incumbent' = FixedFloor(floor) /\ uppers' = songs
        /\ eligible' = [c \in deck |-> EligibleSongs(c, deck, i, songs, FixedFloor(floor))]
        /\ modes' = SeedModes(deck)
        /\ phase' = "modes" /\ refreshAt' = None

StartPoints ==
    /\ phase = "start"
    /\ IF Cardinality(deck) < TeamSize
       THEN phase' = "failed" /\ UNCHANGED bounds
       ELSE phase' = "item" /\ bounds' = [i \in UndominatedItems |-> ItemUpper(i)]
    /\ UNCHANGED <<deck, item, best, plan, incumbent, uppers, eligible, modes, mode, pool, pools,
                   candidates, refreshAt, sampled, scores>>

(* The combination with the highest bound comes next. *)
StartPointItem ==
    /\ phase = "item"
    /\ \E i \in DOMAIN bounds :
        /\ \A j \in DOMAIN bounds : bounds[j] <= bounds[i]
        /\ bounds' = Without(bounds, i)
        /\ CASE best = None ->
                   /\ item' = i /\ phase' = "seed"
                   /\ UNCHANGED <<incumbent, uppers, eligible, modes, refreshAt>>
             [] best # None /\ MedleyPoints(bounds[i]) * Samples < PointSum(best) ->
                   UNCHANGED <<item, phase, incumbent, uppers, eligible, modes, refreshAt>>
             [] OTHER -> item' = i /\ Build(i, MeanToMatch(best))
    /\ UNCHANGED <<deck, best, plan, mode, pool, pools, candidates, sampled, scores>>

SeedPoints ==
    /\ phase = "seed"
    /\ \E plans \in {IF Cardinality(deck) < 3 * TeamSize THEN {} ELSE SeedPlans(item)} :
          IF plans = {} THEN phase' = "failed" /\ UNCHANGED plan
          ELSE plan' \in plans /\ phase' = "improve"
    /\ UNCHANGED <<deck, bounds, item, best, incumbent, uppers, eligible, modes, mode, pool, pools,
                   candidates, refreshAt, sampled, scores>>

ImprovePoints ==
    /\ phase = "improve"
    /\ LET total(p) == TotalScore(p, scores[item])
           better == {p \in Replacements(plan) : total(p) > total(plan)}
       IN  IF better = {}
           THEN Build(item, Mean(plan, item) - Slack) /\ UNCHANGED plan
           ELSE /\ plan' \in {p \in better : \A q \in better : total(q) <= total(p)}
                /\ UNCHANGED <<incumbent, uppers, eligible, modes, phase, refreshAt>>
    /\ UNCHANGED <<deck, bounds, item, best, mode, pool, pools, candidates, sampled, scores>>

SolvePoints ==
    /\ phase = "modes" /\ modes = {} /\ pools = {}
    /\ best' \in IF plan # None THEN BestWithPlan(item) ELSE BestAbove(item)
    /\ phase' = "item"
    /\ candidates' = {} /\ item' = None /\ plan' = None /\ incumbent' = 0 /\ uppers' = NoFloor
    /\ eligible' = <<>> /\ mode' = None /\ refreshAt' = RefreshAt
    /\ UNCHANGED <<deck, bounds, modes, pool, pools, sampled, scores>>

FindPoints == StartPoints \/ StartPointItem \/ SeedPoints \/ ImprovePoints \/ SolvePoints

-----------------------------------------------------------------------------
(* The values of all plans, from every path of the three shuffles.         *)

PlanValue(p, i) ==
    LET paths(s) ==
            {{[weight |-> ShuffleWeight[turn], turn |-> turn,
               score |-> OrderScore(s, p[s], i, OrderOf(layout, turn), layout[CaptainSlot])] :
                turn \in Turns} : layout \in DisplayLayouts(p[s])}
        points(x, y, z) == x.weight * y.weight * z.weight * MedleyPoints(x.score + y.score + z.score)
        sum(a) == MapThenSumSet(LAMBDA x : x.weight * x.score, a)
        value(a, b, c) ==
            Encoded(MapThenSumSet(LAMBDA t : points(t[1], t[2], t[3]), a \X b \X c), sum(a) + sum(b) + sum(c))
    IN  Max({value(t[1], t[2], t[3]) : t \in paths(1) \X paths(2) \X paths(3)})

AllValues(teams) == [i \in Items |-> {[plan |-> p, value |-> PlanValue(p, i)] : p \in DisjointPlans(teams)}]

OpenValues ==
    UNION {LET teams == InSearch(i)
           IN  {x.value : x \in {y \in values[i] : \A s \in SongIds : y.plan[s] \in teams}} : i \in Items}

InitEvent ==
    \/ InitMedley /\ goal = "score" /\ layouts = <<>> /\ values = <<>>
    \/ /\ InitSearch(PointDecks) /\ goal = "points"
       /\ layouts = AllDistributions(Teams(deck))
       /\ values = AllValues(Teams(deck))
       /\ possible = UNION {{x.value : x \in values[i]} : i \in Items}
       /\ open = possible

NextEvent ==
    /\ UNCHANGED <<goal, layouts, values, possible>>
    /\ \/ BuildPools
       \/ goal = "score" /\ FindTotals
       \/ goal = "points" /\ FindPoints
    /\ open' = CASE goal = "score" -> OpenTotals'
                 [] goal = "points" /\ phase' = "failed" -> open
                 [] OTHER -> OpenValues'

EventSpec == InitEvent /\ [][NextEvent]_eventVars

=============================================================================
