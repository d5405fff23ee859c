----------------------------- MODULE MedleySearch ----------------------------
(***************************************************************************)
(* The search for the best medley (maximize/mod.rs, maximize/medley.rs,    *)
(* medley/team.rs, seed.rs, candidate.rs and disjoint_bound.rs): three     *)
(* songs, three teams, no card used twice.                                 *)
(*                                                                         *)
(* Each combination of items that can still beat the best plan is taken in *)
(* turn.  The cards of every mode are dropped to a pool (MedleyPrune), the *)
(* pools are turned into candidate teams with their score in each song,    *)
(* small pools first; plans found on the way raise what the next pools     *)
(* must beat.  Then the solver looks for the best three candidates.  With  *)
(* many cards a plan made greedily and improved card by card comes first.  *)
(*                                                                         *)
(* The exact solver is modelled by its contract (MedleyScan models it in   *)
(* detail); for very many candidates the random search takes its place,    *)
(* and the plan it finds need not be the best.  Skills that queue are left *)
(* out.                                                                    *)
(***************************************************************************)
EXTENDS MedleyPrune, SequencesExt

CONSTANTS Decks,           \* the sets of cards a calculation may be asked for
          SeedAbove,       \* more cards than this: a plan comes first (128)
          SeedRounds,      \* disjoint greedy teams per mode (4)
          SeedVariants,    \* greedy teams without one of the best cards (12)
          SeedLimit,       \* teams kept for a song (128)
          RefreshAt,       \* candidates at which plans are looked for (32768)
          RefreshLimit,    \* most candidates for that (4096)
          RankLimit,       \* teams ranked for a song when companions are bounded
          ExactLimit,      \* most candidates for the exact solver (196,608)
          Buckets,         \* RANDOM_BUCKET_K
          Draws            \* a draw gives a bucket to every card, by its id:
                           \* the sequences of draws of the random search

ASSUME SearchAssumption ==
    /\ \A deck \in Decks : \A c, d \in deck : c.id = d.id => c = d
    /\ Items = 1 .. Cardinality(Items)
    /\ {SeedAbove, SeedRounds, SeedVariants, SeedLimit, RefreshAt, RefreshLimit, RankLimit,
        ExactLimit} \subseteq Nat

ASSUME DrawsAssumption == IsFiniteSet(Buckets) /\ \A draws \in Draws : Len(draws) > 0

VARIABLES deck,        \* the cards
          phase,       \* where the calculation is
          bounds,      \* upper bounds of the combinations still to go
          item,        \* the combination at hand
          best,        \* score of the best plan, None without one
          plan,        \* the plan that is improved before the search
          incumbent,   \* what candidates must beat
          uppers,      \* for the combination, the most a team scores in a song
          eligible,    \* the songs in which a card may be in a better plan
          modes,       \* modes still to go
          mode, pool,  \* the mode at hand and its cards
          pools,       \* pools still to turn into candidates
          candidates,  \* teams
          refreshAt,   \* number of candidates at which plans are looked for next
          sampled,     \* history: totals of plans that a random search may have missed
          scores,      \* history: the scores of every team, by combination
          possible,    \* history: the totals of all plans
          open         \* history: the totals of the plans still in the search

searchVars == <<deck, phase, bounds, item, best, plan, incumbent, uppers, eligible,
                modes, mode, pool, pools, candidates, refreshAt, sampled, scores>>

-----------------------------------------------------------------------------
(* Teams and plans.                                                        *)

(* The score with the cards in an order and a captain. *)
OrderScore(s, team, i, f, c) ==
    LET kind == KindOf(team)
        power == Power(team, i)
        part(value) == value \div Unit
    IN  part(power * SongBase[s]) + part(power * CaptainMeta(s, c, kind))
          + MapThenSumSet(LAMBDA p : part(power * Song(s)!Meta(f[p], kind, p)), Places)

(* The best order and captain for each song (build_resolved_candidate_internal). *)
TeamScores(team, i) ==
    LET orders == {f \in [Places -> team] : \A p, q \in Places : p < q => f[p].id # f[q].id}
    IN  [s \in SongIds |-> Max({OrderScore(s, team, i, f, c) : f \in orders, c \in team})]

AllScores(cards) == [i \in Items |-> [team \in Teams(cards) |-> TeamScores(team, i)]]

Disjoint(a, b) == a \cap b = {}

(* A plan has three teams, one for each song, that share no card. *)
TotalScore(p, scoresOf) == scoresOf[p[1]][1] + scoresOf[p[2]][2] + scoresOf[p[3]][3]

Totals(teams, scoresOf) ==
    UNION {LET apart == {b \in teams : Disjoint(a, b)}
           IN  UNION {{TotalScore(<<a, b, c>>, scoresOf) : c \in {t \in apart : Disjoint(t, b)}} : b \in apart} :
            a \in teams}

BestScore == IF best = None THEN 0 ELSE best

-----------------------------------------------------------------------------
(* The plan that comes first (medley/seed.rs).                             *)

SeedValue(s, m, c, i) == c.power[i] * (SongBase[s] + BestMeta(s, c, m))

(* seed_scored_cards: by value, then by id. *)
ScoredCards(s, m, i) ==
    LET cards == Allowed(deck, m)
        value == [c \in cards |-> SeedValue(s, m, c, i)]
        before(c) == {d \in cards : value[d] > value[c] \/ (value[d] = value[c] /\ d.id < c.id)}
    IN  [n \in 1 .. Cardinality(cards) |-> CHOOSE c \in cards : Cardinality(before(c)) = n - 1]

(* greedy_seed_team; fewer cards if there are not enough. *)
Greedy(cards, banned) ==
    FoldLeft(LAMBDA team, c :
                IF \/ Cardinality(team) = TeamSize \/ c \in banned
                   \/ c.character \in Characters(team)
                THEN team ELSE team \cup {c},
             {}, cards)

(* Greedy teams, each without the cards of those before. *)
GreedyRounds(cards) ==
    FoldLeft(LAMBDA teams, n : teams \cup {Greedy(cards, UNION teams)}, {}, [n \in 1 .. SeedRounds |-> n])

(* seed_team_candidates_for_song. *)
SeedTeams(s, i) ==
    LET ofMode(m) ==
            LET cards == ScoredCards(s, m, i)
                variants == {Greedy(cards, {cards[n]}) : n \in 1 .. Min({SeedVariants, Len(cards)})}
            IN  {t \in GreedyRounds(cards) \cup variants : Cardinality(t) = TeamSize}
        teams == UNION {ofMode(m) : m \in SeedModes(deck)}
        better(t) == {x \in teams : scores[i][x][s] > scores[i][t][s]}
    IN  {t \in teams : Cardinality(better(t)) < SeedLimit}

(* best_seed_candidate_indices. *)
PlansOf(first, second, third, i) ==
    LET all == {p \in first \X second \X third :
                    Disjoint(p[1], p[2]) /\ Disjoint(p[1], p[3]) /\ Disjoint(p[2], p[3])}
    IN  {p \in all : \A q \in all : TotalScore(q, scores[i]) <= TotalScore(p, scores[i])}

SeedPlans(i) == PlansOf(SeedTeams(1, i), SeedTeams(2, i), SeedTeams(3, i), i)

(* improve_seed_partition: the plans with one card replaced by one that is  *)
(* not used.                                                                *)
Replacements(p) ==
    {[p EXCEPT ![s] = (p[s] \ {c}) \cup {d}] :
        <<s, c, d>> \in {<<s, c, d>> \in SongIds \X deck \X deck :
            /\ c \in p[s] /\ d \notin p[1] \cup p[2] \cup p[3]
            /\ d.character \notin Characters(p[s] \ {c})}}

-----------------------------------------------------------------------------
(* The candidates that reach the solver (medley/candidate.rs).             *)

(* raw_medley_solver_candidate_indices, refresh_candidate_indices: with the *)
(* best candidates in the other songs, used or not.                         *)
Promising(teams, scoresOf, floor) ==
    LET most == [s \in SongIds |-> Max({0} \cup {scoresOf[t][s] : t \in teams})]
    IN  {t \in teams : \E s \in SongIds : scoresOf[t][s] + Others(most, s) > floor}

Higher(a, b) == IF a = None THEN b ELSE IF b = None \/ b <= a THEN a ELSE b

Ranked(s, teams, scoresOf, limit) ==
    {x \in teams : Cardinality({y \in teams : scoresOf[y][s] > scoresOf[x][s]}) < limit}

(* RankedPrefix: the scores of the teams, and of those behind the ranked    *)
(* ones only the highest, for a team of no cards.                           *)
RankedScores(s, teams, scoresOf) ==
    LET ranked == Ranked(s, teams, scoresOf, RankLimit)
        behind == {scoresOf[t][s] : t \in teams \ ranked}
    IN  {[team |-> t, score |-> scoresOf[t][s]] : t \in ranked}
          \cup (IF behind = {} THEN {} ELSE {[team |-> {}, score |-> Max(behind)]})

(* The most a team can score in a song that shares no card with this one.   *)
CompanionUpper(t, ranked) ==
    LET apart == {x.score : x \in {y \in ranked : Disjoint(y.team, t)}}
    IN  IF apart = {} THEN None ELSE Max(apart)

(* compatible_flags_parts: the companions of a team, each apart from it,    *)
(* and any two teams apart from each other.                                 *)
CompatibleTeams(teams, scoresOf, floor) ==
    LET ranked == <<RankedScores(1, teams, scoresOf), RankedScores(2, teams, scoresOf),
                    RankedScores(3, teams, scoresOf)>>
        next(s) == (s % 3) + 1
        rows == {[team |-> t,
                  companions |-> <<CompanionUpper(t, ranked[1]), CompanionUpper(t, ranked[2]),
                                   CompanionUpper(t, ranked[3])>>] : t \in teams}
        pairs(s) == {scoresOf[x.team][next(s)] + x.companions[next(next(s))] :
                        x \in {y \in rows : y.companions[next(next(s))] # None}}
        pair == <<Max({0} \cup pairs(1)), Max({0} \cup pairs(2)), Max({0} \cup pairs(3))>>
        keeps(x, s) ==
            /\ x.companions[next(s)] # None /\ x.companions[next(next(s))] # None
            /\ scoresOf[x.team][s]
                 + Min({x.companions[next(s)] + x.companions[next(next(s))], pair[s]}) >= floor
    IN  {x.team : x \in {y \in rows : \E s \in SongIds : keeps(y, s)}}

(* The exact solver: a plan with the highest total above the floor.         *)
SolveExactly(teams, scoresOf, floor) ==
    LET totals == {v \in Totals(teams, scoresOf) : v > floor}
    IN  IF totals = {} THEN None ELSE Max(totals)

(* The random search (random_bucket.rs).  A round draws a bucket for every  *)
(* card and keeps, of the teams that fall into the same buckets, the best   *)
(* for each song; two of these that share no bucket are completed by the    *)
(* best team for the third song in the buckets that are left.  The          *)
(* generator starts from a fixed seed; the order in which plans are         *)
(* compared, by which ties are broken, is left open.                        *)

(* The buckets into which the cards of a team fall. *)
Mask(team, draw) == {draw[c.id] : c \in team}

BestIn(s, teams, scoresOf) == {t \in teams : \A u \in teams : scoresOf[u][s] <= scoresOf[t][s]}

(* insert_candidate: of the teams in the same buckets one of the best. *)
BestByMask(s, teams, scoresOf, draw) ==
    LET inMask(m) == {t \in teams : Mask(t, draw) = m}
    IN  {CHOOSE t \in BestIn(s, inMask(m), scoresOf) : TRUE : m \in {Mask(t, draw) : t \in teams}}

(* maximize_song2_submasks: one of the best in these buckets or in some of  *)
(* them; no team where there is none.                                       *)
BestWithin(mask, teams, scoresOf, draw) ==
    LET within == {t \in teams : Mask(t, draw) \subseteq mask}
    IN  IF within = {} THEN {} ELSE {CHOOSE t \in BestIn(3, within, scoresOf) : TRUE}

(* RandomBucketPairs: the buckets of two teams, and those left for a third. *)
BucketsLeft(a, b, draw) == Buckets \ (Mask(a, draw) \cup Mask(b, draw))

(* update_best_from_bucket_pairs: the plans of a round. *)
RoundPlans(teams, scoresOf, draw) ==
    LET seconds == BestByMask(2, teams, scoresOf, draw)
        thirds == BestByMask(3, teams, scoresOf, draw)
        apart(a) == {b \in seconds : Mask(a, draw) \cap Mask(b, draw) = {}}
        third(a, b) == BestWithin(BucketsLeft(a, b, draw), thirds, scoresOf, draw)
    IN  UNION {UNION {{<<a, b, c>> : c \in third(a, b)} : b \in apart(a)} :
                 a \in BestByMask(1, teams, scoresOf, draw)}

NoCardTwice(p) == p[1] \cap p[2] = {} /\ p[1] \cap p[3] = {} /\ p[2] \cap p[3] = {}

(* solve_random_bucket: the best plans of all rounds, if they are better    *)
(* than the current one.                                                    *)
BucketPlans(teams, scoresOf, current, draws) ==
    LET total(p) == scoresOf[p[1]][1] + scoresOf[p[2]][2] + scoresOf[p[3]][3]
        found == UNION {RoundPlans(teams, scoresOf, draws[n]) : n \in DOMAIN draws}
        better == {p \in found : total(p) > current /\ NoCardTwice(p)}
    IN  {p \in better : \A q \in better : total(q) <= total(p)}

(* What the random search may find. *)
SolveAtRandom(teams, scoresOf, floor) ==
    UNION {LET plans == BucketPlans(teams, scoresOf, floor, draws)
           IN  IF plans = {} THEN {None} ELSE {TotalScore(p, scoresOf) : p \in plans} : draws \in Draws}

(* solve_medley_auto *)
Solutions(teams, scoresOf, floor) ==
    IF Cardinality(teams) > ExactLimit
    THEN SolveAtRandom(teams, scoresOf, floor)
    ELSE {SolveExactly(CompatibleTeams(teams, scoresOf, floor + 1), scoresOf, floor)}

(* refresh_candidate_incumbent. *)
Refreshed(teams, scoresOf) ==
    LET kept == Promising(teams, scoresOf, incumbent)
        found == SolveExactly(kept, scoresOf, incumbent)
    IN  IF Cardinality(kept) \in 3 .. RefreshLimit /\ found # None THEN found ELSE incumbent

-----------------------------------------------------------------------------
(* The calculation.                                                        *)

(* prune_dominated_item_combinations. *)
UndominatedItems ==
    {i \in Items : ~ \E j \in Items \ {i} :
        /\ \A c \in deck : c.power[j] >= c.power[i]
        /\ (\E c \in deck : c.power[j] > c.power[i]) \/ j < i}

(* medley_same_team_item_score_upper_bound. *)
ItemUpper(i) == LET songs == SongUppers(deck, i) IN songs[1] + songs[2] + songs[3]

Idle ==
    /\ item = None /\ plan = None /\ incumbent = 0 /\ uppers = NoFloor /\ eligible = <<>>
    /\ modes = {} /\ mode = None /\ pool = {} /\ pools = {} /\ candidates = {} /\ refreshAt = RefreshAt
    /\ sampled = {}

InitSearch(decks) ==
    /\ deck \in decks
    /\ phase = "start"
    /\ bounds = <<>> /\ best = None
    /\ scores = AllScores(deck)
    /\ Idle

(* calculate_best_result_for_items. *)
Start ==
    /\ phase = "start"
    /\ IF Cardinality(deck) < TeamSize \/ Cardinality(Characters(deck)) < TeamSize
       THEN phase' = "done" /\ UNCHANGED bounds
       ELSE /\ bounds' = [i \in UndominatedItems |-> ItemUpper(i)]
            /\ phase' = IF Cardinality(deck) > SeedAbove THEN "seed" ELSE "item"
    /\ UNCHANGED <<deck, item, best, plan, incumbent, uppers, eligible, modes, mode, pool, pools,
                   candidates, refreshAt, sampled, scores>>

(* best_medley_seed_item_index and seed_medley_candidates_for_items. *)
Seed ==
    /\ phase = "seed"
    /\ LET highest == {i \in DOMAIN bounds : \A j \in DOMAIN bounds : bounds[j] <= bounds[i]}
       IN  /\ item' = Min(highest)
           /\ \E plans \in {IF Cardinality(deck) < 3 * TeamSize THEN {} ELSE SeedPlans(Min(highest))} :
                 IF plans = {} THEN plan' = None /\ phase' = "item"
                 ELSE plan' \in plans /\ phase' = "improve"
    /\ UNCHANGED <<deck, bounds, best, incumbent, uppers, eligible, modes, mode, pool, pools,
                   candidates, refreshAt, sampled, scores>>

(* A round of improve_seed_partition takes the best replacement; without a  *)
(* better one the plan is the first result.  The rounds are not counted.    *)
Improve ==
    /\ phase = "improve"
    /\ LET total(p) == TotalScore(p, scores[item])
           better == {p \in Replacements(plan) : total(p) > total(plan)}
       IN  IF better = {}
           THEN best' = total(plan) /\ plan' = None /\ phase' = "item"
           ELSE /\ plan' \in {p \in better : \A q \in better : total(q) <= total(p)}
                /\ UNCHANGED <<best, phase>>
    /\ UNCHANGED <<deck, bounds, item, incumbent, uppers, eligible, modes, mode, pool, pools,
                   candidates, refreshAt, sampled, scores>>

Without(f, x) == [y \in DOMAIN f \ {x} |-> f[y]]

(* medley_item_can_beat_incumbent. *)
ItemCanBeat(i) == BestScore <= 0 \/ bounds[i] >= BestScore

(* The next combination of items (calculate_medley_result_for_items), with  *)
(* the bounds of signature_candidate_pools.                                 *)
StartItem ==
    /\ phase = "item" /\ DOMAIN bounds # {}
    /\ LET i == Min(DOMAIN bounds)
           songs == SongUppers(deck, i)
       IN  /\ bounds' = Without(bounds, i)
           /\ IF ItemCanBeat(i)
              THEN /\ item' = i /\ incumbent' = BestScore /\ uppers' = songs
                   /\ eligible' = [c \in deck |-> EligibleSongs(c, deck, i, songs, BestScore)]
                   /\ modes' = SeedModes(deck)
                   /\ phase' = "modes"
              ELSE UNCHANGED <<item, incumbent, uppers, eligible, modes, phase>>
    /\ UNCHANGED <<deck, best, plan, mode, pool, pools, candidates, refreshAt, sampled, scores>>

(* The modes do not depend on each other; they are taken in any fixed order. *)
ModeNumber(m) ==
    (IF m.band = None THEN 0 ELSE m.band) * (Cardinality(Attributes) + 1)
      + (IF m.attribute = None THEN 0 ELSE m.attribute)

StartMode ==
    /\ phase = "modes" /\ modes # {}
    /\ mode' = CHOOSE m \in modes : \A n \in modes : ModeNumber(m) <= ModeNumber(n)
    /\ modes' = modes \ {mode'}
    /\ pool' = {c \in SameShape(deck, mode', item) :
                    /\ Song(1)!CanComplete(c, deck, mode')
                    /\ incumbent > 0 => CanBeat(c, deck, item, mode', uppers, incumbent)}
    /\ phase' = "passes"
    /\ UNCHANGED <<deck, bounds, item, best, plan, incumbent, uppers, eligible, pools,
                   candidates, refreshAt, sampled, scores>>

(* A pass over the pool; the last one drops nothing and the pool is kept if *)
(* it makes a team.                                                         *)
DropCovered ==
    /\ phase = "passes"
    /\ \E left \in {Pass(pool, mode, item, SongFloors(uppers, incumbent), eligible)} :
          IF left # pool
          THEN pool' = left /\ UNCHANGED <<phase, pools>>
          ELSE /\ pools' = IF Cardinality(left) >= TeamSize /\ Cardinality(Characters(left)) >= TeamSize
                           THEN pools \cup {[mode |-> mode, cards |-> left]} ELSE pools
               /\ pool' = {} /\ phase' = "modes"
    /\ UNCHANGED <<deck, bounds, item, best, plan, incumbent, uppers, eligible, modes, mode,
                   candidates, refreshAt, sampled, scores>>

(* candidate_capacity. *)
Capacity(cards) ==
    MapThenSumSet(LAMBDA H : FoldSet(LAMBDA h, n : n * Cardinality({c \in cards : c.character = h}), 1, H),
                  kSubset(TeamSize, Characters(cards)))

(* Pools with fewer teams come first, then those with fewer cards; pools    *)
(* alike come in the order of the cards, here in any fixed order.           *)
PoolBefore(p, q) ==
    LET teams == Capacity(p.cards) - Capacity(q.cards)
        cards == Cardinality(p.cards) - Cardinality(q.cards)
    IN  \/ teams < 0
        \/ teams = 0 /\ cards < 0
        \/ teams = 0 /\ cards = 0 /\ ModeNumber(p.mode) <= ModeNumber(q.mode)

(* One round of build_raw_team_candidates_internal, with the search for     *)
(* plans on the way (should_refresh_candidate_incumbent).                   *)
EnumeratePool ==
    /\ phase = "modes" /\ modes = {} /\ pools # {}
    /\ LET next == CHOOSE p \in pools : \A q \in pools : PoolBefore(p, q)
           found == PoolTeams(next.cards, item, next.mode, scores[item], CoarseUppers(deck, item), incumbent)
           teams == candidates \cup {team : team \in found}
           n == Cardinality(teams)
       IN  /\ pools' = pools \ {next}
           /\ candidates' = teams
           /\ IF incumbent > 0 /\ refreshAt # None /\ n >= refreshAt
              THEN incumbent' = Refreshed(teams, scores[item]) /\ refreshAt' = Max({2 * n, n + RefreshAt})
              ELSE UNCHANGED <<incumbent, refreshAt>>
    /\ UNCHANGED <<deck, phase, bounds, item, best, plan, uppers, eligible, modes, mode, pool, sampled, scores>>

(* calculate_medley_from_raw_candidates; a combination without candidates   *)
(* or without a plan as good as the best is passed over.                    *)
SolveItem ==
    /\ phase = "modes" /\ modes = {} /\ pools = {}
    /\ LET floor == BestScore - 1
           kept == Promising(candidates, scores[item], floor)
       IN  /\ \E found \in Solutions(kept, scores[item], floor) : best' = Higher(best, found)
           /\ sampled' = IF Cardinality(kept) > ExactLimit 
                         THEN sampled \cup {v : v \in Totals(candidates, scores[item])} ELSE sampled
    /\ phase' = "item"
    /\ candidates' = {} /\ item' = None /\ incumbent' = 0 /\ uppers' = NoFloor /\ eligible' = <<>>
    /\ mode' = None /\ refreshAt' = RefreshAt
    /\ UNCHANGED <<deck, bounds, plan, modes, pool, pools, scores>>

EndSearch ==
    /\ phase = "item" /\ DOMAIN bounds = {}
    /\ phase' = "done"
    /\ UNCHANGED <<deck, bounds, item, best, plan, incumbent, uppers, eligible, modes, mode, pool, pools,
                   candidates, refreshAt, sampled, scores>>

(* The steps that do not depend on what is searched for.                    *)
BuildPools == StartMode \/ DropCovered \/ EnumeratePool \/ EndSearch

FindTotals == Start \/ Seed \/ Improve \/ StartItem \/ SolveItem

NextSearch == BuildPools \/ FindTotals

-----------------------------------------------------------------------------
(* A team that may still become a candidate for the combination at hand.    *)
OpenTeam(team) ==
    LET kind == KindOf(team)
    IN  \/ team \in candidates
        \/ kind \in modes
        \/ mode = kind /\ phase = "passes" /\ team \subseteq pool
        \/ \E p \in pools : p.mode = kind /\ team \subseteq p.cards

InSearch(i) ==
    IF \/ phase = "start" \/ i \in DOMAIN bounds
       \/ phase \in {"seed", "improve"} /\ i = item
    THEN DOMAIN scores[i]
    ELSE IF phase \in {"modes", "passes"} /\ i = item THEN {t \in DOMAIN scores[i] : OpenTeam(t)}
    ELSE {}

OpenTotals == sampled \cup UNION {Totals(InSearch(i), scores[i]) : i \in Items}

InitMedley ==
    /\ InitSearch(Decks)
    /\ possible = UNION {Totals(DOMAIN scores[i], scores[i]) : i \in Items}
    /\ open = possible

NextMedley == NextSearch /\ open' = OpenTotals' /\ UNCHANGED possible

medleyVars == <<searchVars, possible, open>>

MedleySpec == InitMedley /\ [][NextMedley]_medleyVars

-----------------------------------------------------------------------------
(* Properties.                                                             *)

Promise == INSTANCE Optimum

(* At every step, whatever the dropping of cards and teams, the bounds, the *)
(* first plan and the plans found on the way pass over is no better than    *)
(* what is still in the search or the best plan (Optimum).                  *)
ImplementsOptimum == Promise!Spec

(* A calculation shows the total of a plan, and no three teams without a    *)
(* common card have a higher one, unless the solver saw only some plans of  *)
(* a combination: then it may have missed one of those that are open.  It   *)
(* shows nothing only if there are no such teams; a calculation for points  *)
(* also when no three of the greedy teams are without a common card         *)
(* (EventMedley).                                                           *)
FindsBestMedley ==
    /\ phase = "done" =>
        /\ best # None => best \in possible
        /\ \A v \in possible : \/ best # None /\ v <= best
                               \/ \E w \in open : v <= w
    /\ phase = "failed" /\ possible # {} => SeedPlans(item) = {}

(* A first plan only makes the search faster, its correctness does not rest *)
(* on it (docs/pt-maximize-design-draft.md): a calculation fails only if    *)
(* there are no three teams without a common card.                          *)
FailsOnlyWithoutPlan == phase = "failed" => possible = {}

=============================================================================
