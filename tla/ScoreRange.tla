----------------------------- MODULE ScoreRange ------------------------------
(***************************************************************************)
(* The search for teams and songs whose plays give an exact number of      *)
(* event points (crates/core/src/score_range, with the preparation of      *)
(* crates/data/src/score_range.rs).                                        *)
(*                                                                         *)
(* The points still missing can be made of plays of one song or of two.    *)
(* The search goes through the layers of plans, best first.  For a layer   *)
(* it goes through the modes of teams, the skills that all five cards of a *)
(* team may share (buckets: the order of the skills then has no effect),   *)
(* and the area items.  For given items it needs a team whose power lies   *)
(* in the intervals in which songs give the points of the layer; it joins  *)
(* three cards with two.  Bounds leave out layers, modes, buckets and      *)
(* items; batches of items that differ in one target share the pairs and   *)
(* the teams that the target does not touch.  The first layer that has a   *)
(* team is the answer.                                                     *)
(*                                                                         *)
(* Powers are integers; the order in which the game adds the cards of a    *)
(* team changes the sum by at most Slack (TeamPower::groups).  A note has  *)
(* the power times the factor of the song divided by Den, then times the   *)
(* skill divided by UpUnit, rounded down after each.  Left out: overflows, *)
(* the memory of power bounds (ScoreLowerBoundCache, PointStatIndex), and  *)
(* traces.                                                                 *)
(***************************************************************************)
EXTENDS TeamModes, EventPoints, Sequences

CONSTANTS Cases,        \* requests with cards, items and songs, by number
          ChartDurations,  \* of skills for which charts have templates
          Magazines,    \* in the order of the search
          Forever,      \* PERMANENT_CLOSE_SENTINEL_MIN_MILLIS
          Den, UpUnit, RateStep, RateCap, OptimisticCap,
          Slack, MaxPower

ASSUME BoundAssumption ==
    /\ {Den, UpUnit, RateStep} \subseteq Nat \ {0}
    /\ {RateCap, OptimisticCap, Slack, MaxPower} \subseteq Nat
    /\ OptimisticCap >= RateCap
    /\ TeamSize = 5                       \* three cards and two
    /\ Magazines \subseteq Nat
    /\ ChartDurations # {}
    /\ \A e \in Events : Rule[e].fixed > 0

(* What the profile and the game data of a request are: cards, songs with  *)
(* their notes under the skills, and area items with their gains.          *)
IsCard(c) ==
    /\ {c.power, c.bonus, c.usual} \subseteq Nat /\ c.unified \in Nat \cup {None}
    /\ c.magazine \in [Magazines -> Nat]

IsSong(s) ==
    /\ s.id \in Nat /\ s.factor \in Nat
    /\ s.notes # <<>> => \A d \in ChartDurations :
                            s.notes[d].inactive \in Nat /\ s.notes[d].active \in Seq(Nat)

IsItems(i, gain) ==
    /\ i \in [band : SUBSET Bands, attribute : SUBSET Attributes, magazine : Magazines]
    /\ gain.band[i.band] \in Nat /\ gain.attribute[i.attribute] \in Nat

IsRequest(r) ==
    /\ IsFiniteSet(r.cards) /\ \A c \in r.cards : IsCard(c)
    /\ IsFiniteSet(r.songs) /\ \A s \in r.songs : IsSong(s)
    /\ \A s, t \in r.songs : s.id = t.id => s = t
    /\ IsFiniteSet(r.items) /\ \A i \in r.items : IsItems(i, r.gain)
    /\ r.event \in Events /\ r.support \in Nat \cup {None}
    /\ r.current \in Int /\ r.wanted \in Int

ASSUME RequestAssumption == \A k \in DOMAIN Cases : IsRequest(Cases[k])

VARIABLES in,           \* the request (never changes)
          phase,        \* start, layers, modes, buckets, items, inner, done or error
          songs,        \* the songs that are available
          range,        \* bounds of the points of one play: theory, min, max
          layersLeft, layer, modesLeft, mode, bucketsLeft, bucket,
          itemsLeft,    \* work of the bucket: contexts of items and batches of them
          batch,        \* the batch in progress: its items, base candidates
          intervals,    \* SkillSearchContext.intervals, by skill and bonus
          candidates, result

rangeVars == <<in, phase, songs, range, layersLeft, layer, modesLeft, mode, bucketsLeft, bucket,
               itemsLeft, batch, intervals, candidates, result>>

-----------------------------------------------------------------------------
(* Cards, items and powers.                                                *)

(* Items are a set of bands, a set of attributes and a magazine, each with *)
(* a gain for the cards it fits.                                           *)
PowerOf(c, i) ==
    c.power + c.magazine[i.magazine]
    + (IF c.band \in i.band THEN in.gain.band[i.band] ELSE 0)
    + (IF c.attribute \in i.attribute THEN in.gain.attribute[i.attribute] ELSE 0)

Sum(cards, i) == MapThenSumSet(LAMBDA c : PowerOf(c, i), cards)

(* linear_power_lower, linear_power_upper *)
Lower(power) == IF power < Slack THEN 0 ELSE power - Slack
Upper(power) == power + Slack

(* The powers a team has in the orders of its cards. *)
Powers(team, i) ==
    LET sum == Sum(team, i)
    IN  IF Cardinality({c.rounding : c \in team}) = 1 THEN {sum}
        ELSE {Lower(sum), sum, Upper(sum)}

Bonus(cards) == MapThenSumSet(LAMBDA c : c.bonus, cards)

(* TargetGroup and ModeItemGroupKey: what items do to the teams of a mode. *)
Target(key, all, value) ==
    IF key = all THEN "all"
    ELSE IF Cardinality(key) > 1 THEN key
    ELSE IF value \in key THEN "hit" ELSE "miss"

ItemKey(m, i) ==
    <<IF m.band = None THEN i.band ELSE Target(i.band, Bands, m.band),
      IF m.attribute = None THEN i.attribute ELSE Target(i.attribute, Attributes, m.attribute),
      i.magazine>>

(* group_items_by_mode: one combination for each effect, which is left open. *)
ItemGroups(m) ==
    {CHOOSE i \in in.items : ItemKey(m, i) = key : key \in {ItemKey(m, i) : i \in in.items}}

(* signature_modes *)
SearchModes ==
    LET bands == {c.band : c \in in.cards}
        attributes == {c.attribute : c \in in.cards}
    IN  [band : bands \cup {None}, attribute : attributes \cup {None}]

ModeRank(m) == Cardinality({m.band, m.attribute} \ {None})

(* The skills of a mode, and the cards that have one (skill_buckets_for_mode). *)
SkillOf(c, m) == [duration |-> c.duration, up |-> ScoreUp(c, m), rateup |-> c.rateup]

BucketCards(m, skill) == {c \in Allowed(in.cards, m) : SkillOf(c, m) = skill}

Buckets(m) ==
    {skill \in {SkillOf(c, m) : c \in Allowed(in.cards, m)} :
        Cardinality(Characters(BucketCards(m, skill))) >= TeamSize}

BucketBefore(k, l) ==
    \/ k.up > l.up
    \/ k.up = l.up /\ k.duration > l.duration
    \/ k.up = l.up /\ k.duration = l.duration /\ k.rateup /\ ~l.rateup

-----------------------------------------------------------------------------
(* Songs and scores.                                                       *)

(* is_score_range_song_available and difficulty_is_published (a special     *)
(* chart may have a date of its own); a chart that has not six skills has   *)
(* no templates and is not searched.                                        *)
AvailableSongs ==
    {s \in in.songs : /\ s.published # None /\ s.published <= in.now
                      /\ s.closed # None => s.closed >= Forever
                      /\ s.dated => s.opened # None /\ s.opened <= in.now
                      /\ s.notes # <<>>}

Notes(s, duration) ==
    LET n == s.notes[duration]
    IN  n.inactive + MapThenSumSet(LAMBDA k : n.active[k], DOMAIN n.active)

(* CompressedAutoScore::from_score_range_counts and score: a rising skill  *)
(* gains RateStep with every note.                                         *)
Score(s, skill, power) ==
    LET first == (power * s.factor) \div Den
        n == s.notes[skill.duration]
        note(up) == (first * (UpUnit + up)) \div UpUnit
        risen(j) == Min({skill.up + j * RateStep, RateCap})
        window(k) == IF skill.rateup /\ skill.up <= RateCap
                     THEN MapThenSumSet(LAMBDA j : note(risen(j)), 1 .. n.active[k])
                     ELSE n.active[k] * note(skill.up)
    IN  n.inactive * first + MapThenSumSet(window, DOMAIN n.active)

Points(score, bonus) == PointsFor(in.event, score, bonus, in.support)

(* ensure_non_rateup_bound_templates, ensure_safe_non_rateup_song_templates: *)
(* a song is not used where its notes are too close to the end of a skill  *)
(* or skills queue.                                                        *)
TemplateSongs(duration) == IF duration \in ChartDurations THEN songs ELSE {}

SafeSongs(duration) ==
    {s \in TemplateSongs(duration) : ~s.notes[duration].tail /\ ~s.notes[duration].queue}

(* lower_bound_power: the first power with at least a score, or None. *)
LowerBoundPower(s, skill, score) ==
    IF Score(s, skill, MaxPower) < score THEN None
    ELSE CHOOSE p \in 0 .. MaxPower :
            /\ Score(s, skill, p) >= score
            /\ p > 0 => Score(s, skill, p - 1) < score

(* The powers at which a song gives points, an interval or Never. *)
PowersBetween(min, next) ==
    LET max == IF next = None THEN MaxPower ELSE next - 1
    IN  IF min = None THEN Never
        ELSE IF min > max THEN Never
        ELSE [min |-> min, max |-> max]

PowersFor(s, skill, scores) ==
    IF scores = Never THEN Never
    ELSE PowersBetween(LowerBoundPower(s, skill, scores.min),
                       LowerBoundPower(s, skill, scores.max + 1))

PowerInterval(s, skill, points, bonus) ==
    PowersFor(s, skill, ScoreInterval(in.event, points, bonus, in.support))

(* merge_stat_ranges: the runs of a set of powers. *)
Runs(powers) ==
    {[min |-> p, max |-> CHOOSE q \in powers : /\ p .. q \subseteq powers
                                               /\ q + 1 \notin powers /\ q >= p] :
        p \in {q \in powers : q - 1 \notin powers}}

Span(interval) == interval.min .. interval.max

(* build_single_valid_intervals *)
SingleIntervals(skill, points, bonus) ==
    {[min |-> w.powers.min, max |-> w.powers.max,
      song |-> w.song, left |-> points, right |-> 0, plan |-> NoPlan] :
        w \in {v \in {[song |-> s.id, powers |-> PowerInterval(s, skill, points, bonus)] :
                       s \in SafeSongs(skill.duration)} : v.powers # Never}}

(* ensure_point_stat_indexes, intersect_stat_ranges: the powers at which   *)
(* some song gives the points of the left and some other those of the right. *)
PointPowers(skill, points, bonus) ==
    UNION {Span(powers) :
             powers \in {PowerInterval(s, skill, points, bonus) : s \in SafeSongs(skill.duration)}
                        \ {Never}}

PlanIntervals(skill, plan, bonus) ==
    {[min |-> r.min, max |-> r.max, song |-> 0, left |-> plan.left, right |-> plan.right, plan |-> plan] :
        r \in Runs(PointPowers(skill, plan.left, bonus) \cap PointPowers(skill, plan.right, bonus))}

(* build_layer_intervals *)
LayerIntervals(l, skill, bonus) ==
    IF l.points > 0 THEN SingleIntervals(skill, l.points, bonus)
    ELSE UNION {PlanIntervals(skill, p, bonus) : p \in l.plans}

(* ValidIntervalSet.ranked: by song, or by the points of the plan. *)
RankedBefore(i, j) ==
    \/ i.song < j.song
    \/ i.song = j.song /\ i.right > j.right
    \/ i.song = j.song /\ i.right = j.right /\ i.left > j.left
    \/ i.song = j.song /\ i.right = j.right /\ i.left = j.left /\ i.min < j.min

-----------------------------------------------------------------------------
(* Bounds of the points of one play.                                       *)

SumOfMost(values, characters) ==
    Max({MapThenSumSet(LAMBDA ch : values[ch], chosen) : chosen \in kSubset(TeamSize, characters)})

SumOfLeast(values, characters) ==
    Min({MapThenSumSet(LAMBDA ch : values[ch], chosen) : chosen \in kSubset(TeamSize, characters)})

NoTeam == [minPower |-> 0, maxPower |-> 0, minBonus |-> 0, maxBonus |-> 0]

(* team_bounds *)
TeamBounds(cards, items) ==
    LET characters == Characters(cards)
        of(ch) == {c \in cards : c.character = ch}
        powers(ch) == {PowerOf(c, i) : c \in of(ch), i \in items}
        bonuses(ch) == {c.bonus : c \in of(ch)}
    IN  IF Cardinality(characters) < TeamSize \/ items = {} THEN NoTeam
        ELSE [minPower |-> Lower(SumOfLeast([ch \in characters |-> Min(powers(ch))], characters)),
              maxPower |-> Upper(SumOfMost([ch \in characters |-> Max(powers(ch))], characters)),
              minBonus |-> BasisPoints(SumOfLeast([ch \in characters |-> Min(bonuses(ch))], characters)),
              maxBonus |-> BasisPoints(SumOfMost([ch \in characters |-> Max(bonuses(ch))], characters))]

LeastOr0(values) == IF values = {} THEN 0 ELSE Min(values)
MostOr0(values) == IF values = {} THEN 0 ELSE Max(values)

(* optimistic_auto_score_from_terms, pessimistic_auto_score_from_terms: all *)
(* notes have the highest skill, or none.                                  *)
OptimisticScore(s, power, up) ==
    LET d == CHOOSE e \in ChartDurations : TRUE
    IN  DivCeil(power * s.factor * (UpUnit + up) * Notes(s, d), Den * UpUnit)

PessimisticScore(s, power) ==
    LET d == CHOOSE e \in ChartDurations : TRUE
    IN  Max({0, (power * s.factor * Notes(s, d)) \div Den - 2 * Notes(s, d)})

(* Only songs that no other song bounds are looked at (the frontiers).     *)
UpperFrontier ==
    LET d == CHOOSE e \in ChartDurations : TRUE
    IN  {s \in songs : ~ \E t \in songs : \/ t.factor >= s.factor /\ Notes(t, d) > Notes(s, d)
                                          \/ t.factor > s.factor /\ Notes(t, d) >= Notes(s, d)}

LowerFrontier ==
    LET d == CHOOSE e \in ChartDurations : TRUE
    IN  {s \in songs : ~ \E t \in songs : \/ t.factor <= s.factor /\ Notes(t, d) < Notes(s, d)
                                          \/ t.factor < s.factor /\ Notes(t, d) <= Notes(s, d)}

OptimisticUp(skill) == IF skill.rateup THEN Max({skill.up, OptimisticCap}) ELSE skill.up

GlobalUp ==
    Max({OptimisticCap} \cup {c.usual : c \in in.cards}
                        \cup ({c.unified : c \in in.cards} \ {None}))

CoarseBounds(bounds, up) ==
    [min |-> Points(LeastOr0({PessimisticScore(s, bounds.minPower) : s \in LowerFrontier}),
                    bounds.minBonus),
     max |-> Points(MostOr0({OptimisticScore(s, bounds.maxPower, up) : s \in UpperFrontier}),
                    bounds.maxBonus)]

(* The bounds of search_raw_domain: theory is what a score of 0 gives. *)
GlobalRange ==
    LET global == CoarseBounds(TeamBounds(in.cards, in.items), GlobalUp)
    IN  [theory |-> Points(0, 0), min |-> Max({Points(0, 0), global.min}), max |-> global.max]

BucketBounds(m, skill) == TeamBounds(BucketCards(m, skill), ItemGroups(m))

BucketCoarse(m, skill) == CoarseBounds(BucketBounds(m, skill), OptimisticUp(skill))

(* prepare_mode *)
ModeCoarse(m) ==
    [min |-> LeastOr0({BucketCoarse(m, k).min : k \in Buckets(m)}),
     max |-> MostOr0({BucketCoarse(m, k).max : k \in Buckets(m)})]

(* With the charts: first all songs as if the skill did not rise, then the *)
(* safe songs.                                                             *)
ScoreBounds(bounds, used, low, high) ==
    [min |-> Points(LeastOr0({Score(s, low, bounds.minPower) : s \in used}), bounds.minBonus),
     max |-> Points(MostOr0({Score(s, high, bounds.maxPower) : s \in used}), bounds.maxBonus)]

TemplateBounds(m, skill) ==
    LET level(up) == [duration |-> skill.duration, up |-> up, rateup |-> FALSE]
    IN  ScoreBounds(BucketBounds(m, skill), TemplateSongs(skill.duration),
                    level(skill.up), level(OptimisticUp(skill)))

SafeBounds(m, skill) ==
    ScoreBounds(BucketBounds(m, skill), SafeSongs(skill.duration), skill, skill)


-----------------------------------------------------------------------------
(* Teams for given items: three cards and two.                             *)

Pairs(cards) == Lineups(2, cards)

PairBonuses(cards) == {Bonus(p) : p \in Pairs(cards)}

PairSums(cards, i, bonus) == {Sum(p, i) : p \in {q \in Pairs(cards) : Bonus(q) = bonus}}

(* The bonuses of teams, which intervals are needed for. *)
TeamBonuses(cards) ==
    {BasisPoints(Bonus(t) + b) : t \in kSubset(3, cards), b \in PairBonuses(cards)}

(* interval_cache: what is there stays. *)
WithIntervals(cached, skill, cards) ==
    [k \in DOMAIN cached \cup ({skill} \X TeamBonuses(cards)) |->
        IF k \in DOMAIN cached THEN cached[k] ELSE LayerIntervals(layer, skill, k[2])]

UnionRuns(set) == Runs(UNION {Span(j) : j \in set})

(* build_triple_stat_ranges: the sums of three cards that some pair could  *)
(* complete.                                                               *)
TripleRanges(cached, skill, cards, i, bonus) ==
    UNION {LET sums == PairSums(cards, i, b)
           IN  {[min |-> Lower(r.min) - Max(sums), end |-> Upper(r.max + 1) - Min(sums)] :
                  r \in UnionRuns(cached[<<skill, BasisPoints(bonus + b)>>])} :
           b \in PairBonuses(cards)}

(* Three cards by their bonuses, whatever their characters. *)
TripleKind(t) == [b \in {c.bonus : c \in t} |-> Cardinality({c \in t : c.bonus = b})]

(* item_context_may_match: no team exists if no kind of three cards has    *)
(* sums that meet a range.                                                 *)
MayMatch(cached, skill, cards, i) ==
    /\ Pairs(cards) # {}
    /\ LET triples == kSubset(3, cards)
       IN  \E kind \in {TripleKind(t) : t \in triples} :
             LET same == {t \in triples : TripleKind(t) = kind}
                 sums == {Sum(t, i) : t \in same}
             IN  \E r \in TripleRanges(cached, skill, cards, i, Bonus(CHOOSE t \in same : TRUE)) :
                    r.min <= Max(sums) /\ Min(sums) < r.end

(* matches_mode: the teams that no stricter mode has. *)
MatchesMode(m, team) ==
    LET oneBand == Cardinality({c.band : c \in team}) = 1
        oneAttribute == Cardinality({c.attribute : c \in team}) = 1
    IN  /\ m.band = None => ~oneBand
        /\ m.attribute = None => ~oneAttribute

(* recover_two_song_plan: the song that gives points with the highest score. *)
SongFor(skill, power, points, bonus) ==
    LET fit == {s \in SafeSongs(skill.duration) : Points(Score(s, skill, power), bonus) = points}
        before(s, t) == \/ Score(s, skill, power) > Score(t, skill, power)
                        \/ Score(s, skill, power) = Score(t, skill, power) /\ s.id < t.id
    IN  IF fit = {} THEN None ELSE CHOOSE s \in fit : \A t \in fit \ {s} : before(s, t)

Missing == in.wanted - in.current

PlaysOfSong(song, skill, power, points, units) ==
    PlaysForUnits(song.id, Score(song, skill, power), points, units)

PlaysOfOne(song, skill, power, bonus, points) ==
    IF Points(Score(song, skill, power), bonus) = points
    THEN PlaysOfSong(song, skill, power, points, Missing \div points)
    ELSE {}

PlaysOfTwo(left, right, skill, power, plan) ==
    IF None \in {left, right} THEN {}
    ELSE PlaysOfSong(left, skill, power, plan.left, plan.leftUnits)
         \cup PlaysOfSong(right, skill, power, plan.right, plan.rightUnits)

PlaysOf(skill, power, bonus, interval) ==
    IF interval.plan = NoPlan
    THEN PlaysOfOne(CHOOSE s \in songs : s.id = interval.song, skill, power, bonus, interval.left)
    ELSE PlaysOfTwo(SongFor(skill, power, interval.left, bonus),
                    SongFor(skill, power, interval.right, bonus), skill, power, interval.plan)

(* What candidate_from_pair_records makes of a team: the first interval    *)
(* with one of its powers decides, the highest of these powers counts.     *)
CandidateOf(cached, m, skill, team, i) ==
    LET bonus == BasisPoints(Bonus(team))
        hits == {j \in cached[<<skill, bonus>>] : Powers(team, i) \cap Span(j) # {}}
        first == CHOOSE j \in hits : \A k \in hits \ {j} : RankedBefore(j, k)
        power == Max(Powers(team, i) \cap Span(first))
        plays == PlaysOf(skill, power, bonus, first)
    IN  IF hits = {} \/ ~MatchesMode(m, team) THEN None
        ELSE IF plays = {} THEN None
        ELSE [team |-> team, items |-> i, skill |-> skill, bonus |-> bonus, power |-> power,
              plays |-> plays]

(* search_triple_candidate: one team for three cards, the bonus of the     *)
(* pair and a run of powers: the pair that adds most, one that the items   *)
(* do not change before the others.                                        *)
MostPower(pairs, i) == CHOOSE p \in pairs : \A q \in pairs : Sum(q, i) <= Sum(p, i)

PairAmong(fitting, i, changed) ==
    LET old == {p \in fitting : p \cap changed = {}}
    IN  IF fitting = {} THEN {} ELSE MostPower(IF old # {} THEN old ELSE fitting, i)

PairFor(cached, m, skill, cards, i, triple, bonus, run, changed) ==
    LET sum == Sum(triple, i)
        fits(p) == /\ Bonus(p) = bonus
                   /\ Characters(p) \cap Characters(triple) = {}
                   /\ Lower(run.min) - sum <= Sum(p, i) /\ Sum(p, i) < Upper(run.max + 1) - sum
                   /\ CandidateOf(cached, m, skill, p \cup triple, i) # None
    IN  PairAmong({p \in Pairs(cards) : fits(p)}, i, changed)

(* enumerate_item_context: the candidates, if nothing stopped the search.  *)
(* must: only triples with a card that the items change are tried.         *)
Found(cached, m, skill, cards, i, changed, must) ==
    LET tried == {t \in Lineups(3, cards) :
                    /\ must => t \cap changed # {}
                    /\ \E r \in TripleRanges(cached, skill, cards, i, Bonus(t)) :
                          r.min <= Sum(t, i) /\ Sum(t, i) < r.end}
        runs(t, b) == UnionRuns(cached[<<skill, BasisPoints(Bonus(t) + b)>>])
        completed(t, b) == {t \cup PairFor(cached, m, skill, cards, i, t, b, run, changed) :
                               run \in runs(t, b)}
        teams == UNION {completed(t, b) : t \in tried, b \in PairBonuses(cards)}
    IN  {CandidateOf(cached, m, skill, team, i) : team \in {t \in teams : Cardinality(t) = TeamSize}}

(* CandidateKey: one candidate is kept for each, which is left open. *)
KeyOf(c) == <<c.skill, c.bonus, c.power, {p.song : p \in c.plays}>>
Keys(found) == {KeyOf(c) : c \in found}
OnePerKey(found) == {CHOOSE c \in found : KeyOf(c) = key : key \in Keys(found)}

(* Candidates added to those there are, up to the limit. *)
Inserted(old, found) ==
    IF Cardinality(Keys(old \cup found)) < in.limit THEN {OnePerKey(old \cup found)}
    ELSE IF in.limit = 1 THEN {{c} : c \in found}
    ELSE {OnePerKey(old \cup some) : some \in
            {f \in SUBSET found : Cardinality(Keys(old \cup f)) = in.limit}}

LimitReached(found) == Cardinality(found) >= in.limit

(* resolve_cards_for_items, resolve_cards_for_batch: of cards that are     *)
(* alike under all the items, the one with the lowest number is used.      *)
Alike(c, d, items) ==
    /\ <<c.character, c.bonus, c.band, c.attribute, c.rounding>>
         = <<d.character, d.bonus, d.band, d.attribute, d.rounding>>
    /\ \A i \in items : PowerOf(c, i) = PowerOf(d, i)

Canonical(cards, items) ==
    {c \in cards : ~ \E d \in cards : d.id < c.id /\ Alike(c, d, items)}

-----------------------------------------------------------------------------
(* The search.                                                             *)

NoLayer == [objective |-> [plays |-> 0, fire |-> 0], points |-> 0, plans |-> {}]
NoBatch == [cards |-> {}, axis |-> "band", left |-> {}, can |-> FALSE, found |-> {}]

RangeStart ==
    /\ phase = "start" /\ songs = {} /\ range = [theory |-> 0, min |-> 0, max |-> 0]
    /\ layersLeft = {} /\ layer = NoLayer
    /\ modesLeft = {} /\ mode = Mixed
    /\ bucketsLeft = {} /\ bucket = None
    /\ itemsLeft = {} /\ batch = NoBatch
    /\ intervals = <<>> /\ candidates = {} /\ result = {}

RangeInit == (\E k \in DOMAIN Cases : in = Cases[k]) /\ RangeStart

(* search_score_range: requests that cannot be served. *)
Reject ==
    /\ phase = "start"
    /\ \/ Rule[in.event].supported /\ in.support = None
       \/ in.wanted < in.current
    /\ phase' = "error"
    /\ UNCHANGED <<in, songs, range, layersLeft, layer, modesLeft, mode, bucketsLeft, bucket,
                   itemsLeft, batch, intervals, candidates, result>>

NothingMissing ==
    /\ phase = "start" /\ in.wanted = in.current
    /\ Rule[in.event].supported => in.support # None
    /\ phase' = "done"
    /\ UNCHANGED <<in, songs, range, layersLeft, layer, modesLeft, mode, bucketsLeft, bucket,
                   itemsLeft, batch, intervals, candidates, result>>

Start ==
    /\ phase = "start" /\ in.wanted > in.current
    /\ Rule[in.event].supported => in.support # None
    /\ songs' = AvailableSongs
    /\ phase' = "bounds"
    /\ UNCHANGED <<in, range, layersLeft, layer, modesLeft, mode, bucketsLeft, bucket,
                   itemsLeft, batch, intervals, candidates, result>>

FindLayers ==
    /\ phase = "bounds"
    /\ range' = GlobalRange
    /\ layersLeft' = SearchLayers(Missing, range'.min, range'.max)
    /\ phase' = "layers"
    /\ UNCHANGED <<in, songs, layer, modesLeft, mode, bucketsLeft, bucket,
                   itemsLeft, batch, intervals, candidates, result>>

(* A plausible slip: the power intervals of the last layer are kept. *)
NextLayerKeepingIntervals ==
    /\ phase = "layers" /\ layersLeft # {}
    /\ layer' = FirstLayer(layersLeft)
    /\ layersLeft' = layersLeft \ {layer'}
    /\ candidates' = {}
    /\ IF /\ ContainsPointsIn(layer', [min |-> range.theory, max |-> range.max])
          /\ ContainsPointsIn(layer', range)
       THEN phase' = "modes" /\ modesLeft' = SearchModes
       ELSE UNCHANGED <<phase, modesLeft>>
    /\ UNCHANGED <<in, songs, range, mode, bucketsLeft, bucket, itemsLeft, batch, intervals, result>>

NextLayer ==
    /\ phase = "layers" /\ layersLeft # {}
    /\ layer' = FirstLayer(layersLeft)
    /\ layersLeft' = layersLeft \ {layer'}
    /\ intervals' = <<>> /\ candidates' = {}
    /\ IF /\ ContainsPointsIn(layer', [min |-> range.theory, max |-> range.max])
          /\ ContainsPointsIn(layer', range)
       THEN phase' = "modes" /\ modesLeft' = SearchModes
       ELSE UNCHANGED <<phase, modesLeft>>
    /\ UNCHANGED <<in, songs, range, mode, bucketsLeft, bucket, itemsLeft, batch, result>>

NoLayerLeft ==
    /\ phase = "layers" /\ layersLeft = {}
    /\ phase' = "done"
    /\ UNCHANGED <<in, songs, range, layersLeft, layer, modesLeft, mode, bucketsLeft, bucket,
                   itemsLeft, batch, intervals, candidates, result>>

(* Teams of both kinds of unity first, then of one, then mixed; the order   *)
(* of modes of a kind is left open.                                         *)
NextMode ==
    /\ phase = "modes" /\ modesLeft # {}
    /\ mode' = CHOOSE m \in modesLeft : \A n \in modesLeft : ModeRank(n) <= ModeRank(m)
    /\ modesLeft' = modesLeft \ {mode'}
    /\ IF ContainsPointsIn(layer, ModeCoarse(mode'))
       THEN phase' = "buckets" /\ bucketsLeft' = Buckets(mode')
       ELSE UNCHANGED <<phase, bucketsLeft>>
    /\ UNCHANGED <<in, songs, range, layersLeft, layer, bucket, itemsLeft, batch,
                   intervals, candidates, result>>

(* The end of a layer: its candidates are the answer. *)
EndLayer ==
    /\ phase = "modes" /\ modesLeft = {}
    /\ result' = candidates
    /\ phase' = IF candidates = {} THEN "layers" ELSE "done"
    /\ UNCHANGED <<in, songs, range, layersLeft, layer, modesLeft, mode, bucketsLeft, bucket,
                   itemsLeft, batch, intervals, candidates>>

(* Items with a target of one band and one attribute are searched in       *)
(* batches, along the axis with fewer targets; all others one by one.      *)
IsLocal(i) == Cardinality(i.band) = 1 /\ Cardinality(i.attribute) = 1

OuterAxis(items) ==
    IF Cardinality({i.band : i \in items}) <= Cardinality({i.attribute : i \in items})
    THEN "band" ELSE "attribute"

OuterKey(i, axis) == IF axis = "band" THEN i.band ELSE i.attribute

WorkOf(m) ==
    UNION {LET contexts == {i \in ItemGroups(m) : i.magazine = g}
               local == {i \in contexts : IsLocal(i)}
               axis == OuterAxis(local)
           IN  {[magazine |-> g, full |-> TRUE, axis |-> "band", items |-> {i}] : i \in contexts \ local}
               \cup {[magazine |-> g, full |-> FALSE, axis |-> axis,
                      items |-> {i \in local : OuterKey(i, axis) = key}] :
                        key \in {OuterKey(i, axis) : i \in local}} :
           g \in Magazines}

WorkRank(w) == 2 * w.magazine + (IF w.full THEN 0 ELSE 1)

NextWork == CHOOSE w \in itemsLeft : \A v \in itemsLeft : WorkRank(w) <= WorkRank(v)

NextBucket ==
    /\ phase = "buckets" /\ bucketsLeft # {}
    /\ bucket' = CHOOSE k \in bucketsLeft : \A l \in bucketsLeft \ {k} : BucketBefore(k, l)
    /\ bucketsLeft' = bucketsLeft \ {bucket'}
    /\ IF /\ ContainsPointsIn(layer, BucketCoarse(mode, bucket'))
          /\ ContainsPointsIn(layer, TemplateBounds(mode, bucket'))
          /\ SafeSongs(bucket'.duration) # {}
          /\ ContainsPointsIn(layer, SafeBounds(mode, bucket'))
       THEN phase' = "items" /\ itemsLeft' = WorkOf(mode)
       ELSE UNCHANGED <<phase, itemsLeft>>
    /\ UNCHANGED <<in, songs, range, layersLeft, layer, modesLeft, mode, batch,
                   intervals, candidates, result>>

EndMode ==
    /\ phase = "buckets" /\ bucketsLeft = {}
    /\ phase' = "modes"
    /\ UNCHANGED <<in, songs, range, layersLeft, layer, modesLeft, mode, bucketsLeft, bucket,
                   itemsLeft, batch, intervals, candidates, result>>

EndBucket ==
    /\ phase = "items" /\ itemsLeft = {}
    /\ phase' = "buckets"
    /\ UNCHANGED <<in, songs, range, layersLeft, layer, modesLeft, mode, bucketsLeft, bucket,
                   itemsLeft, batch, intervals, candidates, result>>

(* With enough candidates the search of the layer ends. *)
GoOn(where) ==
    IF LimitReached(candidates')
    THEN phase' = "modes" /\ modesLeft' = {} /\ batch' = NoBatch
    ELSE phase' = where /\ UNCHANGED modesLeft

(* enumerate_full_item_context *)
SearchFull ==
    /\ phase = "items" /\ itemsLeft # {} /\ NextWork.full
    /\ itemsLeft' = itemsLeft \ {NextWork}
    /\ LET i == CHOOSE j \in NextWork.items : TRUE
           cards == Canonical(BucketCards(mode, bucket), {i})
           cached == WithIntervals(intervals, bucket, cards)
       IN  IF Cardinality(cards) < TeamSize THEN UNCHANGED <<intervals, candidates>>
           ELSE /\ intervals' = cached
                /\ IF MayMatch(cached, bucket, cards, i)
                   THEN candidates' \in Inserted(candidates, Found(cached, mode, bucket, cards, i, {}, FALSE))
                   ELSE UNCHANGED candidates
    /\ batch' = NoBatch
    /\ GoOn("items")
    /\ UNCHANGED <<in, songs, range, layersLeft, layer, mode, bucketsLeft, bucket, result>>

(* enumerate_local_item_batch: first the items without the inner target,   *)
(* unless neither they nor any of the batch can match.                     *)
SearchBase ==
    /\ phase = "items" /\ itemsLeft # {} /\ ~NextWork.full
    /\ itemsLeft' = itemsLeft \ {NextWork}
    /\ LET some == CHOOSE j \in NextWork.items : TRUE
           i == IF NextWork.axis = "band" THEN [some EXCEPT !.attribute = {}]
                ELSE [some EXCEPT !.band = {}]
           cards == Canonical(BucketCards(mode, bucket), {i} \cup NextWork.items)
           cached == WithIntervals(intervals, bucket, cards)
           can == MayMatch(cached, bucket, cards, i)
       IN  IF Cardinality(cards) < TeamSize THEN UNCHANGED <<intervals, phase, batch>>
           ELSE /\ intervals' = cached
                /\ IF can \/ \E j \in NextWork.items : MayMatch(cached, bucket, cards, j)
                   THEN /\ phase' = "inner"
                        /\ \E found \in (IF can THEN Inserted({}, Found(cached, mode, bucket, cards, i, {}, FALSE))
                                         ELSE {{}}) :
                             batch' = [cards |-> cards, axis |-> NextWork.axis,
                                       left |-> NextWork.items, can |-> can, found |-> found]
                   ELSE UNCHANGED <<phase, batch>>
    /\ UNCHANGED <<in, songs, range, layersLeft, layer, modesLeft, mode, bucketsLeft, bucket,
                   candidates, result>>

(* The cards that the inner target of items changes. *)
Changed(cards, i, axis) ==
    {c \in cards : IF axis = "band" THEN c.attribute \in i.attribute ELSE c.band \in i.band}

(* A plausible slip: a base team is reused whatever the items change. *)
SearchInnerReusingAll ==
    /\ phase = "inner" /\ batch.left # {}
    /\ LET i == CHOOSE j \in batch.left : TRUE
           reused == CHOOSE c \in batch.found : TRUE
       IN  /\ IF batch.found # {}
              THEN candidates' = OnePerKey(candidates \cup {[reused EXCEPT !.items = i]})
              ELSE IF MayMatch(intervals, bucket, batch.cards, i)
              THEN candidates' \in Inserted(candidates, Found(intervals, mode, bucket, batch.cards, i, {}, FALSE))
              ELSE UNCHANGED candidates
           /\ IF LimitReached(candidates') THEN GoOn("inner")
              ELSE batch' = [batch EXCEPT !.left = @ \ {i}] /\ GoOn("inner")
    /\ UNCHANGED <<in, songs, range, layersLeft, layer, mode, bucketsLeft, bucket, itemsLeft,
                   intervals, result>>

SearchInner ==
    /\ phase = "inner" /\ batch.left # {}
    /\ LET i == CHOOSE j \in batch.left : TRUE
           changed == Changed(batch.cards, i, batch.axis)
           reusable == {c \in batch.found : c.team \cap changed = {}}
           reused == CHOOSE c \in reusable : TRUE
       IN  /\ IF reusable # {}
              THEN candidates' = OnePerKey(candidates \cup {[reused EXCEPT !.items = i]})
              ELSE IF MayMatch(intervals, bucket, batch.cards, i)
              THEN candidates' \in Inserted(candidates, Found(intervals, mode, bucket, batch.cards, i,
                                                           changed, batch.found = {}))
              ELSE UNCHANGED candidates
           /\ IF LimitReached(candidates') THEN GoOn("inner")
              ELSE batch' = [batch EXCEPT !.left = @ \ {i}] /\ GoOn("inner")
    /\ UNCHANGED <<in, songs, range, layersLeft, layer, mode, bucketsLeft, bucket, itemsLeft,
                   intervals, result>>

EndBatch ==
    /\ phase = "inner" /\ batch.left = {}
    /\ phase' = "items" /\ batch' = NoBatch
    /\ UNCHANGED <<in, songs, range, layersLeft, layer, modesLeft, mode, bucketsLeft, bucket,
                   itemsLeft, intervals, candidates, result>>

RangeNext ==
    \/ Reject \/ NothingMissing \/ Start \/ FindLayers
    \/ NextLayer \/ NoLayerLeft \/ NextMode \/ EndLayer \/ NextBucket \/ EndMode \/ EndBucket
    \/ SearchFull \/ SearchBase \/ SearchInner \/ EndBatch

RangeSpec == RangeInit /\ [][RangeNext]_rangeVars

-----------------------------------------------------------------------------
(* Properties.                                                             *)

(* Two songs, the first by any number of units and the second by the rest. *)
TwoSongObjectives(p, q) ==
    {Plus(ObjectiveForUnits(n), ObjectiveForUnits((Missing - n * p) \div q)) :
        n \in {k \in 1 .. (Missing \div p) : Missing > k * p /\ (Missing - k * p) % q = 0}}

(* The plays that a team makes the missing points of, by definition: the    *)
(* best objective with one song and any number of units, or with two songs *)
(* and any numbers.                                                        *)
ObjectivesOf(pointSet) ==
    {ObjectiveForUnits(Missing \div p) : p \in {q \in pointSet : q > 0 /\ Missing % q = 0}}
    \cup UNION {UNION {TwoSongObjectives(p, q) : q \in {r \in pointSet : r > p}} : p \in pointSet}

(* What the songs give, for every team whose cards share a skill, all area *)
(* items and all powers it can have.                                       *)
SharedSkill(team) == {SkillOf(c, KindOf(team)) : c \in team}

PointSets ==
    {LET skill == CHOOSE k \in SharedSkill(w[1]) : TRUE
     IN  {Points(Score(s, skill, w[2]), BasisPoints(Bonus(w[1]))) : s \in SafeSongs(skill.duration)} :
        w \in UNION {{team} \X UNION {Powers(team, i) : i \in in.items} :
                       team \in {t \in Teams(in.cards) : Cardinality(SharedSkill(t)) = 1}}}

(* The search finds a plan exactly if there is one, and no team, items and *)
(* songs have a better one: no bound, batch, reuse or limit loses it.      *)
FindsBestPlan ==
    phase = "done" /\ in.wanted > in.current =>
        LET objectives == UNION {ObjectivesOf(set) : set \in PointSets}
        IN  /\ result = {} <=> objectives = {}
            /\ \A c \in result : \A o \in objectives : ~Better(o, PlanObjective(c.plays))

(* Every plan that is returned gives exactly the missing points, with the  *)
(* scores its songs have at a power the team really has with the items it  *)
(* is returned with.                                                       *)
PlansAreExact ==
    \A c \in result :
        /\ Produced(c.plays) = Missing
        /\ c.items \in in.items /\ c.power \in Powers(c.team, c.items)
        /\ SharedSkill(c.team) = {c.skill}
        /\ \A p \in c.plays : \E s \in SafeSongs(c.skill.duration) :
              /\ s.id = p.song /\ p.score = Score(s, c.skill, c.power)
              /\ p.pt = p.fire * Points(p.score, BasisPoints(Bonus(c.team)))

=============================================================================
