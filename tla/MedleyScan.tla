------------------------------ MODULE MedleyScan ------------------------------
(***************************************************************************)
(* The exact searches for three teams, one per song of a medley, that      *)
(* share no card (crates/medley-solver: exact.rs, reuse_band.rs and        *)
(* reuse_max.rs).                                                          *)
(*                                                                         *)
(* The candidates of every song are sorted by their score in it.  Three    *)
(* nested loops walk the three orders and leave a loop as soon as the best *)
(* continuation falls below the floor.  Every plan found is handed to a    *)
(* visitor, which may raise the floor or stop the search: the search for   *)
(* the best plan raises it above the plan it was given, the search for     *)
(* event points to what a plan needs to match the points of the best one.  *)
(*                                                                         *)
(* There are two scanners, the plain loops and the one for AVX2 that       *)
(* collects what is compatible with the first team once and compares       *)
(* several masks at a time.  Here the plain one runs first and the other   *)
(* one then searches the same problem with a visitor that gives the same   *)
(* answers, so that what they report can be compared.                      *)
(*                                                                         *)
(* A mask is the set of its cards.  A range of sorted positions that the   *)
(* code keeps as its end is the set of the positions in it.  Scores are    *)
(* far from the limits of their types; saturation is left out.             *)
(***************************************************************************)
EXTENDS Integers, Sequences, FiniteSets

CONSTANTS Problems,  \* the inputs of the searches
          Floors,    \* what a visitor may raise the floor to
          Lanes      \* how many masks are compared at a time: 4

Songs == 1 .. 3

(* goal is "maximum" (best plan above current_best, floor is one more) or  *)
(* "band" (every plan from the floor on, enumerate_medley_band).           *)
ASSUME ProblemsAssumption ==
    \A p \in Problems :
        /\ p.goal \in {"maximum", "band"}
        /\ p.floor \in Int
        /\ IsFiniteSet(p.candidates) /\ p.candidates \subseteq Nat
        /\ p.score \in [p.candidates -> [Songs -> Int]]
        /\ DOMAIN p.cards = p.candidates

ASSUME FloorsAssumption == Floors \subseteq Int

ASSUME LanesAssumption == Lanes \in Nat \ {0}

VARIABLES
    problem,
    order,     \* the candidates of each song, best first
    kept,      \* the positions in these that can reach the floor
    song,      \* the songs of the three loops (song_order)
    scanner,   \* "plain" or "reuse"
    at,        \* which loop is next
    first,     \* the position in the first loop
    second,    \* the position in the second loop
    seconds,   \* the positions of the second loop that are still to come
    inSecond,  \* the positions that can reach the floor (second_end)
    third,     \* the position in the third loop
    thirds,    \* positions of the third loop compatible with the first team
    ahead,     \* the ones of them that are still to come
    inThird,   \* the positions that can reach the floor (end)
    batch,     \* the compatible ones among those just compared (lanes)
    counted,   \* positions of the second and the third loop counted as work
    floor,     \* no plan below it is wanted any more (final_floor)
    work,      \* pair_checks and third_checks
    log,       \* the plans handed to the visitor and its answers
    plain      \* what the plain scanner reported

input == <<problem, order, kept, song>>
loops == <<first, second, seconds, inSecond, third, thirds, ahead, inThird, batch, counted>>
report == <<floor, work, log>>
vars == <<input, scanner, at, loops, report, plain>>

-----------------------------------------------------------------------------
(* The candidates at the positions of the three loops.                     *)

At(x, m) == order[song[x]][m]
Score(x, m) == problem.score[At(x, m)][song[x]]
Top(x) == Score(x, 1)
Positions(x) == kept[song[x]]

Overlap(c, d) == problem.cards[c] \cap problem.cards[d] # {}

Total(a, b, c) == Score(1, a) + Score(2, b) + Score(3, c)

(* indices_by_song *)
Plan(a, b, c) ==
    [s \in Songs |-> IF s = song[1] THEN At(1, a)
                     ELSE IF s = song[2] THEN At(2, b) ELSE At(3, c)]

-----------------------------------------------------------------------------
(* prepare_search and prepare_band_search *)

(* The candidates of a song by score, the best first.  Only the search for *)
(* the maximum sorts equal scores by index.                                *)
Sorted(p, s) ==
    {q \in [1 .. Cardinality(p.candidates) -> p.candidates] :
        /\ \A m, n \in DOMAIN q : m < n =>
              \/ p.score[q[m]][s] > p.score[q[n]][s]
              \/ /\ p.score[q[m]][s] = p.score[q[n]][s]
                 /\ p.goal = "maximum" => q[m] < q[n]
        /\ \A c \in p.candidates : \E m \in DOMAIN q : \A n \in DOMAIN q : q[n] = c <=> n = m}

(* What a plan can score at most with the candidate at a position.         *)
Reachable(s, m) ==
    LET best(t) == IF t = s THEN problem.score[order[s][m]][s]
                            ELSE problem.score[order[t][1]][t]
    IN  best(1) + best(2) + best(3)

Permutations3 == {<<1, 2, 3>>, <<2, 1, 3>>, <<1, 3, 2>>,
                  <<3, 1, 2>>, <<2, 3, 1>>, <<3, 2, 1>>}

(* viable_pair_upper_bound: pairs that the outer two loops would look at.  *)
PairBound(p) ==
    Cardinality({ab \in kept[p[1]] \X kept[p[2]] :
        problem.score[order[p[1]][ab[1]]][p[1]]
          + problem.score[order[p[2]][ab[2]]][p[2]]
          + problem.score[order[p[3]][1]][p[3]] >= problem.floor})

(* min_by_key over (pairs, candidates of the innermost song, the songs).    *)
Cost(p) == <<PairBound(p), Cardinality(kept[p[3]]), 9 * p[1] + 3 * p[2] + p[3]>>

Cheaper(a, b) ==
    \/ a[1] < b[1]
    \/ a[1] = b[1] /\ a[2] < b[2]
    \/ a[1] = b[1] /\ a[2] = b[2] /\ a[3] < b[3]

SongOrders ==
    LET priced == {<<p, Cost(p)>> : p \in Permutations3}
    IN  {p[1] : p \in {q \in priced : \A r \in priced : ~Cheaper(r[2], q[2])}}

NoWork == [pairs |-> 0, thirds |-> 0]
NotCounted == [pairs |-> 0, thirds |-> 0]

Init ==
    /\ problem \in Problems
    /\ order \in Sorted(problem, 1) \X Sorted(problem, 2) \X Sorted(problem, 3)
    /\ kept = [s \in Songs |->
                 {m \in 1 .. Cardinality(problem.candidates) : Reachable(s, m) >= problem.floor}]
    /\ song \in SongOrders
    /\ scanner = "plain" /\ at = "first"
    /\ first = 1 /\ second = 1 /\ third = 1
    /\ seconds = {} /\ inSecond = {} /\ thirds = {} /\ ahead = {} /\ inThird = {}
    /\ batch = {} /\ counted = NotCounted
    /\ floor = problem.floor /\ work = NoWork /\ log = <<>>
    /\ plain = [floor |-> floor, work |-> NoWork, log |-> <<>>, at |-> "first"]

-----------------------------------------------------------------------------
(* The visitor                                                             *)

Answer == [stop : BOOLEAN, floor : Int]

(* In a band search behind the plain scanner it repeats what it said.      *)
Answers(score) ==
    IF problem.goal = "maximum" THEN {[stop |-> FALSE, floor |-> score + 1]}
    ELSE IF scanner = "reuse" /\ Len(log) < Len(plain.log)
      THEN {plain.log[Len(log) + 1].answer}
    ELSE [stop : {FALSE}, floor : Floors] \cup {[stop |-> TRUE, floor |-> floor]}

Raised(ans) == IF ~ans.stop /\ ans.floor > floor THEN ans.floor ELSE floor

(* apply_band_visit *)
Visit(c, ans) ==
    /\ log' = Append(log, [plan |-> Plan(first, second, c), answer |-> ans])
    /\ floor' = Raised(ans)

-----------------------------------------------------------------------------
(* The loop over the first team, the same for both scanners.               *)

FirstOver ==
    first \in Positions(1) => Score(1, first) + Top(2) + Top(3) < floor

Finish ==
    /\ at = "first" /\ FirstOver
    /\ at' = "finished"
    /\ UNCHANGED <<input, scanner, loops, report, plain>>

(* The plain scanner: enumerate_band_scalar and solve_scalar.              *)

PlainFirst ==
    /\ scanner = "plain" /\ at = "first" /\ ~FirstOver
    /\ at' = "second" /\ second' = 1
    /\ UNCHANGED <<input, scanner, first, seconds, inSecond, third, thirds, ahead,
                   inThird, batch, counted, report, plain>>

(* Mutant: a plan that scores just the floor is not looked for. *)
SecondOverEqual ==
    second \in Positions(2) => Score(1, first) + Score(2, second) + Top(3) <= floor

SecondOver ==
    second \in Positions(2) => Score(1, first) + Score(2, second) + Top(3) < floor

PlainSecondOver ==
    /\ scanner = "plain" /\ at = "second" /\ SecondOver
    /\ at' = "first" /\ first' = first + 1
    /\ UNCHANGED <<input, scanner, second, seconds, inSecond, third, thirds, ahead,
                   inThird, batch, counted, report, plain>>

PlainSecond ==
    /\ scanner = "plain" /\ at = "second" /\ ~SecondOver
    /\ work' = [work EXCEPT !.pairs = @ + 1]
    /\ IF Overlap(At(1, first), At(2, second))
         THEN second' = second + 1 /\ UNCHANGED <<at, third>>
         ELSE at' = "third" /\ third' = 1 /\ UNCHANGED second
    /\ UNCHANGED <<input, scanner, first, seconds, inSecond, thirds, ahead, inThird,
                   batch, counted, floor, log, plain>>

ThirdOver ==
    third \in Positions(3) => Total(first, second, third) < floor

PlainThirdOver ==
    /\ scanner = "plain" /\ at = "third" /\ ThirdOver
    /\ at' = "second" /\ second' = second + 1
    /\ UNCHANGED <<input, scanner, first, seconds, inSecond, third, thirds, ahead,
                   inThird, batch, counted, report, plain>>

Fits(c) == ~Overlap(At(1, first), At(3, c)) /\ ~Overlap(At(2, second), At(3, c))

PlainThirdSkipped ==
    /\ scanner = "plain" /\ at = "third" /\ ~ThirdOver /\ ~Fits(third)
    /\ third' = third + 1
    /\ work' = [work EXCEPT !.thirds = @ + 1]
    /\ UNCHANGED <<input, scanner, at, first, second, seconds, inSecond, thirds, ahead,
                   inThird, batch, counted, floor, log, plain>>

(* The search for the maximum leaves the loop at once: what follows is no  *)
(* better.                                                                 *)
PlainVisit ==
    /\ scanner = "plain" /\ at = "third" /\ ~ThirdOver /\ Fits(third)
    /\ \E ans \in Answers(Total(first, second, third)) :
          /\ Visit(third, ans)
          /\ at' = IF ans.stop THEN "stopped"
                   ELSE IF problem.goal = "maximum" THEN "second" ELSE "third"
          /\ IF ~ans.stop /\ problem.goal = "maximum"
               THEN second' = second + 1 /\ third' = third
               ELSE second' = second /\ third' = third + 1
    /\ work' = [work EXCEPT !.thirds = @ + 1]
    /\ UNCHANGED <<input, scanner, first, seconds, inSecond, thirds, ahead, inThird,
                   batch, counted, plain>>

-----------------------------------------------------------------------------
(* The scanner that reuses what fits the first team:                       *)
(* enumerate_prepared_parts.                                               *)

Smallest(S) == CHOOSE m \in S : \A n \in S : m <= n

(* Mutant: a plain subtraction. *)
BehindSigned(range, done) == Cardinality(range) - done

(* Saturating subtraction, as the counters use it.                         *)
Behind(range, done) == IF Cardinality(range) > done THEN Cardinality(range) - done ELSE 0

(* The second loop's range for a first team, for the floor as it is.       *)
SecondRange(a, range) == {b \in range : Score(1, a) + Score(2, b) + Top(3) >= floor}

(* Mutant: the floor itself does not count. *)
ThirdRangeAbove(b, range, low) == {c \in range : Total(first, b, c) > low}

(* shrink_end *)
ThirdRange(b, range, low) == {c \in range : Total(first, b, c) >= low}

ReuseFirst ==
    /\ scanner = "reuse" /\ at = "first" /\ ~FirstOver
    /\ inSecond' = SecondRange(first, inSecond)
    /\ seconds' = {b \in inSecond' : ~Overlap(At(1, first), At(2, b))}
    /\ inThird' = Positions(3)
    /\ thirds' = {} /\ ahead' = {}
    /\ counted' = [counted EXCEPT !.pairs = 0]
    /\ at' = "second"
    /\ UNCHANGED <<input, scanner, first, second, third, batch, report, plain>>

NextSecond == Smallest(seconds)

SecondsOver ==
    seconds # {} => Score(1, first) + Score(2, NextSecond) + Top(3) < floor

ReuseSecondOver ==
    /\ scanner = "reuse" /\ at = "second" /\ SecondsOver
    /\ inSecond' = SecondRange(first, inSecond)
    /\ work' = [work EXCEPT !.pairs = @ + Behind(inSecond', counted.pairs)]
    /\ first' = first + 1
    /\ at' = "first"
    /\ UNCHANGED <<input, scanner, second, seconds, third, thirds, ahead, inThird,
                   batch, counted, floor, log, plain>>

(* The first pair collects the list that fits the first team: it has the   *)
(* largest range.                                                          *)
ReuseSecond ==
    /\ scanner = "reuse" /\ at = "second" /\ ~SecondsOver
    /\ second' = NextSecond
    /\ seconds' = seconds \ {NextSecond}
    /\ work' = [work EXCEPT !.pairs = @ + NextSecond - counted.pairs]
    /\ counted' = [pairs |-> NextSecond, thirds |-> 0]
    /\ inThird' = ThirdRange(NextSecond, inThird, floor)
    /\ thirds' = IF counted.pairs # 0 THEN thirds
                 ELSE {c \in inThird' : ~Overlap(At(1, first), At(3, c))}
    /\ ahead' = thirds'
    /\ at' = "third"
    /\ UNCHANGED <<input, scanner, first, inSecond, third, batch, floor, log, plain>>

ReuseThirdOver ==
    /\ scanner = "reuse" /\ at = "third"
    /\ ahead \cap inThird = {}
    /\ work' = [work EXCEPT !.thirds = @ + Behind(inThird, counted.thirds)]
    /\ at' = "second"
    /\ UNCHANGED <<input, scanner, loops, floor, log, plain>>

(* The next masks of the list, whether or not they can reach the floor.    *)
NextLanes == {c \in ahead : Cardinality({d \in ahead : d < c}) < Lanes}

ReuseCompare ==
    /\ scanner = "reuse" /\ at = "third"
    /\ ahead \cap inThird # {}
    /\ ahead' = ahead \ NextLanes
    /\ batch' = {c \in NextLanes : ~Overlap(At(2, second), At(3, c))}
    /\ at' = "batch"
    /\ UNCHANGED <<input, scanner, first, second, seconds, inSecond, third, thirds,
                   inThird, counted, report, plain>>

ReuseBatchOver ==
    /\ scanner = "reuse" /\ at = "batch" /\ batch = {}
    /\ at' = "third"
    /\ UNCHANGED <<input, scanner, loops, report, plain>>

BelowFloor(c) == c \notin inThird


(* A plan of the same comparison raised the floor above this one.          *)
ReuseBatchBelow ==
    /\ scanner = "reuse" /\ at = "batch" /\ batch # {} /\ BelowFloor(Smallest(batch))
    /\ work' = [work EXCEPT !.thirds = @ + Behind(inThird, counted.thirds)]
    /\ batch' = {} /\ at' = "second"
    /\ UNCHANGED <<input, scanner, first, second, seconds, inSecond, third, thirds,
                   ahead, inThird, counted, floor, log, plain>>

ReuseVisit ==
    /\ scanner = "reuse" /\ at = "batch" /\ batch # {} /\ ~BelowFloor(Smallest(batch))
    /\ LET c == Smallest(batch)
       IN  /\ third' = c
           /\ work' = [work EXCEPT !.thirds = @ + c - counted.thirds]
           /\ counted' = [counted EXCEPT !.thirds = c]
           /\ batch' = batch \ {c}
           /\ \E ans \in Answers(Total(first, second, c)) :
                 /\ Visit(c, ans)
                 /\ at' = IF ans.stop THEN "stopped" ELSE "batch"
                 /\ inThird' = IF ans.stop THEN inThird
                               ELSE ThirdRange(second, inThird, Raised(ans))
    /\ UNCHANGED <<input, scanner, first, second, seconds, inSecond, thirds, ahead, plain>>

-----------------------------------------------------------------------------
(* The plain scanner is done; the other one searches the same problem.     *)
Again ==
    /\ scanner = "plain" /\ at \in {"finished", "stopped"}
    /\ plain' = [floor |-> floor, work |-> work, log |-> log, at |-> at]
    /\ scanner' = "reuse" /\ at' = "first"
    /\ first' = 1 /\ second' = 1 /\ third' = 1
    /\ inSecond' = Positions(2)
    /\ seconds' = {} /\ thirds' = {} /\ ahead' = {} /\ inThird' = {} /\ batch' = {}
    /\ counted' = NotCounted
    /\ floor' = problem.floor /\ work' = NoWork /\ log' = <<>>
    /\ UNCHANGED input

(* Wide masks, and masks compared four at a time in the order of their      *)
(* positions, give the same steps (enumerate_band_wide_avx2_impl).          *)
PlainScan ==
    \/ PlainFirst \/ PlainSecondOver \/ PlainSecond
    \/ PlainThirdOver \/ PlainThirdSkipped \/ PlainVisit

(* enumerate_reuse_narrow and enumerate_reuse_wide differ in their masks.   *)
ReuseScan ==
    \/ ReuseFirst \/ ReuseSecondOver \/ ReuseSecond \/ ReuseThirdOver
    \/ ReuseCompare \/ ReuseBatchOver \/ ReuseBatchBelow \/ ReuseVisit

Next == Finish \/ PlainScan \/ Again \/ ReuseScan

Spec == Init /\ [][Next]_vars

-----------------------------------------------------------------------------
(* Properties *)

Candidates == problem.candidates
Plans == [Songs -> Candidates]
Compatible(p) == \A s, t \in Songs : s # t => ~Overlap(p[s], p[t])
Value(p) == problem.score[p[1]][1] + problem.score[p[2]][2] + problem.score[p[3]][3]
Visited(p) == \E n \in DOMAIN log : log[n].plan = p

TypeOK ==
    /\ order \in [Songs -> [1 .. Cardinality(Candidates) -> Candidates]]
    /\ kept \in [Songs -> SUBSET (1 .. Cardinality(Candidates))]
    /\ song \in Permutations3
    /\ scanner \in {"plain", "reuse"}
    /\ at \in {"first", "second", "third", "batch", "finished", "stopped"}
    /\ first \in Nat /\ second \in Nat /\ third \in Nat
    /\ inSecond \subseteq Positions(2) /\ seconds \subseteq Positions(2)
    /\ inThird \subseteq Positions(3) /\ thirds \subseteq Positions(3)
    /\ ahead \subseteq thirds /\ batch \subseteq thirds
    /\ counted \in [pairs : Nat, thirds : Nat]
    /\ floor \in Int
    /\ work \in [pairs : Nat, thirds : Nat]
    /\ log \in Seq([plan : Plans, answer : Answer])
    /\ plain.log \in Seq([plan : Plans, answer : Answer])

(* A search that was not stopped has handed over every plan of teams that  *)
(* share no card and that reaches the floor the search ended with: neither *)
(* the bounds, nor the lists that are reused, nor a floor that rises in    *)
(* the middle of a comparison hide one ("Enumerates every mutually-        *)
(* disjoint three-team plan whose additive score is at least the current   *)
(* floor", lib.rs).                                                        *)
Complete ==
    at = "finished" =>
        \A p \in Plans : Compatible(p) /\ Value(p) >= floor => Visited(p)

(* The last plan that the search for the maximum reports is the best there *)
(* is; it reports none only if none is better than current_best.           *)
MaximumFound ==
    at = "finished" /\ problem.goal = "maximum" =>
        \A p \in Plans : Compatible(p) =>
            IF log = <<>> THEN Value(p) < problem.floor
                          ELSE Value(p) <= Value(log[Len(log)].plan)

(* The scan is exact: what it is to enumerate and what it is to maximise.   *)
ScanExact == Complete /\ MaximumFound

(* Only plans that share no card and reach the floor are handed over, none *)
(* twice.                                                                  *)
OnlyWanted ==
    [][Len(log') > Len(log) =>
          LET p == log'[Len(log')].plan
          IN  Compatible(p) /\ Value(p) >= floor /\ ~Visited(p)]_vars

(* "The second-song traversal and callbacks retain their original order"   *)
(* and the logical work is counted alike (reuse_band.rs): with the same    *)
(* answers both scanners hand over the same plans in the same order, end   *)
(* with the same floor, and in a band search report the same work.         *)
SameReport ==
    scanner = "reuse" =>
        /\ Len(log) <= Len(plain.log)
        /\ \A n \in DOMAIN log : log[n] = plain.log[n]
        /\ at \in {"finished", "stopped"} =>
              /\ at = plain.at /\ log = plain.log /\ floor = plain.floor
              /\ problem.goal = "band" /\ at = "finished" => work = plain.work
=============================================================================
