--------------------------- MODULE MedleyScanProofs ---------------------------
(***************************************************************************)
(* For every problem, every visitor and any number of lanes: both scanners *)
(* hand over every plan that is wanted, only those, and none twice, the    *)
(* search for the maximum ends with the best plan, and with the same       *)
(* answers both scanners report the same.                                  *)
(*                                                                         *)
(* The argument follows the positions of the three loops: a plan that is   *)
(* wanted has been handed over or is still to come, never both.  What a    *)
(* scanner reports is then a function of the problem and of the answers.   *)
(***************************************************************************)
EXTENDS MedleyScan, FiniteSetTheorems, WellFoundedInduction, SequenceTheorems, TLAPS

P == 1 .. Cardinality(Candidates)

Apart(a, b, c) ==
    /\ ~Overlap(At(1, a), At(2, b))
    /\ ~Overlap(At(1, a), At(3, c))
    /\ ~Overlap(At(2, b), At(3, c))

(* What prepare_search leaves: never changed afterwards.                   *)
Ranked ==
    /\ problem \in Problems
    /\ order \in [Songs -> [P -> Candidates]]
    /\ \A s \in Songs : \A m, n \in P :
          m <= n => problem.score[order[s][n]][s] <= problem.score[order[s][m]][s]
    /\ \A s \in Songs : \A c \in Candidates :
          \E m \in P : \A n \in P : order[s][n] = c <=> n = m
    /\ kept = [s \in Songs |-> {m \in P : Reachable(s, m) >= problem.floor}]
    /\ song \in Permutations3

(* Where the loops stand.                                                  *)
Places ==
    /\ first # 0 /\ second # 0 /\ third # 0
    /\ problem.floor <= floor
    /\ at = "batch" => scanner = "reuse"
    /\ at \in {"second", "third", "batch"} => first \in Positions(1)
    /\ at \in {"third", "batch"} =>
          /\ second \in Positions(2)
          /\ ~Overlap(At(1, first), At(2, second))

(* The ranges and lists of the reuse scanner leave out only what is not    *)
(* wanted, now or later.                                                   *)
Ranges ==
    scanner = "reuse" =>
        /\ \A b \in Positions(2) \ inSecond : \A a \in P :
              a >= first => Score(1, a) + Score(2, b) + Top(3) < floor
        /\ at = "second" =>
              /\ counted.pairs = 0 => inThird = Positions(3)
              /\ \A b \in seconds, c \in Positions(3) \ inThird : Total(first, b, c) < floor
        /\ at \in {"third", "batch"} =>
              /\ \A c \in Positions(3) \ inThird : Total(first, second, c) < floor
              /\ \A c \in inThird : Total(first, second, c) >= floor

Lists ==
    scanner = "reuse" =>
        /\ at \in {"second", "third", "batch"} =>
              /\ \A b \in seconds : ~Overlap(At(1, first), At(2, b)) /\ counted.pairs < b
              /\ \A c \in thirds : ~Overlap(At(1, first), At(3, c))
        /\ at \in {"third", "batch"} =>
              /\ counted.pairs = second
              /\ \A c \in ahead \cup batch : counted.thirds < c
        /\ at = "batch" =>
              /\ \A c \in batch : ~Overlap(At(2, second), At(3, c))
              /\ \A c \in batch, d \in ahead : c < d
        /\ at \notin {"batch", "stopped"} => batch = {}

(* The positions that the scanner has not come to.                         *)
ToCome(a, b, c) ==
    \/ at = "first" /\ a >= first
    \/ at \in {"second", "third", "batch"} /\ a > first
    \/ /\ a = first /\ scanner = "plain"
       /\ \/ at = "second" /\ b >= second
          \/ at = "third" /\ (b > second \/ (b = second /\ c >= third))
    \/ /\ a = first /\ scanner = "reuse"
       /\ \/ /\ at \in {"second", "third", "batch"}
             /\ b \in seconds
             /\ counted.pairs # 0 => c \in thirds
          \/ at \in {"third", "batch"} /\ b = second /\ c \in ahead
          \/ at = "batch" /\ b = second /\ c \in batch

Wanted(a, b, c) == Apart(a, b, c) /\ Total(a, b, c) >= floor

NoneLost ==
    at # "stopped" =>
        \A a, b, c \in P : Wanted(a, b, c) => Visited(Plan(a, b, c)) \/ ToCome(a, b, c)

NoneTwice ==
    \A a, b, c \in P : Visited(Plan(a, b, c)) => ~ToCome(a, b, c)

(* In the search for the maximum the floor stays just above the last plan. *)
Best ==
    problem.goal = "maximum" =>
        /\ at # "stopped"
        /\ floor = IF log = <<>> THEN problem.floor ELSE Value(log[Len(log)].plan) + 1
        /\ \A n \in DOMAIN log : Value(log[n].plan) < floor

IInv == Ranked /\ TypeOK /\ Places /\ Ranges /\ Lists /\ NoneLost /\ NoneTwice /\ Best

-----------------------------------------------------------------------------
(* Sorted candidates                                                       *)

LEMMA SongFacts ==
    ASSUME song \in Permutations3
    PROVE  /\ \A x \in Songs : song[x] \in Songs
           /\ song[1] # song[2] /\ song[1] # song[3] /\ song[2] # song[3]
           /\ \A s \in Songs : s = song[1] \/ s = song[2] \/ s = song[3]
BY DEF Permutations3, Songs

LEMMA Inputs ==
    ASSUME Ranked
    PROVE  /\ Cardinality(Candidates) \in Nat
           /\ problem.floor \in Int
           /\ \A c \in Candidates, s \in Songs : problem.score[c][s] \in Int
           /\ problem.goal \in {"maximum", "band"}
<1>1. problem \in Problems
  BY DEF Ranked
<1>2. IsFiniteSet(Candidates)
  BY <1>1, ProblemsAssumption DEF Candidates
<1>3. problem.score \in [Candidates -> [Songs -> Int]]
  BY <1>1, ProblemsAssumption DEF Candidates
<1> QED BY <1>1, <1>2, <1>3, FS_CardinalityType, ProblemsAssumption DEF Candidates

LEMMA Scores ==
    ASSUME Ranked
    PROVE  /\ \A x \in Songs, m \in P : At(x, m) \in Candidates /\ Score(x, m) \in Int
           /\ \A x \in Songs : \A m, n \in P : m <= n => Score(x, n) <= Score(x, m)
<1>1. \A x \in Songs : song[x] \in Songs
  BY SongFacts DEF Ranked
<1>2. \A x \in Songs : order[song[x]] \in [P -> Candidates]
  BY <1>1 DEF Ranked
<1>3. \A x \in Songs, m \in P : At(x, m) \in Candidates
  BY <1>2 DEF At
<1>4. \A x \in Songs, m \in P : Score(x, m) \in Int
  BY <1>1, <1>3, Inputs DEF Score
<1>5. \A x \in Songs : \A m, n \in P : m <= n => Score(x, n) <= Score(x, m)
  BY <1>1 DEF Ranked, Score, At
<1> QED BY <1>3, <1>4, <1>5

(* The first position of a song has its best score.                        *)
LEMMA Tops ==
    ASSUME Ranked, NEW m \in P
    PROVE  /\ 1 \in P
           /\ \A x \in Songs : Top(x) \in Int /\ Score(x, m) <= Top(x)
<1>1. 1 \in P /\ 1 <= m
  BY Inputs DEF P
<1> QED BY <1>1, Scores DEF Top

(* A position is kept if a plan with it may reach the floor.               *)
LEMMA KeptPositions ==
    ASSUME Ranked
    PROVE  /\ \A x \in Songs : Positions(x) \subseteq P
           /\ \A m \in P :
                /\ m \in Positions(1) <=> Score(1, m) + Top(2) + Top(3) >= problem.floor
                /\ m \in Positions(2) <=> Top(1) + Score(2, m) + Top(3) >= problem.floor
                /\ m \in Positions(3) <=> Top(1) + Top(2) + Score(3, m) >= problem.floor
<1>1. \A x \in Songs : song[x] \in Songs
  BY SongFacts DEF Ranked
<1>2. \A x \in Songs : Positions(x) = {m \in P : Reachable(song[x], m) >= problem.floor}
  BY <1>1 DEF Ranked, Positions
<1>3. ASSUME NEW m \in P
      PROVE  /\ Reachable(song[1], m) = Score(1, m) + Top(2) + Top(3)
             /\ Reachable(song[2], m) = Top(1) + Score(2, m) + Top(3)
             /\ Reachable(song[3], m) = Top(1) + Top(2) + Score(3, m)
  <2>1. /\ \A x \in Songs : Score(x, m) \in Int /\ Top(x) \in Int
    BY Tops, Scores
  <2> DEFINE mine(s) == problem.score[order[s][m]][s]
             best(s) == problem.score[order[s][1]][s]
  <2>2. \A s \in Songs : Reachable(s, m) =
           (IF s = 1 THEN mine(1) ELSE best(1))
             + (IF s = 2 THEN mine(2) ELSE best(2))
             + (IF s = 3 THEN mine(3) ELSE best(3))
    BY DEF Reachable, Songs
  <2>3. \A x \in Songs : Score(x, m) = mine(song[x]) /\ Top(x) = best(song[x])
    BY DEF Score, Top, At
  <2>4. \A s \in Songs : mine(s) \in Int /\ best(s) \in Int
    <3>1. \A s \in Songs : order[s][m] \in Candidates /\ order[s][1] \in Candidates
      BY Tops DEF Ranked
    <3> QED BY <3>1, Inputs
  <2> HIDE DEF mine, best
  <2>5. ASSUME NEW i \in Songs, NEW j \in Songs, NEW k \in Songs, i # j, i # k, j # k
        PROVE  /\ Reachable(i, m) = mine(i) + best(j) + best(k)
    <3>1. mine(1) \in Int /\ mine(2) \in Int /\ mine(3) \in Int
      BY <2>4 DEF Songs
    <3>2. best(1) \in Int /\ best(2) \in Int /\ best(3) \in Int
      BY <2>4 DEF Songs
    <3> QED BY <2>2, <2>5, <3>1, <3>2 DEF Songs
  <2>6. song[1] \in Songs /\ song[2] \in Songs /\ song[3] \in Songs
    BY <1>1 DEF Songs
  <2>7. song[1] # song[2] /\ song[1] # song[3] /\ song[2] # song[3]
    BY SongFacts DEF Ranked
  <2>8. /\ Reachable(song[1], m) = mine(song[1]) + best(song[2]) + best(song[3])
        /\ Reachable(song[2], m) = mine(song[2]) + best(song[1]) + best(song[3])
        /\ Reachable(song[3], m) = mine(song[3]) + best(song[1]) + best(song[2])
    BY <2>5, <2>6, <2>7
  <2>9. \A x \in Songs : mine(song[x]) \in Int /\ best(song[x]) \in Int
    BY <1>1, <2>4
  <2> QED BY <2>3, <2>8, <2>9 DEF Songs
<1> QED BY <1>1, <1>2, <1>3 DEF Songs

-----------------------------------------------------------------------------
(* Plans and positions                                                     *)

LEMMA PlanParts ==
    ASSUME Ranked, NEW a \in P, NEW b \in P, NEW c \in P
    PROVE  /\ Plan(a, b, c) \in Plans
           /\ Plan(a, b, c)[song[1]] = At(1, a)
           /\ Plan(a, b, c)[song[2]] = At(2, b)
           /\ Plan(a, b, c)[song[3]] = At(3, c)
<1>1. /\ song[1] \in Songs /\ song[2] \in Songs /\ song[3] \in Songs
      /\ song[1] # song[2] /\ song[1] # song[3] /\ song[2] # song[3]
  BY SongFacts DEF Ranked, Songs
<1>2. At(1, a) \in Candidates /\ At(2, b) \in Candidates /\ At(3, c) \in Candidates
  BY Scores DEF Songs
<1> QED BY <1>1, <1>2 DEF Plan, Plans

LEMMA PlanValue ==
    ASSUME Ranked, NEW a \in P, NEW b \in P, NEW c \in P
    PROVE  Value(Plan(a, b, c)) = Total(a, b, c) /\ Total(a, b, c) \in Int
<1> DEFINE worth(s) == problem.score[Plan(a, b, c)[s]][s]
<1>1. /\ worth(song[1]) = Score(1, a)
      /\ worth(song[2]) = Score(2, b)
      /\ worth(song[3]) = Score(3, c)
  BY PlanParts DEF Score
<1>2. Score(1, a) \in Int /\ Score(2, b) \in Int /\ Score(3, c) \in Int
  BY Scores DEF Songs
<1>3. Value(Plan(a, b, c)) = worth(1) + worth(2) + worth(3)
  BY DEF Value
<1>4. /\ song[1] \in {1, 2, 3} /\ song[2] \in {1, 2, 3} /\ song[3] \in {1, 2, 3}
      /\ song[1] # song[2] /\ song[1] # song[3] /\ song[2] # song[3]
  BY SongFacts DEF Ranked, Songs
<1> HIDE DEF worth
<1>5. worth(1) + worth(2) + worth(3) = worth(song[1]) + worth(song[2]) + worth(song[3])
  BY <1>1, <1>2, <1>4
<1> QED BY <1>1, <1>2, <1>3, <1>5 DEF Total

LEMMA PlanApart ==
    ASSUME Ranked, NEW a \in P, NEW b \in P, NEW c \in P
    PROVE  Compatible(Plan(a, b, c)) <=> Apart(a, b, c)
<1>1. /\ song[1] \in Songs /\ song[2] \in Songs /\ song[3] \in Songs
      /\ song[1] # song[2] /\ song[1] # song[3] /\ song[2] # song[3]
      /\ \A s \in Songs : s = song[1] \/ s = song[2] \/ s = song[3]
  BY SongFacts DEF Ranked, Songs
<1>2. \A x, y : Overlap(x, y) <=> Overlap(y, x)
  BY DEF Overlap
<1> QED BY <1>1, <1>2, PlanParts DEF Compatible, Apart

LEMMA PlanUnique ==
    ASSUME Ranked, NEW a \in P, NEW b \in P, NEW c \in P,
           NEW i \in P, NEW j \in P, NEW k \in P,
           Plan(a, b, c) = Plan(i, j, k)
    PROVE  a = i /\ b = j /\ c = k
<1>1. At(1, a) = At(1, i) /\ At(2, b) = At(2, j) /\ At(3, c) = At(3, k)
  BY PlanParts
<1>2. \A x \in Songs : song[x] \in Songs
  BY SongFacts DEF Ranked
<1>3. ASSUME NEW x \in Songs, NEW m \in P, NEW n \in P, At(x, m) = At(x, n)
      PROVE  m = n
  <2>1. At(x, m) \in Candidates
    BY Scores
  <2> DEFINE s == song[x]
             d == At(x, m)
  <2> HIDE DEF s, d
  <2>2. s \in Songs /\ d \in Candidates
    BY <1>2, <2>1 DEF s, d
  <2>3. \E l \in P : \A r \in P : order[s][r] = d <=> r = l
    BY <2>2 DEF Ranked
  <2>4. PICK l \in P : \A r \in P : order[song[x]][r] = At(x, m) <=> r = l
    BY <2>3 DEF s, d
  <2> QED BY <1>3, <2>4 DEF At
<1> QED BY <1>1, <1>3 DEF Songs

LEMMA PlanOf ==
    ASSUME Ranked, NEW p \in Plans
    PROVE  \E a, b, c \in P : p = Plan(a, b, c)
<1>1. /\ song[1] \in Songs /\ song[2] \in Songs /\ song[3] \in Songs
      /\ \A s \in Songs : s = song[1] \/ s = song[2] \/ s = song[3]
  BY SongFacts DEF Ranked, Songs
<1>2. \A s \in Songs : \E m \in P : order[s][m] = p[s]
  <2>1. \A s \in Songs : p[s] \in Candidates
    BY DEF Plans
  <2> QED BY <2>1 DEF Ranked
<1>3. PICK a \in P, b \in P, c \in P :
         At(1, a) = p[song[1]] /\ At(2, b) = p[song[2]] /\ At(3, c) = p[song[3]]
  BY <1>1, <1>2 DEF At
<1>4. \A s \in Songs : p[s] = Plan(a, b, c)[s]
  BY <1>1, <1>3, PlanParts
<1> QED BY <1>4, PlanParts DEF Plans

-----------------------------------------------------------------------------
(* What a plan needs to reach the floor                                    *)

LEMMA Reaches ==
    ASSUME Ranked, floor \in Int, problem.floor <= floor,
           NEW a \in P, NEW b \in P, NEW c \in P, Total(a, b, c) >= floor
    PROVE  /\ \A i \in P : i <= a =>
                 i \in Positions(1) /\ ~(Score(1, i) + Top(2) + Top(3) < floor)
           /\ \A j \in P : j <= b =>
                 j \in Positions(2) /\ ~(Score(1, a) + Score(2, j) + Top(3) < floor)
           /\ \A k \in P : k <= c => k \in Positions(3) /\ ~(Total(a, b, k) < floor)
<1>1. /\ Score(1, a) \in Int /\ Score(2, b) \in Int /\ Score(3, c) \in Int
      /\ Top(1) \in Int /\ Top(2) \in Int /\ Top(3) \in Int
      /\ Score(1, a) <= Top(1) /\ Score(2, b) <= Top(2) /\ Score(3, c) <= Top(3)
  BY Tops, Scores DEF Songs
<1>2. Score(1, a) + Score(2, b) + Score(3, c) >= floor
  BY DEF Total
<1>3. problem.floor \in Int
  BY Inputs
<1>4. ASSUME NEW i \in P, i <= a
      PROVE  i \in Positions(1) /\ ~(Score(1, i) + Top(2) + Top(3) < floor)
  <2>1. Score(1, i) \in Int /\ Score(1, a) <= Score(1, i)
    BY <1>4, Scores DEF Songs
  <2> QED BY <1>1, <1>2, <1>3, <2>1, KeptPositions
<1>5. ASSUME NEW j \in P, j <= b
      PROVE  j \in Positions(2) /\ ~(Score(1, a) + Score(2, j) + Top(3) < floor)
  <2>1. Score(2, j) \in Int /\ Score(2, b) <= Score(2, j)
    BY <1>5, Scores DEF Songs
  <2> QED BY <1>1, <1>2, <1>3, <2>1, KeptPositions
<1>6. ASSUME NEW k \in P, k <= c
      PROVE  k \in Positions(3) /\ ~(Total(a, b, k) < floor)
  <2>1. Score(3, k) \in Int /\ Score(3, c) <= Score(3, k)
    BY <1>6, Scores DEF Songs
  <2> QED BY <1>1, <1>2, <1>3, <2>1, KeptPositions DEF Total
<1> QED BY <1>4, <1>5, <1>6

(* The inputs do not change, and so nothing that depends on them alone.    *)
LEMMA Rigid ==
    ASSUME UNCHANGED input
    PROVE  /\ P' = P /\ Ranked' = Ranked /\ Plans' = Plans
           /\ \A x \in Songs : Positions(x)' = Positions(x) /\ Top(x)' = Top(x)
           /\ \A x, m : At(x, m)' = At(x, m) /\ Score(x, m)' = Score(x, m)
           /\ \A c, d : Overlap(c, d)' = Overlap(c, d)
           /\ \A a, b, c : /\ Total(a, b, c)' = Total(a, b, c)
                           /\ Plan(a, b, c)' = Plan(a, b, c)
                           /\ Apart(a, b, c)' = Apart(a, b, c)
           /\ \A p : Value(p)' = Value(p)
<1>1. problem' = problem /\ order' = order /\ kept' = kept /\ song' = song
  BY DEF input
<1>2. P' = P /\ Plans' = Plans
  BY <1>1 DEF P, Plans, Candidates
<1>3. \A x, m : At(x, m)' = At(x, m) /\ Score(x, m)' = Score(x, m)
  BY <1>1 DEF At, Score
<1>4. \A x \in Songs : Positions(x)' = Positions(x) /\ Top(x)' = Top(x)
  BY <1>1 DEF Positions, Top, At, Score
<1>5. \A c, d : Overlap(c, d)' = Overlap(c, d)
  BY <1>1 DEF Overlap
<1>6. \A a, b, c : Total(a, b, c)' = Total(a, b, c)
  BY <1>3 DEF Total
<1>7. \A a, b, c : Plan(a, b, c)' = Plan(a, b, c)
  BY <1>1, <1>3 DEF Plan
<1>8. \A a, b, c : Apart(a, b, c)' = Apart(a, b, c)
  BY <1>1 DEF Apart, Overlap, At
<1>9. \A p : Value(p)' = Value(p)
  BY <1>1 DEF Value
<1>10. Ranked' = Ranked
  BY <1>1 DEF Ranked, P, Candidates, Reachable
<1> QED BY <1>2, <1>3, <1>4, <1>5, <1>6, <1>7, <1>8, <1>9, <1>10

LEMMA PositionNumbers ==
    ASSUME Ranked
    PROVE  /\ \A m \in P : m \in Nat /\ m # 0
           /\ \A m \in P, n \in Nat : n # 0 /\ n <= m => n \in P
BY Inputs DEF P

(* The same for the state that the invariant describes.                    *)
LEMMA WantedReaches ==
    ASSUME IInv, NEW a \in P, NEW b \in P, NEW c \in P, Wanted(a, b, c)
    PROVE  /\ \A i \in Nat : i # 0 /\ i <= a =>
                 i \in Positions(1) /\ ~(Score(1, i) + Top(2) + Top(3) < floor)
           /\ \A j \in Nat : j # 0 /\ j <= b =>
                 j \in Positions(2) /\ ~(Score(1, a) + Score(2, j) + Top(3) < floor)
           /\ \A k \in Nat : k # 0 /\ k <= c =>
                 k \in Positions(3) /\ ~(Total(a, b, k) < floor)
<1>1. Ranked /\ floor \in Int /\ problem.floor <= floor /\ Total(a, b, c) >= floor
  BY DEF IInv, TypeOK, Places, Wanted
<1> QED BY <1>1, Reaches, PositionNumbers

(* A step that reports nothing and passes over nothing that is wanted.     *)
LEMMA Quiet ==
    ASSUME IInv, UNCHANGED <<input, floor, log>>, at # "stopped", at' # "stopped",
           \A a, b, c \in P : Wanted(a, b, c) /\ ToCome(a, b, c) => ToCome(a, b, c)',
           \A a, b, c \in P : ToCome(a, b, c)' => ToCome(a, b, c)
    PROVE  Ranked' /\ Best' /\ NoneLost' /\ NoneTwice'
<1>1. UNCHANGED input
  OBVIOUS
<1>2. problem' = problem /\ log' = log /\ floor' = floor
  BY DEF input
<1>3. Ranked' /\ P' = P
  BY <1>1, Rigid DEF IInv
<1>4. Best'
  BY <1>1, <1>2, Rigid DEF IInv, Best
<1>5. \A a, b, c : Wanted(a, b, c)' <=> Wanted(a, b, c)
  BY <1>1, <1>2, Rigid DEF Wanted
<1>6. \A a, b, c : Visited(Plan(a, b, c))' <=> Visited(Plan(a, b, c))
  BY <1>1, <1>2, Rigid DEF Visited
<1>7. NoneLost'
  BY <1>3, <1>5, <1>6 DEF IInv, NoneLost
<1>8. NoneTwice'
  BY <1>3, <1>5, <1>6 DEF IInv, NoneTwice
<1> QED BY <1>3, <1>4, <1>7, <1>8

-----------------------------------------------------------------------------
(* A step that reports a plan                                              *)

LEMMA AnswersType ==
    ASSUME IInv, NEW score \in Int, NEW ans \in Answers(score)
    PROVE  /\ ans \in Answer
           /\ problem.goal = "maximum" => ans = [stop |-> FALSE, floor |-> score + 1]
<1>1. CASE problem.goal = "maximum"
  <2>1. ans = [stop |-> FALSE, floor |-> score + 1]
    BY <1>1 DEF Answers
  <2>2. \A n \in Int : [stop |-> FALSE, floor |-> n] \in Answer
    BY DEF Answer
  <2>3. score + 1 \in Int
    OBVIOUS
  <2> QED BY <2>1, <2>2, <2>3
<1>2. CASE problem.goal # "maximum" /\ scanner = "reuse" /\ Len(log) < Len(plain.log)
  <2> DEFINE Entry == [plan : Plans, answer : Answer]
             said == plain.log
  <2>1. log \in Seq(Entry) /\ said \in Seq(Entry)
    BY DEF IInv, TypeOK
  <2>2. \A x \in Entry : x.answer \in Answer
    OBVIOUS
  <2>3. ans = said[Len(log) + 1].answer /\ Len(log) < Len(said)
    BY <1>2 DEF Answers
  <2> HIDE DEF Entry, said
  <2>4. Len(log) + 1 \in 1 .. Len(said)
    BY <2>1, <2>3
  <2>5. said[Len(log) + 1] \in Entry
    BY <2>1, <2>4
  <2> QED BY <1>2, <2>2, <2>3, <2>5
<1>3. CASE problem.goal # "maximum" /\ ~(scanner = "reuse" /\ Len(log) < Len(plain.log))
  <2>1. Floors \subseteq Int /\ floor \in Int
    BY FloorsAssumption DEF IInv, TypeOK
  <2>2. [stop |-> TRUE, floor |-> floor] \in Answer
    BY <2>1 DEF Answer
  <2>3. [stop : {FALSE}, floor : Floors] \subseteq Answer
    BY <2>1 DEF Answer
  <2> QED BY <1>3, <2>2, <2>3 DEF Answers
<1> QED BY <1>1, <1>2, <1>3

LEMMA Logged ==
    ASSUME IInv, UNCHANGED input, NEW c \in P, NEW ans \in Answer, Visit(c, ans),
           first \in P, second \in P
    PROVE  /\ log' \in Seq([plan : Plans, answer : Answer])
           /\ log' # <<>> /\ log'[Len(log')].plan = Plan(first, second, c)
           /\ Len(log') = Len(log) + 1
           /\ \A n \in DOMAIN log' : (n \in DOMAIN log /\ log'[n] = log[n])
                                     \/ log'[n].plan = Plan(first, second, c)
           /\ floor' \in Int /\ floor <= floor'
           /\ ~ans.stop => ans.floor <= floor'
           /\ floor' = floor \/ floor' = ans.floor
           /\ \A p : Visited(p)' <=> Visited(p) \/ p = Plan(first, second, c)
<1> DEFINE Entry == [plan : Plans, answer : Answer]
           entry == [plan |-> Plan(first, second, c), answer |-> ans]
<1>1. log \in Seq(Entry) /\ floor \in Int
  BY DEF IInv, TypeOK
<1>2. Plan(first, second, c) \in Plans
  BY PlanParts DEF IInv
<1>3. entry \in Entry /\ entry.plan = Plan(first, second, c)
  BY <1>2
<1>4. log' = Append(log, entry) /\ floor' = Raised(ans)
  BY DEF Visit
<1> HIDE DEF Entry, entry
<1>5. log' \in Seq(Entry) /\ Len(log') = Len(log) + 1 /\ Len(log) \in Nat
  BY <1>1, <1>3, <1>4
<1>6. log'[Len(log')] = entry /\ \A n \in 1 .. Len(log) : log'[n] = log[n]
  BY <1>1, <1>3, <1>4
<1>7. DOMAIN log' = 1 .. Len(log) + 1 /\ DOMAIN log = 1 .. Len(log)
  BY <1>1, <1>5
<1>8. floor' \in Int /\ floor <= floor' /\ (floor' = floor \/ floor' = ans.floor)
  BY <1>1, <1>4 DEF Raised, Answer
<1>9. ~ans.stop => ans.floor <= floor'
  BY <1>1, <1>4 DEF Raised, Answer
<1>10. \A n \in DOMAIN log' : n \in DOMAIN log \/ n = Len(log')
  BY <1>5, <1>7
<1>11. \A n \in DOMAIN log' : (n \in DOMAIN log /\ log'[n] = log[n])
                              \/ log'[n].plan = Plan(first, second, c)
  BY <1>3, <1>6, <1>7, <1>10
<1>12. Len(log') \in DOMAIN log' /\ \A n \in DOMAIN log : n \in DOMAIN log' /\ log'[n] = log[n]
  BY <1>5, <1>6, <1>7
<1>13. \A p : Visited(p)' <=> Visited(p) \/ p = Plan(first, second, c)
  BY <1>3, <1>6, <1>11, <1>12 DEF Visited
<1>14. log' # <<>>
  BY <1>5
<1> QED BY <1>3, <1>5, <1>6, <1>8, <1>9, <1>11, <1>13, <1>14 DEF Entry

LEMMA Reporting ==
    ASSUME IInv, UNCHANGED input, at # "stopped",
           NEW c \in P, NEW ans \in Answers(Total(first, second, c)), Visit(c, ans),
           first \in P, second \in P, Total(first, second, c) >= floor,
           at' = "stopped" <=> ans.stop,
           \A i, j, k \in P :
              Wanted(i, j, k) /\ Wanted(i, j, k)' /\ ToCome(i, j, k) /\ ~ans.stop
                => ToCome(i, j, k)' \/ (i = first /\ j = second /\ k = c),
           \A i, j, k \in P : ToCome(i, j, k)' =>
              ToCome(i, j, k) /\ ~(i = first /\ j = second /\ k = c)
    PROVE  /\ Ranked' /\ Best' /\ NoneLost' /\ NoneTwice'
           /\ log' \in Seq([plan : Plans, answer : Answer])
           /\ floor' \in Int /\ floor <= floor'
<1> DEFINE now == Plan(first, second, c)
           top == Total(first, second, c)
<1>1. Ranked /\ top \in Int /\ Value(now) = top
  BY PlanValue DEF IInv
<1>2. /\ ans \in Answer
      /\ problem.goal = "maximum" => ans = [stop |-> FALSE, floor |-> top + 1]
  BY <1>1, AnswersType
<1>3. /\ log' \in Seq([plan : Plans, answer : Answer])
      /\ log' # <<>> /\ log'[Len(log')].plan = now
      /\ \A n \in DOMAIN log' : (n \in DOMAIN log /\ log'[n] = log[n]) \/ log'[n].plan = now
      /\ floor' \in Int /\ floor <= floor'
      /\ ~ans.stop => ans.floor <= floor'
      /\ floor' = floor \/ floor' = ans.floor
      /\ \A p : Visited(p)' <=> Visited(p) \/ p = now
  BY <1>2, Logged
<1>4. /\ Ranked' /\ P' = P /\ problem' = problem
      /\ \A i, j, k : Plan(i, j, k)' = Plan(i, j, k)
      /\ \A i, j, k : Total(i, j, k)' = Total(i, j, k)
      /\ \A i, j, k : Apart(i, j, k)' = Apart(i, j, k)
      /\ \A p : Value(p)' = Value(p)
  BY <1>1, Rigid DEF input
<1>5. floor \in Int
  BY DEF IInv, TypeOK
<1>6. \A i, j, k \in P : Wanted(i, j, k)' => Wanted(i, j, k)
  <2> SUFFICES ASSUME NEW i \in P, NEW j \in P, NEW k \in P, Wanted(i, j, k)'
               PROVE  Wanted(i, j, k)
    OBVIOUS
  <2>1. Total(i, j, k) \in Int
    BY <1>1, PlanValue
  <2>2. Apart(i, j, k) /\ Total(i, j, k) >= floor'
    BY <1>4 DEF Wanted
  <2> QED BY <1>3, <1>5, <2>1, <2>2 DEF Wanted
<1>7. NoneLost'
  <2> SUFFICES ASSUME at' # "stopped", NEW i \in P, NEW j \in P, NEW k \in P, Wanted(i, j, k)'
               PROVE  Visited(Plan(i, j, k))' \/ ToCome(i, j, k)'
    BY <1>4 DEF NoneLost
  <2>1. Wanted(i, j, k) /\ ~ans.stop
    BY <1>6
  <2>2. Visited(Plan(i, j, k)) \/ ToCome(i, j, k)
    BY <2>1 DEF IInv, NoneLost
  <2>3. Visited(Plan(i, j, k))' <=> Visited(Plan(i, j, k)) \/ Plan(i, j, k) = now
    BY <1>3, <1>4 DEF Visited
  <2> QED BY <2>1, <2>2, <2>3
<1>8. NoneTwice'
  <2> SUFFICES ASSUME NEW i \in P, NEW j \in P, NEW k \in P, Visited(Plan(i, j, k))',
                      ToCome(i, j, k)'
               PROVE  FALSE
    BY <1>4 DEF NoneTwice
  <2>1. Visited(Plan(i, j, k))' <=> Visited(Plan(i, j, k)) \/ Plan(i, j, k) = now
    BY <1>3, <1>4 DEF Visited
  <2>2. ToCome(i, j, k)
    OBVIOUS
  <2>3. ~Visited(Plan(i, j, k))
    BY <2>2 DEF IInv, NoneTwice
  <2>4. i = first /\ j = second /\ k = c
    BY <1>1, <2>1, <2>3, PlanUnique
  <2> QED BY <2>4
<1>9. Best'
  <2> SUFFICES ASSUME problem.goal = "maximum"
               PROVE  /\ at' # "stopped"
                      /\ floor' = Value(log'[Len(log')].plan) + 1
                      /\ \A n \in DOMAIN log' : Value(log'[n].plan) < floor'
    BY <1>3, <1>4 DEF Best
  <2>1. ans.stop = FALSE /\ ans.floor = top + 1
    BY <1>2
  <2>2. floor' = top + 1
    BY <1>1, <1>3, <1>5, <2>1
  <2>3. \A n \in DOMAIN log : Value(log[n].plan) < floor
    BY DEF IInv, Best
  <2>4. \A n \in DOMAIN log : Value(log[n].plan) \in Int
    <3>1. \A n \in DOMAIN log : log[n].plan \in Plans
      <4> DEFINE Entry == [plan : Plans, answer : Answer]
      <4>1. log \in Seq(Entry) /\ \A x \in Entry : x.plan \in Plans
        BY DEF IInv, TypeOK
      <4> HIDE DEF Entry
      <4> QED BY <4>1
    <3>2. ASSUME NEW p \in Plans PROVE Value(p) \in Int
      <4>1. p[1] \in Candidates /\ p[2] \in Candidates /\ p[3] \in Candidates
        BY DEF Plans, Songs
      <4>2. /\ problem.score[p[1]][1] \in Int /\ problem.score[p[2]][2] \in Int
            /\ problem.score[p[3]][3] \in Int
        BY <1>1, <4>1, Inputs DEF Songs
      <4> QED BY <4>2 DEF Value
    <3> QED BY <3>1, <3>2
  <2>5. ASSUME NEW n \in DOMAIN log' PROVE Value(log'[n].plan) < floor'
    <3>1. CASE n \in DOMAIN log /\ log'[n] = log[n]
      BY <1>3, <1>5, <2>3, <2>4, <3>1
    <3>2. CASE log'[n].plan = now
      BY <1>1, <2>2, <3>2
    <3> QED BY <1>3, <3>1, <3>2
  <2> QED BY <1>1, <1>3, <2>1, <2>2, <2>5
<1> QED BY <1>3, <1>4, <1>7, <1>8, <1>9

-----------------------------------------------------------------------------
(* The plain scanner                                                       *)

LEMMA PlainFirstStep ==
    ASSUME IInv, PlainFirst
    PROVE  IInv'
<1>1. UNCHANGED <<input, floor, log>> /\ UNCHANGED input
  BY DEF PlainFirst, report
<1>2. Positions(1)' = Positions(1) /\ problem' = problem
  BY <1>1, Rigid DEF Songs, input
<1>3. \A m \in P : m \in Nat /\ m # 0
  BY PositionNumbers DEF IInv
<1>4. TypeOK'
  BY <1>1 DEF IInv, PlainFirst, TypeOK, report, input, Candidates, Positions, Plans, Answer
<1>5. Places'
  BY <1>1, <1>2 DEF IInv, PlainFirst, FirstOver, Places
<1>6. Ranges' /\ Lists'
  BY DEF PlainFirst, Ranges, Lists
<1>7. \A a, b, c \in P : ToCome(a, b, c) <=> ToCome(a, b, c)'
  BY <1>3 DEF IInv, TypeOK, PlainFirst, ToCome
<1>8. Ranked' /\ Best' /\ NoneLost' /\ NoneTwice'
  BY <1>1, <1>7, Quiet DEF PlainFirst
<1> QED BY <1>4, <1>5, <1>6, <1>8 DEF IInv

LEMMA PlainSecondOverStep ==
    ASSUME IInv, PlainSecondOver
    PROVE  IInv'
<1>1. UNCHANGED <<input, floor, log>> /\ UNCHANGED input
  BY DEF PlainSecondOver, report
<1>2. problem' = problem
  BY <1>1 DEF input
<1>3. \A m \in P : m \in Nat /\ m # 0
  BY PositionNumbers DEF IInv
<1>4. TypeOK'
  BY <1>1 DEF IInv, PlainSecondOver, TypeOK, report, input, Candidates, Positions, Plans, Answer
<1>5. Places'
  BY <1>1, <1>2 DEF IInv, TypeOK, PlainSecondOver, Places
<1>6. Ranges' /\ Lists'
  BY DEF PlainSecondOver, Ranges, Lists
<1>7. \A a, b, c \in P : ToCome(a, b, c)' => ToCome(a, b, c)
  BY <1>3 DEF IInv, TypeOK, PlainSecondOver, ToCome
<1>8. ASSUME NEW a \in P, NEW b \in P, NEW c \in P, Wanted(a, b, c), ToCome(a, b, c)
      PROVE  ToCome(a, b, c)'
  <2>1. ~(a = first /\ second <= b)
    BY <1>3, <1>8, WantedReaches DEF IInv, TypeOK, Places, PlainSecondOver, SecondOver
  <2> QED BY <1>3, <1>8, <2>1 DEF IInv, TypeOK, PlainSecondOver, ToCome
<1>9. Ranked' /\ Best' /\ NoneLost' /\ NoneTwice'
  BY <1>1, <1>7, <1>8, Quiet DEF PlainSecondOver
<1> QED BY <1>4, <1>5, <1>6, <1>9 DEF IInv

LEMMA PlainSecondStep ==
    ASSUME IInv, PlainSecond
    PROVE  IInv'
<1>1. UNCHANGED <<input, floor, log>> /\ UNCHANGED input
  BY DEF PlainSecond
<1>2. Positions(1)' = Positions(1) /\ Positions(2)' = Positions(2) /\ problem' = problem
  BY <1>1, Rigid DEF Songs, input
<1>3. \A m \in P : m \in Nat /\ m # 0
  BY PositionNumbers DEF IInv
<1>4. TypeOK'
  <2>1. work' \in [pairs : Nat, thirds : Nat]
    BY DEF IInv, PlainSecond, TypeOK
  <2>2. second' \in Nat /\ third' \in Nat /\ at' \in {"second", "third"}
    BY DEF IInv, PlainSecond, TypeOK
  <2>3. /\ Plans' = Plans /\ Candidates' = Candidates
        /\ Positions(2)' = Positions(2) /\ Positions(3)' = Positions(3)
    BY <1>1 DEF input, Plans, Candidates, Positions
  <2>4. /\ scanner' = scanner /\ plain' = plain /\ first' = first
        /\ seconds' = seconds /\ inSecond' = inSecond /\ thirds' = thirds
        /\ ahead' = ahead /\ inThird' = inThird /\ batch' = batch /\ counted' = counted
        /\ floor' = floor
    BY DEF PlainSecond
  <2> QED BY <1>1, <2>1, <2>2, <2>3, <2>4 DEF IInv, TypeOK, input, Answer
<1>5. Places'
  <2>1. CASE Overlap(At(1, first), At(2, second))
    BY <1>1, <1>2, <2>1 DEF IInv, TypeOK, PlainSecond, Places
  <2>2. CASE ~Overlap(At(1, first), At(2, second))
    <3>1. ~Overlap(At(1, first), At(2, second))'
      BY <1>1, <2>2 DEF Overlap, At, input, PlainSecond
    <3> QED BY <1>1, <1>2, <2>2, <3>1 DEF IInv, TypeOK, PlainSecond, SecondOver, Places
  <2> QED BY <2>1, <2>2
<1>6. Ranges' /\ Lists'
  BY DEF PlainSecond, Ranges, Lists
<1>7. \A a, b, c \in P : ToCome(a, b, c)' => ToCome(a, b, c)
  BY <1>3 DEF IInv, TypeOK, PlainSecond, ToCome
<1>8. ASSUME NEW a \in P, NEW b \in P, NEW c \in P, Wanted(a, b, c), ToCome(a, b, c)
      PROVE  ToCome(a, b, c)'
  <2>1. ~Overlap(At(1, a), At(2, b))
    BY <1>8 DEF Wanted, Apart
  <2> QED BY <1>3, <1>8, <2>1 DEF IInv, TypeOK, PlainSecond, ToCome
<1>9. Ranked' /\ Best' /\ NoneLost' /\ NoneTwice'
  BY <1>1, <1>7, <1>8, Quiet DEF PlainSecond
<1> QED BY <1>4, <1>5, <1>6, <1>9 DEF IInv

LEMMA PlainThirdOverStep ==
    ASSUME IInv, PlainThirdOver
    PROVE  IInv'
<1>1. UNCHANGED <<input, floor, log>> /\ UNCHANGED input
  BY DEF PlainThirdOver, report
<1>2. Positions(1)' = Positions(1) /\ problem' = problem
  BY <1>1, Rigid DEF Songs, input
<1>3. \A m \in P : m \in Nat /\ m # 0
  BY PositionNumbers DEF IInv
<1>4. TypeOK'
  BY <1>1 DEF IInv, PlainThirdOver, TypeOK, report, input, Candidates, Positions, Plans, Answer
<1>5. Places'
  BY <1>1, <1>2 DEF IInv, TypeOK, PlainThirdOver, Places
<1>6. Ranges' /\ Lists'
  BY DEF PlainThirdOver, Ranges, Lists
<1>7. \A a, b, c \in P : ToCome(a, b, c)' => ToCome(a, b, c)
  BY <1>3 DEF IInv, TypeOK, PlainThirdOver, ToCome
<1>8. ASSUME NEW a \in P, NEW b \in P, NEW c \in P, Wanted(a, b, c), ToCome(a, b, c)
      PROVE  ToCome(a, b, c)'
  <2>1. ~(a = first /\ b = second /\ third <= c)
    BY <1>3, <1>8, WantedReaches DEF IInv, TypeOK, Places, PlainThirdOver, ThirdOver
  <2> QED BY <1>3, <1>8, <2>1 DEF IInv, TypeOK, PlainThirdOver, ToCome
<1>9. Ranked' /\ Best' /\ NoneLost' /\ NoneTwice'
  BY <1>1, <1>7, <1>8, Quiet DEF PlainThirdOver
<1> QED BY <1>4, <1>5, <1>6, <1>9 DEF IInv

LEMMA PlainThirdSkippedStep ==
    ASSUME IInv, PlainThirdSkipped
    PROVE  IInv'
<1>1. UNCHANGED <<input, floor, log>> /\ UNCHANGED input
  BY DEF PlainThirdSkipped
<1>2. Positions(1)' = Positions(1) /\ Positions(2)' = Positions(2) /\ problem' = problem
  BY <1>1, Rigid DEF Songs, input
<1>3. \A m \in P : m \in Nat /\ m # 0
  BY PositionNumbers DEF IInv
<1>4. TypeOK'
  <2>1. work' \in [pairs : Nat, thirds : Nat]
    BY DEF IInv, PlainThirdSkipped, TypeOK
  <2>2. third' \in Nat
    BY DEF IInv, PlainThirdSkipped, TypeOK
  <2>3. /\ Plans' = Plans /\ Candidates' = Candidates
        /\ Positions(2)' = Positions(2) /\ Positions(3)' = Positions(3)
    BY <1>1 DEF input, Plans, Candidates, Positions
  <2>4. /\ scanner' = scanner /\ plain' = plain /\ first' = first
        /\ seconds' = seconds /\ inSecond' = inSecond /\ thirds' = thirds
        /\ ahead' = ahead /\ inThird' = inThird /\ batch' = batch /\ counted' = counted
        /\ at' = at /\ second' = second /\ floor' = floor
    BY DEF PlainThirdSkipped
  <2> QED BY <1>1, <2>1, <2>2, <2>3, <2>4 DEF IInv, TypeOK, input, Answer
<1>5. Places'
  <2>1. Overlap(At(1, first), At(2, second))' = Overlap(At(1, first), At(2, second))
    BY <1>1 DEF Overlap, At, input, PlainThirdSkipped
  <2> QED BY <1>1, <1>2, <2>1 DEF IInv, TypeOK, PlainThirdSkipped, Places
<1>6. Ranges' /\ Lists'
  BY DEF PlainThirdSkipped, Ranges, Lists
<1>7. \A a, b, c \in P : ToCome(a, b, c)' => ToCome(a, b, c)
  BY <1>3 DEF IInv, TypeOK, PlainThirdSkipped, ToCome
<1>8. ASSUME NEW a \in P, NEW b \in P, NEW c \in P, Wanted(a, b, c), ToCome(a, b, c)
      PROVE  ToCome(a, b, c)'
  <2>1. ~(a = first /\ b = second /\ c = third)
    BY <1>8 DEF PlainThirdSkipped, Fits, Wanted, Apart
  <2> QED BY <1>3, <1>8, <2>1 DEF IInv, TypeOK, PlainThirdSkipped, ToCome
<1>9. Ranked' /\ Best' /\ NoneLost' /\ NoneTwice'
  BY <1>1, <1>7, <1>8, Quiet DEF PlainThirdSkipped
<1> QED BY <1>4, <1>5, <1>6, <1>9 DEF IInv

LEMMA FinishStep ==
    ASSUME IInv, Finish
    PROVE  IInv'
<1>1. UNCHANGED <<input, floor, log>> /\ UNCHANGED input
  BY DEF Finish, report
<1>2. problem' = problem
  BY <1>1 DEF input
<1>3. \A m \in P : m \in Nat /\ m # 0
  BY PositionNumbers DEF IInv
<1>4. TypeOK'
  BY <1>1 DEF IInv, Finish, TypeOK, report, loops, input, Candidates, Positions, Plans, Answer
<1>5. Places'
  BY <1>1, <1>2 DEF IInv, TypeOK, Finish, loops, Places
<1>6. Ranges' /\ Lists'
  <2>1. P' = P /\ \A b \in Positions(2), a \in P :
           (Score(1, a) + Score(2, b) + Top(3))' = Score(1, a) + Score(2, b) + Top(3)
    BY <1>1, Rigid DEF Songs
  <2>2. Positions(2)' = Positions(2)
    BY <1>1, Rigid DEF Songs
  <2> QED BY <1>1, <2>1, <2>2 DEF IInv, Finish, loops, report, Ranges, Lists
<1>7. \A a, b, c \in P : ToCome(a, b, c)' => ToCome(a, b, c)
  BY DEF Finish, ToCome
<1>8. ASSUME NEW a \in P, NEW b \in P, NEW c \in P, Wanted(a, b, c), ToCome(a, b, c)
      PROVE  ToCome(a, b, c)'
  BY <1>3, <1>8, WantedReaches DEF IInv, TypeOK, Places, Finish, FirstOver, ToCome
<1>9. Ranked' /\ Best' /\ NoneLost' /\ NoneTwice'
  BY <1>1, <1>7, <1>8, Quiet DEF Finish
<1> QED BY <1>4, <1>5, <1>6, <1>9 DEF IInv

LEMMA PlainVisitStep ==
    ASSUME IInv, PlainVisit
    PROVE  IInv'
<1>1. Ranked /\ UNCHANGED input /\ at = "third" /\ scanner = "plain"
  BY DEF IInv, PlainVisit
<1>2. /\ third \in P /\ first \in P /\ second \in P
      /\ first \in Nat /\ second \in Nat /\ third \in Nat /\ floor \in Int
  BY <1>1, KeptPositions DEF IInv, TypeOK, Places, PlainVisit, ThirdOver, Songs
<1>3. Total(first, second, third) >= floor /\ Total(first, second, third) \in Int
  BY <1>1, <1>2, PlanValue DEF PlainVisit, ThirdOver
<1>4. PICK ans \in Answers(Total(first, second, third)) :
         /\ Visit(third, ans)
         /\ at' = IF ans.stop THEN "stopped"
                  ELSE IF problem.goal = "maximum" THEN "second" ELSE "third"
         /\ IF ~ans.stop /\ problem.goal = "maximum"
              THEN second' = second + 1 /\ third' = third
              ELSE second' = second /\ third' = third + 1
  BY DEF PlainVisit
<1>5. /\ ans \in Answer
      /\ problem.goal = "maximum" => ans = [stop |-> FALSE, floor |-> Total(first, second, third) + 1]
  BY <1>3, <1>4, AnswersType
<1>6. floor' \in Int /\ (~ans.stop => ans.floor <= floor')
  BY <1>1, <1>2, <1>4, <1>5, Logged
<1>7. \A m \in P : m \in Nat /\ m # 0
  BY <1>1, PositionNumbers
<1>8. ASSUME NEW i \in P, NEW j \in P, NEW k \in P, ToCome(i, j, k)'
      PROVE  ToCome(i, j, k) /\ ~(i = first /\ j = second /\ k = third)
  BY <1>1, <1>2, <1>4, <1>7, <1>8 DEF PlainVisit, ToCome
<1>9. ASSUME NEW i \in P, NEW j \in P, NEW k \in P,
             Wanted(i, j, k)', ToCome(i, j, k), ~ans.stop
      PROVE  ToCome(i, j, k)' \/ (i = first /\ j = second /\ k = third)
  <2>1. CASE problem.goal = "maximum"
    <3>1. Total(i, j, k) >= floor'
      BY <1>1, <1>9, Rigid DEF Wanted
    <3>2. ~(i = first /\ j = second /\ third <= k)
      <4> SUFFICES ASSUME i = first, j = second, third <= k PROVE FALSE
        OBVIOUS
      <4>1. Score(3, k) <= Score(3, third) /\ Score(3, k) \in Int /\ Score(3, third) \in Int
        BY <1>1, <1>2, Scores DEF Songs
      <4>2. Score(1, first) \in Int /\ Score(2, second) \in Int
        BY <1>1, <1>2, Scores DEF Songs
      <4>3. floor' >= Total(first, second, third) + 1 /\ floor' \in Int
        BY <1>3, <1>5, <1>6, <1>9, <2>1
      <4> QED BY <3>1, <4>1, <4>2, <4>3 DEF Total
    <3> QED BY <1>1, <1>2, <1>4, <1>7, <1>9, <2>1, <3>2 DEF PlainVisit, ToCome
  <2>2. CASE problem.goal # "maximum"
    BY <1>1, <1>2, <1>4, <1>7, <1>9, <2>2 DEF PlainVisit, ToCome
  <2> QED BY <2>1, <2>2
<1>10. at' = "stopped" <=> ans.stop
  BY <1>4
<1>11. /\ Ranked' /\ Best' /\ NoneLost' /\ NoneTwice'
       /\ log' \in Seq([plan : Plans, answer : Answer])
       /\ floor' \in Int /\ floor <= floor'
  <2>1. \A i, j, k \in P :
           Wanted(i, j, k) /\ Wanted(i, j, k)' /\ ToCome(i, j, k) /\ ~ans.stop
             => ToCome(i, j, k)' \/ (i = first /\ j = second /\ k = third)
    BY <1>9
  <2>2. \A i, j, k \in P : ToCome(i, j, k)' =>
           ToCome(i, j, k) /\ ~(i = first /\ j = second /\ k = third)
    BY <1>8
  <2>3. at # "stopped" /\ UNCHANGED input /\ Visit(third, ans)
    BY <1>1, <1>4
  <2>4. Total(first, second, third) >= floor
    BY <1>3
  <2> QED BY <1>2, <1>4, <1>10, <2>1, <2>2, <2>3, <2>4, Reporting
<1>12. problem' = problem /\ order' = order /\ kept' = kept /\ song' = song
  BY <1>1 DEF input
<1>13. TypeOK'
  <2>1. Plans' = Plans /\ Candidates' = Candidates
        /\ Positions(2)' = Positions(2) /\ Positions(3)' = Positions(3)
    BY <1>12 DEF Plans, Candidates, Positions
  <2>2. work' \in [pairs : Nat, thirds : Nat]
    BY DEF IInv, TypeOK, PlainVisit
  <2>3. at' \in {"first", "second", "third", "batch", "finished", "stopped"}
    BY <1>4
  <2>4. second' \in Nat /\ third' \in Nat
    BY <1>2, <1>4
  <2> QED BY <1>11, <1>12, <2>1, <2>2, <2>3, <2>4 DEF IInv, TypeOK, PlainVisit, Answer
<1>14. Places'
  <2>1. Positions(1)' = Positions(1) /\ Positions(2)' = Positions(2)
    BY <1>12 DEF Positions
  <2>2. problem.floor \in Int
    BY <1>1, Inputs
  <2>3. second' # 0 /\ third' # 0
    BY <1>2, <1>4 DEF IInv, Places
  <2>4. problem.floor <= floor'
    BY <1>2, <1>11, <2>2 DEF IInv, Places
  <2>5. second' = second => Overlap(At(1, first), At(2, second))' = Overlap(At(1, first), At(2, second))
    BY <1>12 DEF PlainVisit, Overlap, At
  <2>6. /\ at' # "batch" /\ first' = first
        /\ at' = "third" => second' = second
    BY <1>4 DEF PlainVisit
  <2> QED BY <1>1, <1>12, <2>1, <2>3, <2>4, <2>5, <2>6 DEF IInv, Places
<1>15. Ranges' /\ Lists'
  BY DEF PlainVisit, Ranges, Lists
<1> QED BY <1>11, <1>13, <1>14, <1>15 DEF IInv

-----------------------------------------------------------------------------
(* The other scanner begins                                                *)

LEMMA AgainStep ==
    ASSUME IInv, Again
    PROVE  IInv'
<1>1. UNCHANGED input /\ log' = <<>> /\ floor' = problem.floor /\ at' = "first" /\ first' = 1
  BY DEF Again
<1>2. Ranked' /\ Ranked
  BY <1>1, Rigid DEF IInv
<1>3. problem' = problem /\ order' = order /\ kept' = kept /\ song' = song
  BY <1>1 DEF input
<1>4. problem.floor \in Int
  BY <1>2, Inputs
<1>5. TypeOK'
  <2>1. Plans' = Plans /\ Candidates' = Candidates
        /\ Positions(2)' = Positions(2) /\ Positions(3)' = Positions(3)
    BY <1>3 DEF Plans, Candidates, Positions
  <2> QED BY <1>1, <1>3, <1>4, <2>1 DEF IInv, TypeOK, Again, NoWork, NotCounted, Answer
<1>6. Places'
  BY <1>1, <1>3, <1>4 DEF Again, Places
<1>7. Ranges' /\ Lists'
  <2>1. Positions(2)' = Positions(2)
    BY <1>3 DEF Positions
  <2> QED BY <1>1, <2>1 DEF Again, Ranges, Lists
<1>8. \A m \in P : m \in Nat /\ m # 0
  BY <1>2, PositionNumbers
<1>9. P' = P
  BY <1>1, Rigid
<1>10. NoneLost'
  BY <1>1, <1>8, <1>9 DEF NoneLost, ToCome
<1>11. NoneTwice'
  BY <1>1 DEF NoneTwice, Visited
<1>12. Best'
  BY <1>1, <1>3 DEF Best
<1> QED BY <1>2, <1>5, <1>6, <1>7, <1>10, <1>11, <1>12 DEF IInv

-----------------------------------------------------------------------------
(* The scanner that reuses what fits the first team                        *)

LEMMA SmallestPosition ==
    ASSUME Ranked, NEW S \in SUBSET P, S # {}
    PROVE  Smallest(S) \in S /\ \A m \in S : Smallest(S) <= m
<1>1. S \in SUBSET Nat
  BY PositionNumbers
<1> DEFINE Less == OpToRel(<, Nat)
<1>2. \A m, n \in Nat : <<m, n>> \in Less <=> m < n
  BY DEF OpToRel
<1>3. IsWellFoundedOn(Less, Nat)
  BY NatLessThanWellFounded
<1> HIDE DEF Less
<1>4. PICK n \in S : \A m \in S : <<m, n>> \notin Less
  BY <1>1, <1>3, WFMin
<1>5. ASSUME NEW m \in S PROVE n <= m
  <2>1. m \in Nat /\ n \in Nat
    BY <1>1
  <2>2. ~(m < n)
    BY <1>2, <1>4, <2>1
  <2> QED BY <2>1, <2>2
<1> QED BY <1>5 DEF Smallest

(* Counting what is behind never leaves the naturals.                      *)
LEMMA BehindType ==
    ASSUME Ranked, NEW S \in SUBSET P, NEW n \in Nat
    PROVE  Behind(S, n) \in Nat
<1> DEFINE N == Cardinality(Candidates)
<1>1. N \in Nat /\ P = 1 .. N
  BY Inputs DEF P
<1> HIDE DEF N
<1>2. IsFiniteSet(P)
  BY <1>1, FS_Interval
<1>3. Cardinality(S) \in Nat
  BY <1>2, FS_Subset, FS_CardinalityType
<1> QED BY <1>3 DEF Behind

(* The second range leaves out only what is not wanted, also for later     *)
(* first teams.                                                            *)
LEMMA SecondRangeSound ==
    ASSUME IInv, scanner = "reuse", first \in P
    PROVE  \A b \in Positions(2) \ SecondRange(first, inSecond) : \A a \in P :
              a >= first => Score(1, a) + Score(2, b) + Top(3) < floor
<1>1. Ranked /\ floor \in Int
  BY DEF IInv, TypeOK
<1> SUFFICES ASSUME NEW b \in Positions(2), b \notin SecondRange(first, inSecond),
                    NEW a \in P, a >= first
             PROVE  Score(1, a) + Score(2, b) + Top(3) < floor
  OBVIOUS
<1>2. CASE b \notin inSecond
  BY <1>2 DEF IInv, Ranges
<1>3. CASE b \in inSecond
  <2>1. b \in P
    BY <1>1, KeptPositions DEF Songs
  <2>2. Score(1, a) \in Int /\ Score(1, first) \in Int /\ Score(2, b) \in Int /\ Top(3) \in Int
    BY <1>1, <2>1, Scores, Tops DEF Songs
  <2>3. ~(Score(1, first) + Score(2, b) + Top(3) >= floor)
    BY <1>3 DEF SecondRange
  <2>4. Score(1, a) <= Score(1, first)
    BY <1>1, PositionNumbers, Scores DEF Songs
  <2> QED BY <1>1, <2>2, <2>3, <2>4
<1> QED BY <1>2, <1>3

LEMMA ReuseFirstStep ==
    ASSUME IInv, ReuseFirst
    PROVE  IInv'
<1>1. /\ UNCHANGED <<input, floor, log>> /\ UNCHANGED input
      /\ Ranked /\ scanner = "reuse" /\ at = "first"
  BY DEF IInv, ReuseFirst, report
<1>2. problem' = problem /\ order' = order /\ kept' = kept /\ song' = song
  BY <1>1 DEF input
<1>3. \A m \in P : m \in Nat /\ m # 0
  BY <1>1, PositionNumbers
<1>4. first \in Positions(1) /\ first \in P /\ inSecond \subseteq Positions(2) /\ Positions(2) \subseteq P
  BY <1>1, KeptPositions DEF IInv, TypeOK, ReuseFirst, FirstOver, Songs
<1>5. inSecond' = SecondRange(first, inSecond) /\ inSecond' \subseteq inSecond
  BY DEF ReuseFirst, SecondRange
<1>6. seconds' = {b \in inSecond' : ~Overlap(At(1, first), At(2, b))}
  BY DEF ReuseFirst
<1>7. /\ Positions(1)' = Positions(1) /\ Positions(2)' = Positions(2) /\ Positions(3)' = Positions(3)
      /\ Plans' = Plans /\ Candidates' = Candidates /\ P' = P
  BY <1>2 DEF Positions, Plans, Candidates, P
<1>8. TypeOK'
  <2>1. counted' \in [pairs : Nat, thirds : Nat]
    BY DEF IInv, TypeOK, ReuseFirst
  <2>2. /\ inSecond' \subseteq Positions(2) /\ seconds' \subseteq Positions(2)
        /\ inThird' \subseteq Positions(3) /\ thirds' = {} /\ ahead' = {} /\ batch' = {}
    BY <1>1, <1>4, <1>5, <1>6 DEF IInv, Lists, ReuseFirst
  <2> QED BY <1>1, <1>2, <1>7, <2>1, <2>2 DEF IInv, TypeOK, ReuseFirst, report, Answer
<1>9. Places'
  BY <1>1, <1>2, <1>4, <1>7 DEF IInv, ReuseFirst, Places
<1>10. Ranges'
  <2>1. \A b \in Positions(2) \ inSecond' : \A a \in P :
           a >= first => Score(1, a) + Score(2, b) + Top(3) < floor
    BY <1>1, <1>4, <1>5, SecondRangeSound
  <2>2. first' = first /\ at' = "second" /\ inThird' = Positions(3)
    BY DEF ReuseFirst
  <2> QED BY <1>1, <1>7, <2>1, <2>2, Rigid DEF Ranges, Songs
<1>11. Lists'
  <2>1. \A b \in seconds' : ~Overlap(At(1, first), At(2, b)) /\ 0 < b
    BY <1>3, <1>4, <1>5, <1>6
  <2>2. \A b : Overlap(At(1, first), At(2, b))' = Overlap(At(1, first), At(2, b))
    BY <1>2 DEF ReuseFirst, Overlap, At
  <2>3. counted'.pairs = 0 /\ at' = "second" /\ thirds' = {} /\ batch' = {}
    BY <1>1 DEF IInv, TypeOK, Lists, ReuseFirst
  <2> QED BY <2>1, <2>2, <2>3 DEF Lists
<1>12. \A a, b, c \in P : ToCome(a, b, c)' => ToCome(a, b, c)
  BY <1>3, <1>4 DEF ReuseFirst, ToCome
<1>13. ASSUME NEW a \in P, NEW b \in P, NEW c \in P, Wanted(a, b, c), ToCome(a, b, c)
      PROVE  ToCome(a, b, c)'
  <2>1. counted'.pairs = 0 /\ at' = "second" /\ first' = first /\ scanner' = "reuse"
    BY <1>1 DEF IInv, TypeOK, ReuseFirst
  <2>2. a >= first
    BY <1>1, <1>13 DEF ToCome
  <2>3. CASE a > first
    BY <2>1, <2>3 DEF ToCome
  <2>4. CASE a = first
    <3>1. b \in Positions(2) /\ ~(Score(1, first) + Score(2, b) + Top(3) < floor)
      BY <1>3, <1>13, <2>4, WantedReaches
    <3>2. b \in inSecond'
      BY <1>1, <1>3, <1>4, <1>5, <3>1, SecondRangeSound
    <3>3. b \in seconds'
      BY <1>6, <1>13, <2>4, <3>2 DEF Wanted, Apart
    <3> QED BY <2>1, <2>4, <3>3 DEF ToCome
  <2> QED BY <1>3, <1>4, <2>2, <2>3, <2>4
<1>14. Ranked' /\ Best' /\ NoneLost' /\ NoneTwice'
  BY <1>1, <1>12, <1>13, Quiet DEF ReuseFirst
<1> QED BY <1>8, <1>9, <1>10, <1>11, <1>14 DEF IInv

LEMMA ReuseSecondOverStep ==
    ASSUME IInv, ReuseSecondOver
    PROVE  IInv'
<1>1. /\ UNCHANGED <<input, floor, log>> /\ UNCHANGED input
      /\ Ranked /\ scanner = "reuse" /\ at = "second"
  BY DEF IInv, ReuseSecondOver
<1>2. problem' = problem /\ order' = order /\ kept' = kept /\ song' = song
  BY <1>1 DEF input
<1>3. \A m \in P : m \in Nat /\ m # 0
  BY <1>1, PositionNumbers
<1>4. /\ first \in P /\ first \in Nat
      /\ inSecond \subseteq Positions(2) /\ Positions(2) \subseteq P /\ seconds \subseteq Positions(2)
  BY <1>1, KeptPositions DEF IInv, TypeOK, Places, Songs
<1>5. inSecond' = SecondRange(first, inSecond) /\ inSecond' \subseteq inSecond
  BY DEF ReuseSecondOver, SecondRange
<1>6. first' = first + 1 /\ at' = "first"
  BY DEF ReuseSecondOver
<1>7. /\ Positions(1)' = Positions(1) /\ Positions(2)' = Positions(2) /\ Positions(3)' = Positions(3)
      /\ Plans' = Plans /\ Candidates' = Candidates /\ P' = P
  BY <1>2 DEF Positions, Plans, Candidates, P
<1>8. TypeOK'
  <2>1. counted.pairs \in Nat
    BY DEF IInv, TypeOK
  <2>2. Behind(inSecond', counted.pairs) \in Nat
    BY <1>1, <1>4, <1>5, <2>1, BehindType
  <2> DEFINE more == Behind(inSecond', counted.pairs)
  <2> HIDE DEF more
  <2>3. work' \in [pairs : Nat, thirds : Nat]
    <3>1. work \in [pairs : Nat, thirds : Nat] /\ work' = [work EXCEPT !.pairs = @ + more]
      BY DEF IInv, TypeOK, ReuseSecondOver, more
    <3>2. more \in Nat
      BY <2>2 DEF more
    <3> QED BY <3>1, <3>2
  <2> QED BY <1>1, <1>2, <1>4, <1>5, <1>6, <1>7, <2>3 DEF IInv, TypeOK, ReuseSecondOver, Answer
<1>9. Places'
  BY <1>1, <1>2, <1>4, <1>6 DEF IInv, ReuseSecondOver, Places
<1>10. Ranges'
  <2>1. \A b \in Positions(2) \ inSecond' : \A a \in P :
           a >= first + 1 => Score(1, a) + Score(2, b) + Top(3) < floor
    BY <1>1, <1>3, <1>4, <1>5, SecondRangeSound
  <2> QED BY <1>1, <1>6, <1>7, <2>1, Rigid DEF Ranges, Songs
<1>11. Lists'
  BY <1>1, <1>6 DEF IInv, ReuseSecondOver, Lists
<1>12. \A a, b, c \in P : ToCome(a, b, c)' => ToCome(a, b, c)
  BY <1>1, <1>3, <1>4, <1>6 DEF ToCome
<1>13. ASSUME NEW a \in P, NEW b \in P, NEW c \in P, Wanted(a, b, c), ToCome(a, b, c)
      PROVE  ToCome(a, b, c)'
  <2>1. CASE a > first
    BY <1>3, <1>4, <1>6, <2>1 DEF ToCome
  <2>2. CASE a = first /\ b \in seconds
    <3>1. NextSecond \in seconds /\ NextSecond <= b
      BY <1>1, <1>4, <2>2, SmallestPosition DEF NextSecond
    <3>2. NextSecond \in Nat /\ NextSecond # 0
      BY <1>3, <1>4, <3>1
    <3>3. ~(Score(1, a) + Score(2, NextSecond) + Top(3) < floor)
      BY <1>13, <3>1, <3>2, WantedReaches
    <3> QED BY <2>2, <3>3 DEF ReuseSecondOver, SecondsOver
  <2> QED BY <1>1, <1>13, <2>1, <2>2 DEF ToCome
<1>14. Ranked' /\ Best' /\ NoneLost' /\ NoneTwice'
  BY <1>1, <1>6, <1>12, <1>13, Quiet
<1> QED BY <1>8, <1>9, <1>10, <1>11, <1>14 DEF IInv

(* The third range for a pair leaves out only what is not wanted.          *)
LEMMA ThirdRangeSound ==
    ASSUME Ranked, NEW i \in P, i = first, NEW b \in P, NEW range \in SUBSET Positions(3), NEW low \in Int,
           \A c \in Positions(3) \ range : Total(i, b, c) < low
    PROVE  /\ ThirdRange(b, range, low) \subseteq Positions(3)
           /\ \A c \in Positions(3) \ ThirdRange(b, range, low) : Total(i, b, c) < low
           /\ \A c \in ThirdRange(b, range, low) : Total(i, b, c) >= low
<1>1. ThirdRange(b, range, low) \subseteq Positions(3)
  BY DEF ThirdRange
<1>2. ASSUME NEW c \in Positions(3), c \notin ThirdRange(b, range, low)
      PROVE  Total(i, b, c) < low
  <2>1. CASE c \notin range
    BY <2>1
  <2>2. CASE c \in range
    <3>1. ~(Total(i, b, c) >= low)
      BY <1>2, <2>2 DEF ThirdRange
    <3>2. c \in P
      BY KeptPositions DEF Songs
    <3>3. Total(i, b, c) \in Int
      BY <3>2, PlanValue
    <3> QED BY <3>1, <3>3
  <2> QED BY <2>1, <2>2
<1>3. \A c \in ThirdRange(b, range, low) : Total(i, b, c) >= low
  BY DEF ThirdRange
<1> QED BY <1>1, <1>2, <1>3

LEMMA ReuseSecondStep ==
    ASSUME IInv, ReuseSecond
    PROVE  IInv'
<1> DEFINE n == NextSecond
<1>1. /\ UNCHANGED <<input, floor, log>> /\ UNCHANGED input
      /\ Ranked /\ scanner = "reuse" /\ at = "second"
      /\ scanner' = scanner /\ at' = "third" /\ first' = first /\ batch = {} /\ batch' = {}
      /\ inSecond' = inSecond /\ third' = third
  BY DEF IInv, Lists, ReuseSecond
<1>2. problem' = problem /\ order' = order /\ kept' = kept /\ song' = song
  BY <1>1 DEF input
<1>3. \A m \in P : m \in Nat /\ m # 0
  BY <1>1, PositionNumbers
<1>4. /\ first \in P /\ first \in Nat /\ floor \in Int
      /\ seconds \subseteq Positions(2) /\ Positions(2) \subseteq P
      /\ inThird \subseteq Positions(3) /\ Positions(3) \subseteq P /\ thirds \subseteq Positions(3)
  BY <1>1, KeptPositions DEF IInv, TypeOK, Places, Songs
<1>5. /\ n \in seconds /\ n \in P /\ n \in Nat /\ n # 0
      /\ \A b \in seconds : n <= b
  <2>1. seconds # {}
    BY DEF ReuseSecond, SecondsOver
  <2>2. seconds \in SUBSET P
    BY <1>4
  <2>3. n \in seconds /\ \A b \in seconds : n <= b
    BY <1>1, <2>1, <2>2, SmallestPosition DEF NextSecond
  <2> QED BY <1>3, <2>2, <2>3
<1>6. /\ second' = n /\ seconds' = seconds \ {n}
      /\ counted' = [pairs |-> n, thirds |-> 0]
      /\ inThird' = ThirdRange(n, inThird, floor)
      /\ thirds' = IF counted.pairs # 0 THEN thirds
                   ELSE {c \in inThird' : ~Overlap(At(1, first), At(3, c))}
      /\ ahead' = thirds'
  BY DEF ReuseSecond
<1>7. /\ Positions(1)' = Positions(1) /\ Positions(2)' = Positions(2) /\ Positions(3)' = Positions(3)
      /\ Plans' = Plans /\ Candidates' = Candidates /\ P' = P
  BY <1>2 DEF Positions, Plans, Candidates, P
<1>8. /\ inThird' \subseteq Positions(3)
      /\ \A c \in Positions(3) \ inThird' : Total(first, n, c) < floor
      /\ \A c \in inThird' : Total(first, n, c) >= floor
  <2>1. \A c \in Positions(3) \ inThird : Total(first, n, c) < floor
    BY <1>1, <1>5 DEF IInv, Ranges
  <2> QED BY <1>1, <1>4, <1>5, <1>6, <2>1, ThirdRangeSound
<1>9. thirds' \subseteq Positions(3)
  BY <1>4, <1>6, <1>8
<1>10. counted.pairs \in Nat /\ counted.pairs < n
  BY <1>1, <1>5 DEF IInv, TypeOK, Lists
<1> HIDE DEF n
<1>11. TypeOK'
  <2>1. work' \in [pairs : Nat, thirds : Nat]
    <3>1. work' = [work EXCEPT !.pairs = @ + n - counted.pairs]
      BY DEF ReuseSecond, n
    <3> QED BY <1>5, <1>10, <3>1 DEF IInv, TypeOK
  <2>2. counted' \in [pairs : Nat, thirds : Nat]
    BY <1>5, <1>6
  <2>3. plain' = plain /\ seconds' \subseteq Positions(2)
    BY <1>4, <1>6 DEF ReuseSecond
  <2> QED BY <1>1, <1>2, <1>5, <1>6, <1>7, <1>8, <1>9, <2>1, <2>2, <2>3 DEF IInv, TypeOK, Answer
<1>12. \A b : Overlap(At(1, first), At(2, b))' = Overlap(At(1, first), At(2, b))
  BY <1>1, <1>2 DEF Overlap, At
<1>13. Places'
  <2>1. ~Overlap(At(1, first), At(2, n))
    BY <1>1, <1>5 DEF IInv, Lists
  <2>2. Overlap(At(1, first), At(2, second))' = Overlap(At(1, first), At(2, n))
    BY <1>1, <1>2, <1>6 DEF Overlap, At
  <2>3. n \in Positions(2)
    BY <1>4, <1>5
  <2> QED BY <1>1, <1>2, <1>5, <1>6, <1>7, <2>1, <2>2, <2>3 DEF IInv, Places
<1>14. Ranges'
  <2>1. \A b \in Positions(2) \ inSecond : \A a \in P :
           a >= first => Score(1, a) + Score(2, b) + Top(3) < floor
    BY <1>1 DEF IInv, Ranges
  <2>3. \A a, b, c : Total(a, b, c)' = Total(a, b, c)
    BY <1>1, Rigid
  <2>4. \A a, b : (Score(1, a) + Score(2, b) + Top(3))' = Score(1, a) + Score(2, b) + Top(3)
    BY <1>1, Rigid DEF Songs
  <2> QED BY <1>1, <1>6, <1>7, <1>8, <2>1, <2>3, <2>4 DEF Ranges
<1>15. Lists'
  <2>1. \A b \in seconds' : ~Overlap(At(1, first), At(2, b)) /\ n < b
    <3>1. \A b \in seconds : b \in Nat /\ n <= b /\ ~Overlap(At(1, first), At(2, b))
      BY <1>1, <1>3, <1>4, <1>5 DEF IInv, Lists
    <3> QED BY <1>5, <1>6, <3>1
  <2>2. \A c \in thirds' : ~Overlap(At(1, first), At(3, c)) /\ 0 < c
    <3>1. \A c \in thirds : ~Overlap(At(1, first), At(3, c))
      BY <1>1 DEF IInv, Lists
    <3>2. \A c \in thirds' : c \in Nat /\ c # 0
      BY <1>3, <1>4, <1>9
    <3> QED BY <1>6, <3>1, <3>2
  <2>3. \A c : Overlap(At(1, first), At(3, c))' = Overlap(At(1, first), At(3, c))
    BY <1>1, <1>2 DEF Overlap, At
  <2> QED BY <1>1, <1>6, <1>12, <2>1, <2>2, <2>3 DEF Lists
<1>16. ASSUME NEW a \in P, NEW b \in P, NEW c \in P, ToCome(a, b, c)'
       PROVE  ToCome(a, b, c)
  BY <1>1, <1>5, <1>6, <1>16 DEF ToCome
<1>17. ASSUME NEW a \in P, NEW b \in P, NEW c \in P, Wanted(a, b, c), ToCome(a, b, c)
      PROVE  ToCome(a, b, c)'
  <2>1. CASE a > first
    BY <1>1, <2>1 DEF ToCome
  <2>2. CASE a = first /\ b \in seconds /\ (counted.pairs # 0 => c \in thirds)
    <3>1. c \in thirds'
      <4>1. CASE counted.pairs # 0
        BY <1>6, <2>2, <4>1
      <4>2. CASE counted.pairs = 0
        <5>1. c \in Positions(3) /\ inThird = Positions(3)
          <6>1. c \in Nat /\ c # 0 /\ c <= c
            BY <1>3
          <6> QED BY <1>1, <1>17, <4>2, <6>1, WantedReaches DEF IInv, Ranges
        <5>2. Total(first, n, c) >= floor
          <6>1. Score(2, b) <= Score(2, n) /\ Score(2, b) \in Int /\ Score(2, n) \in Int
            BY <1>1, <1>5, <2>2, Scores DEF Songs
          <6>2. Score(1, first) \in Int /\ Score(3, c) \in Int
            BY <1>1, <1>4, Scores DEF Songs
          <6>3. Total(first, b, c) >= floor
            BY <1>17, <2>2 DEF Wanted
          <6> QED BY <1>4, <6>1, <6>2, <6>3 DEF Total
        <5>3. c \in inThird'
          BY <1>6, <5>1, <5>2 DEF ThirdRange
        <5>4. ~Overlap(At(1, first), At(3, c))
          BY <1>17, <2>2 DEF Wanted, Apart
        <5> QED BY <1>6, <4>2, <5>3, <5>4
      <4> QED BY <4>1, <4>2
    <3> QED BY <1>1, <1>6, <2>2, <3>1 DEF ToCome
  <2> QED BY <1>1, <1>17, <2>1, <2>2 DEF ToCome
<1>18. Ranked' /\ Best' /\ NoneLost' /\ NoneTwice'
  BY <1>1, <1>16, <1>17, Quiet
<1> QED BY <1>11, <1>13, <1>14, <1>15, <1>18 DEF IInv

(* The end of the third loop, when nothing that is left is wanted.         *)
LEMMA LeaveThirdLoop ==
    ASSUME IInv, scanner = "reuse", at \in {"third", "batch"},
           \A c \in P : c \in ahead \/ c \in batch => Total(first, second, c) < floor,
           work' = [work EXCEPT !.thirds = @ + Behind(inThird, counted.thirds)],
           batch' = {}, at' = "second",
           UNCHANGED <<input, scanner, first, second, seconds, inSecond, third, thirds,
                       ahead, inThird, counted, floor, log, plain>>
    PROVE  IInv'
<1>1. /\ UNCHANGED <<input, floor, log>> /\ UNCHANGED input
      /\ Ranked
  BY DEF IInv
<1>2. problem' = problem /\ order' = order /\ kept' = kept /\ song' = song
  BY <1>1 DEF input
<1>3. \A m \in P : m \in Nat /\ m # 0
  BY <1>1, PositionNumbers
<1>4. /\ first \in P /\ first \in Nat /\ second \in P /\ second \in Nat /\ floor \in Int
      /\ seconds \subseteq Positions(2) /\ Positions(2) \subseteq P
      /\ inThird \subseteq Positions(3) /\ Positions(3) \subseteq P
  BY <1>1, KeptPositions DEF IInv, TypeOK, Places, Songs
<1>5. /\ Positions(1)' = Positions(1) /\ Positions(2)' = Positions(2) /\ Positions(3)' = Positions(3)
      /\ Plans' = Plans /\ Candidates' = Candidates /\ P' = P
  BY <1>2 DEF Positions, Plans, Candidates, P
<1>6. TypeOK'
  <2>1. counted.thirds \in Nat
    BY DEF IInv, TypeOK
  <2>2. Behind(inThird, counted.thirds) \in Nat
    BY <1>1, <1>4, <2>1, BehindType
  <2> DEFINE more == Behind(inThird, counted.thirds)
  <2>3. work \in [pairs : Nat, thirds : Nat] /\ work' = [work EXCEPT !.thirds = @ + more]
    BY DEF IInv, TypeOK
  <2> HIDE DEF more
  <2>4. more \in Nat
    BY <2>2 DEF more
  <2>5. work' \in [pairs : Nat, thirds : Nat]
    BY <2>3, <2>4
  <2> QED BY <1>2, <1>5, <2>5 DEF IInv, TypeOK, Answer
<1>7. Places'
  BY <1>2, <1>5 DEF IInv, Places
<1>8. counted.pairs = second /\ \A b \in seconds : counted.pairs < b
  BY DEF IInv, Lists
<1>9. Ranges'
  <2>1. \A b \in Positions(2) \ inSecond : \A a \in P :
           a >= first => Score(1, a) + Score(2, b) + Top(3) < floor
    BY DEF IInv, Ranges
  <2>2. ASSUME NEW b \in seconds, NEW c \in Positions(3), c \notin inThird
        PROVE  Total(first, b, c) < floor
    <3>1. Total(first, second, c) < floor
      BY <2>2 DEF IInv, Ranges
    <3>2. b \in P /\ second <= b /\ c \in P
      BY <1>3, <1>4, <1>8
    <3>3. Score(2, b) <= Score(2, second) /\ Score(2, b) \in Int /\ Score(2, second) \in Int
      BY <1>1, <1>4, <3>2, Scores DEF Songs
    <3>4. Score(1, first) \in Int /\ Score(3, c) \in Int
      BY <1>1, <1>4, <3>2, Scores DEF Songs
    <3> QED BY <1>4, <3>1, <3>3, <3>4 DEF Total
  <2>3. \A a, b, c : Total(a, b, c)' = Total(a, b, c)
    BY <1>1, Rigid
  <2>4. \A a, b : (Score(1, a) + Score(2, b) + Top(3))' = Score(1, a) + Score(2, b) + Top(3)
    BY <1>1, Rigid DEF Songs
  <2>5. counted'.pairs # 0
    BY <1>3, <1>4, <1>8
  <2> QED BY <1>5, <2>1, <2>2, <2>3, <2>4, <2>5 DEF Ranges
<1>10. Lists'
  <2>1. \A x, m, n : Overlap(At(1, m), At(x, n))' = Overlap(At(1, m), At(x, n))
    BY <1>2 DEF Overlap, At
  <2> QED BY <2>1 DEF IInv, Lists
<1>11. \A a, b, c \in P : ToCome(a, b, c)' => ToCome(a, b, c)
  BY DEF ToCome
<1>12. ASSUME NEW a \in P, NEW b \in P, NEW c \in P, Wanted(a, b, c), ToCome(a, b, c)
       PROVE  ToCome(a, b, c)'
  <2>1. Total(a, b, c) \in Int /\ Total(a, b, c) >= floor
    BY <1>1, <1>12, PlanValue DEF Wanted
  <2>2. ~(a = first /\ b = second /\ (c \in ahead \/ c \in batch))
    BY <1>4, <2>1
  <2> QED BY <1>12, <2>2 DEF ToCome
<1>13. Ranked' /\ Best' /\ NoneLost' /\ NoneTwice'
  BY <1>1, <1>11, <1>12, Quiet
<1> QED BY <1>6, <1>7, <1>9, <1>10, <1>13 DEF IInv

LEMMA ReuseThirdOverStep ==
    ASSUME IInv, ReuseThirdOver
    PROVE  IInv'
<1>1. scanner = "reuse" /\ at = "third" /\ batch = {}
  BY DEF IInv, ReuseThirdOver, Lists
<1>2. \A c \in P : c \in ahead \/ c \in batch => Total(first, second, c) < floor
  <2>1. ahead \subseteq Positions(3) /\ ahead \cap inThird = {}
    BY DEF IInv, TypeOK, ReuseThirdOver
  <2> QED BY <1>1, <2>1 DEF IInv, Ranges
<1>3. /\ work' = [work EXCEPT !.thirds = @ + Behind(inThird, counted.thirds)]
      /\ batch' = {} /\ at' = "second"
      /\ UNCHANGED <<input, scanner, first, second, seconds, inSecond, third, thirds,
                     ahead, inThird, counted, floor, log, plain>>
  BY <1>1 DEF ReuseThirdOver, loops
<1> QED BY <1>1, <1>2, <1>3, LeaveThirdLoop

LEMMA ReuseBatchBelowStep ==
    ASSUME IInv, ReuseBatchBelow
    PROVE  IInv'
<1> DEFINE low == Smallest(batch)
<1>1. scanner = "reuse" /\ at = "batch" /\ batch # {} /\ low \notin inThird
  BY DEF ReuseBatchBelow, BelowFloor
<1>2. Ranked /\ thirds \subseteq Positions(3) /\ Positions(3) \subseteq P /\ batch \subseteq thirds
  BY KeptPositions DEF IInv, TypeOK, Songs
<1>3. low \in batch /\ \A c \in batch : low <= c
  BY <1>1, <1>2, SmallestPosition
<1>4. first \in P /\ second \in P /\ low \in P /\ floor \in Int
  BY <1>1, <1>2, <1>3, KeptPositions DEF IInv, TypeOK, Places, Songs
<1>5. Total(first, second, low) < floor
  BY <1>1, <1>2, <1>3 DEF IInv, Ranges
<1> HIDE DEF low
<1>6. ASSUME NEW c \in P, c \in ahead \/ c \in batch
      PROVE  Total(first, second, c) < floor
  <2>1. \A d \in ahead : low < d
    BY <1>1, <1>3 DEF IInv, Lists
  <2>2. low <= c
    BY <1>2, <1>3, <1>4, <1>6, <2>1, PositionNumbers
  <2>3. Score(3, c) <= Score(3, low) /\ Score(3, c) \in Int /\ Score(3, low) \in Int
    BY <1>2, <1>4, <2>2, Scores DEF Songs
  <2>4. Score(1, first) \in Int /\ Score(2, second) \in Int
    BY <1>2, <1>4, Scores DEF Songs
  <2> QED BY <1>4, <1>5, <2>3, <2>4 DEF Total
<1>7. /\ work' = [work EXCEPT !.thirds = @ + Behind(inThird, counted.thirds)]
      /\ batch' = {} /\ at' = "second"
      /\ UNCHANGED <<input, scanner, first, second, seconds, inSecond, third, thirds,
                     ahead, inThird, counted, floor, log, plain>>
  BY DEF ReuseBatchBelow
<1> QED BY <1>1, <1>6, <1>7, LeaveThirdLoop

(* The masks that are compared come before all that stay in the list.      *)
LEMMA LanesFirst ==
    ASSUME Ranked, ahead \subseteq P, NEW c \in NextLanes, NEW d \in ahead \ NextLanes
    PROVE  c < d
<1> DEFINE N == Cardinality(Candidates)
           below(m) == {e \in ahead : e < m}
<1>1. N \in Nat /\ P = 1 .. N
  BY Inputs DEF P
<1> HIDE DEF N
<1>2. c \in ahead /\ c \in Nat /\ d \in Nat
  BY <1>1 DEF NextLanes
<1>3. Cardinality(below(c)) < Lanes /\ ~(Cardinality(below(d)) < Lanes)
  BY <1>2 DEF NextLanes
<1>4. IsFiniteSet(P)
  BY <1>1, FS_Interval
<1>5. IsFiniteSet(below(c)) /\ IsFiniteSet(below(d))
  BY <1>4, FS_Subset
<1>6. c # d
  BY <1>3
<1>7. ASSUME d < c PROVE FALSE
  <2>1. \A e \in ahead : e \in Nat
    BY <1>1
  <2>2. below(d) \subseteq below(c)
    <3> SUFFICES ASSUME NEW e \in ahead, e < d PROVE e < c
      OBVIOUS
    <3>1. e \in Nat /\ c \in Nat /\ d \in Nat
      BY <1>2, <2>1
    <3> QED BY <1>7, <3>1
  <2>3. /\ Cardinality(below(d)) <= Cardinality(below(c))
        /\ Cardinality(below(d)) \in Nat /\ Cardinality(below(c)) \in Nat
    BY <1>5, <2>2, FS_Subset, FS_CardinalityType
  <2> QED BY <1>3, <2>3, LanesAssumption
<1> QED BY <1>2, <1>6, <1>7

LEMMA ReuseCompareStep ==
    ASSUME IInv, ReuseCompare
    PROVE  IInv'
<1>1. /\ UNCHANGED <<input, floor, log>> /\ UNCHANGED input
      /\ Ranked /\ scanner = "reuse" /\ at = "third" /\ at' = "batch"
      /\ ahead' = ahead \ NextLanes
      /\ batch' = {c \in NextLanes : ~Overlap(At(2, second), At(3, c))}
  BY DEF IInv, ReuseCompare, report
<1>2. UNCHANGED <<scanner, first, second, seconds, inSecond, third, thirds, inThird, counted,
                  work, plain>>
  BY DEF ReuseCompare, report
<1>3. problem' = problem /\ order' = order /\ kept' = kept /\ song' = song
  BY <1>1 DEF input
<1>4. /\ Positions(1)' = Positions(1) /\ Positions(2)' = Positions(2) /\ Positions(3)' = Positions(3)
      /\ Plans' = Plans /\ Candidates' = Candidates /\ P' = P
  BY <1>3 DEF Positions, Plans, Candidates, P
<1>5. NextLanes \subseteq ahead /\ ahead' \subseteq ahead /\ batch' \subseteq ahead
  BY <1>1 DEF NextLanes
<1>6. \A x, m, y, n : Overlap(At(x, m), At(y, n))' = Overlap(At(x, m), At(y, n))
  BY <1>3 DEF Overlap, At
<1>7. TypeOK'
  BY <1>1, <1>2, <1>3, <1>4, <1>5 DEF IInv, TypeOK, Answer
<1>8. Places'
  BY <1>1, <1>2, <1>3, <1>4, <1>6 DEF IInv, Places
<1>9. Ranges'
  <2>1. \A a, b, c : Total(a, b, c)' = Total(a, b, c)
    BY <1>1, Rigid
  <2>2. \A a, b : (Score(1, a) + Score(2, b) + Top(3))' = Score(1, a) + Score(2, b) + Top(3)
    BY <1>1, Rigid DEF Songs
  <2> QED BY <1>1, <1>2, <1>4, <2>1, <2>2 DEF IInv, Ranges
<1>10. Lists'
  <2>1. ahead \subseteq P
    BY <1>1, KeptPositions DEF IInv, TypeOK, Songs
  <2>2. \A c \in batch', d \in ahead' : c < d
    BY <1>1, <2>1, LanesFirst
  <2>3. \A c \in ahead' \cup batch' : counted.thirds < c
    BY <1>1, <1>5 DEF IInv, Lists
  <2> QED BY <1>1, <1>2, <1>6, <2>2, <2>3 DEF IInv, Lists
<1>11. \A a, b, c \in P : ToCome(a, b, c)' => ToCome(a, b, c)
  BY <1>1, <1>2, <1>5 DEF ToCome
<1>12. ASSUME NEW a \in P, NEW b \in P, NEW c \in P, Wanted(a, b, c), ToCome(a, b, c)
       PROVE  ToCome(a, b, c)'
  <2>1. b = second => ~Overlap(At(2, second), At(3, c))
    BY <1>12 DEF Wanted, Apart
  <2> QED BY <1>1, <1>2, <1>12, <2>1 DEF ToCome
<1>13. Ranked' /\ Best' /\ NoneLost' /\ NoneTwice'
  BY <1>1, <1>11, <1>12, Quiet
<1> QED BY <1>7, <1>8, <1>9, <1>10, <1>13 DEF IInv

LEMMA ReuseBatchOverStep ==
    ASSUME IInv, ReuseBatchOver
    PROVE  IInv'
<1>1. /\ UNCHANGED <<input, floor, log>> /\ UNCHANGED input
      /\ Ranked /\ scanner = "reuse" /\ at = "batch" /\ at' = "third" /\ batch = {} /\ batch' = {}
  BY DEF IInv, ReuseBatchOver, report, loops
<1>2. UNCHANGED <<scanner, first, second, seconds, inSecond, third, thirds, ahead, inThird,
                  counted, work, plain>>
  BY DEF ReuseBatchOver, report, loops
<1>3. problem' = problem /\ order' = order /\ kept' = kept /\ song' = song
  BY <1>1 DEF input
<1>4. /\ Positions(1)' = Positions(1) /\ Positions(2)' = Positions(2) /\ Positions(3)' = Positions(3)
      /\ Plans' = Plans /\ Candidates' = Candidates /\ P' = P
  BY <1>3 DEF Positions, Plans, Candidates, P
<1>5. \A x, m, y, n : Overlap(At(x, m), At(y, n))' = Overlap(At(x, m), At(y, n))
  BY <1>3 DEF Overlap, At
<1>6. TypeOK'
  BY <1>1, <1>2, <1>3, <1>4 DEF IInv, TypeOK, Answer
<1>7. Places'
  BY <1>1, <1>2, <1>3, <1>4, <1>5 DEF IInv, Places
<1>8. Ranges'
  <2>1. \A a, b, c : Total(a, b, c)' = Total(a, b, c)
    BY <1>1, Rigid
  <2>2. \A a, b : (Score(1, a) + Score(2, b) + Top(3))' = Score(1, a) + Score(2, b) + Top(3)
    BY <1>1, Rigid DEF Songs
  <2> QED BY <1>1, <1>2, <1>4, <2>1, <2>2 DEF IInv, Ranges
<1>9. Lists'
  BY <1>1, <1>2, <1>5 DEF IInv, Lists
<1>10. \A a, b, c \in P : ToCome(a, b, c) <=> ToCome(a, b, c)'
  BY <1>1, <1>2 DEF ToCome
<1>11. Ranked' /\ Best' /\ NoneLost' /\ NoneTwice'
  BY <1>1, <1>10, Quiet
<1> QED BY <1>6, <1>7, <1>8, <1>9, <1>11 DEF IInv

LEMMA ReuseVisitStep ==
    ASSUME IInv, ReuseVisit
    PROVE  IInv'
<1> DEFINE c == Smallest(batch)
<1>1. /\ UNCHANGED input /\ Ranked /\ scanner = "reuse" /\ at = "batch" /\ c \in inThird
      /\ batch # {}
      /\ UNCHANGED <<scanner, first, second, seconds, inSecond, thirds, ahead, plain>>
      /\ third' = c /\ batch' = batch \ {c}
      /\ counted' = [counted EXCEPT !.thirds = c]
      /\ work' = [work EXCEPT !.thirds = @ + c - counted.thirds]
  BY DEF IInv, ReuseVisit, BelowFloor
<1>2. PICK ans \in Answers(Total(first, second, c)) :
         /\ Visit(c, ans)
         /\ at' = IF ans.stop THEN "stopped" ELSE "batch"
         /\ inThird' = IF ans.stop THEN inThird ELSE ThirdRange(second, inThird, Raised(ans))
  BY DEF ReuseVisit
<1>3. problem' = problem /\ order' = order /\ kept' = kept /\ song' = song
  BY <1>1 DEF input
<1>4. \A m \in P : m \in Nat /\ m # 0
  BY <1>1, PositionNumbers
<1>5. /\ thirds \subseteq Positions(3) /\ Positions(3) \subseteq P /\ inThird \subseteq Positions(3)
      /\ batch \subseteq P /\ ahead \subseteq P
      /\ first \in P /\ second \in P /\ first \in Nat /\ second \in Nat /\ floor \in Int
  BY <1>1, KeptPositions DEF IInv, TypeOK, Places, Songs
<1>6. c \in batch /\ c \in P /\ c \in Nat /\ c # 0 /\ \A d \in batch : c <= d
  <2>1. c \in batch /\ \A d \in batch : c <= d
    BY <1>1, <1>5, SmallestPosition
  <2> QED BY <1>4, <1>5, <2>1
<1>7. floor' = Raised(ans)
  BY <1>2 DEF Visit
<1> HIDE DEF c
<1>8. Total(first, second, c) >= floor /\ Total(first, second, c) \in Int
  <2>1. Total(first, second, c) >= floor
    BY <1>1 DEF IInv, Ranges
  <2> QED BY <1>1, <1>5, <1>6, <2>1, PlanValue
<1>9. at' = "stopped" <=> ans.stop
  BY <1>2
<1>10. ASSUME NEW i \in P, NEW j \in P, NEW k \in P, ToCome(i, j, k)'
       PROVE  ToCome(i, j, k) /\ ~(i = first /\ j = second /\ k = c)
  <2>1. second \notin seconds /\ c \notin ahead
    <3>1. counted.pairs = second /\ \A b \in seconds : counted.pairs < b
      BY <1>1 DEF IInv, Lists
    <3>2. \A d \in ahead : c < d
      BY <1>1, <1>6 DEF IInv, Lists
    <3> QED BY <1>5, <1>6, <3>1, <3>2
  <2>2. counted'.pairs = counted.pairs
    BY <1>1 DEF IInv, TypeOK
  <2>3. at' = "batch"
    BY <1>1, <1>2, <1>10 DEF ToCome
  <2> QED BY <1>1, <1>5, <1>10, <2>1, <2>2, <2>3 DEF ToCome
<1>11. ASSUME NEW i \in P, NEW j \in P, NEW k \in P, ToCome(i, j, k), ~ans.stop
       PROVE  ToCome(i, j, k)' \/ (i = first /\ j = second /\ k = c)
  <2>1. counted'.pairs = counted.pairs /\ at' = "batch"
    BY <1>1, <1>2, <1>11 DEF IInv, TypeOK
  <2> QED BY <1>1, <1>11, <2>1 DEF ToCome
<1>12. /\ Ranked' /\ Best' /\ NoneLost' /\ NoneTwice'
       /\ log' \in Seq([plan : Plans, answer : Answer])
       /\ floor' \in Int /\ floor <= floor'
  <2>1. at # "stopped"
    BY <1>1
  <2>2. Total(first, second, c) >= floor
    BY <1>8
  <2>3. \A i, j, k \in P : ToCome(i, j, k)' =>
           ToCome(i, j, k) /\ ~(i = first /\ j = second /\ k = c)
    BY <1>10
  <2>4. \A i, j, k \in P :
           Wanted(i, j, k) /\ Wanted(i, j, k)' /\ ToCome(i, j, k) /\ ~ans.stop
             => ToCome(i, j, k)' \/ (i = first /\ j = second /\ k = c)
    BY <1>11
  <2>5. UNCHANGED input /\ Visit(c, ans) /\ first \in P /\ second \in P /\ c \in P
    BY <1>1, <1>2, <1>5, <1>6
  <2> QED BY <1>2, <1>9, <2>1, <2>2, <2>3, <2>4, <2>5, Reporting
<1>13. /\ Positions(1)' = Positions(1) /\ Positions(2)' = Positions(2) /\ Positions(3)' = Positions(3)
       /\ Plans' = Plans /\ Candidates' = Candidates /\ P' = P
  BY <1>3 DEF Positions, Plans, Candidates, P
<1>14. ~ans.stop =>
          /\ inThird' \subseteq Positions(3)
          /\ \A d \in Positions(3) \ inThird' : Total(first, second, d) < floor'
          /\ \A d \in inThird' : Total(first, second, d) >= floor'
  <2> SUFFICES ASSUME ~ans.stop
               PROVE  /\ inThird' \subseteq Positions(3)
                      /\ \A d \in Positions(3) \ inThird' : Total(first, second, d) < floor'
                      /\ \A d \in inThird' : Total(first, second, d) >= floor'
    OBVIOUS
  <2> DEFINE low == Raised(ans)
  <2>1. low \in Int /\ floor <= low /\ floor' = low /\ inThird' = ThirdRange(second, inThird, low)
    BY <1>2, <1>7, <1>12
  <2> HIDE DEF low
  <2>2. ASSUME NEW d \in Positions(3) \ inThird PROVE Total(first, second, d) < low
    <3>1. Total(first, second, d) < floor
      BY <1>1, <2>2 DEF IInv, Ranges
    <3>2. d \in P
      BY <1>5, <2>2
    <3>3. Total(first, second, d) \in Int
      BY <1>1, <1>5, <3>2, PlanValue
    <3> QED BY <1>5, <2>1, <3>1, <3>3
  <2>3. \A d \in Positions(3) \ inThird : Total(first, second, d) < low
    BY <2>2
  <2>4. /\ ThirdRange(second, inThird, low) \subseteq Positions(3)
        /\ \A d \in Positions(3) \ ThirdRange(second, inThird, low) : Total(first, second, d) < low
        /\ \A d \in ThirdRange(second, inThird, low) : Total(first, second, d) >= low
    BY <1>1, <1>5, <2>1, <2>3, ThirdRangeSound
  <2> QED BY <2>1, <2>4
<1>15. counted.thirds \in Nat /\ counted.thirds < c
  BY <1>1, <1>6 DEF IInv, TypeOK, Lists
<1>16. TypeOK'
  <2>1. work' \in [pairs : Nat, thirds : Nat]
    BY <1>1, <1>6, <1>15 DEF IInv, TypeOK
  <2>2. counted' \in [pairs : Nat, thirds : Nat]
    BY <1>1, <1>6 DEF IInv, TypeOK
  <2>3. inThird' \subseteq Positions(3)
    BY <1>2, <1>5, <1>14
  <2>4. third' \in Nat /\ batch' \subseteq batch
    BY <1>1, <1>6
  <2>5. at' \in {"first", "second", "third", "batch", "finished", "stopped"}
    BY <1>2
  <2>6. plain'.log \in Seq([plan : Plans', answer : Answer])
    BY <1>1, <1>13 DEF IInv, TypeOK
  <2>7. log' \in Seq([plan : Plans', answer : Answer])
    BY <1>12, <1>13
  <2> QED BY <1>1, <1>3, <1>12, <1>13, <2>1, <2>2, <2>3, <2>4, <2>5, <2>6, <2>7 DEF IInv, TypeOK, Answer
<1>17. \A x, m, y, n : Overlap(At(x, m), At(y, n))' = Overlap(At(x, m), At(y, n))
  BY <1>3 DEF Overlap, At
<1>18. Places'
  <2>1. problem.floor \in Int
    BY <1>1, Inputs
  <2>2. problem.floor <= floor'
    BY <1>5, <1>12, <2>1 DEF IInv, Places
  <2> QED BY <1>1, <1>2, <1>3, <1>6, <1>13, <1>17, <2>2 DEF IInv, Places
<1>19. Ranges'
  <2>1. ASSUME NEW b \in Positions(2) \ inSecond, NEW a \in P, a >= first
        PROVE  Score(1, a) + Score(2, b) + Top(3) < floor'
    <3>1. Score(1, a) + Score(2, b) + Top(3) < floor
      BY <1>1, <2>1 DEF IInv, Ranges
    <3>2. b \in P
      BY <1>1, KeptPositions DEF Songs
    <3>3. Score(1, a) \in Int /\ Score(2, b) \in Int /\ Top(3) \in Int
      BY <1>1, <3>2, Scores, Tops DEF Songs
    <3> QED BY <1>5, <1>12, <3>1, <3>3
  <2>2. \A a, b, d : Total(a, b, d)' = Total(a, b, d)
    BY <1>1, Rigid
  <2>3. \A a, b : (Score(1, a) + Score(2, b) + Top(3))' = Score(1, a) + Score(2, b) + Top(3)
    BY <1>1, Rigid DEF Songs
  <2>4. at' # "second" /\ (at' = "batch" => ~ans.stop) /\ at' # "third"
    BY <1>2
  <2> QED BY <1>1, <1>13, <1>14, <2>1, <2>2, <2>3, <2>4 DEF Ranges
<1>20. Lists'
  <2>1. at' = "batch" \/ at' = "stopped"
    BY <1>2
  <2>2. counted'.pairs = counted.pairs /\ counted'.thirds = c
    BY <1>1 DEF IInv, TypeOK
  <2>3. \A d \in ahead \cup batch' : c < d
    <3>1. \A d \in ahead : c < d
      BY <1>1, <1>6 DEF IInv, Lists
    <3>2. ASSUME NEW d \in batch' PROVE c < d
      <4>1. d \in batch /\ d # c /\ d \in Nat
        BY <1>1, <1>4, <1>5, <3>2
      <4> QED BY <1>6, <4>1
    <3> QED BY <3>1, <3>2
  <2>4. batch' \subseteq batch
    BY <1>1
  <2> QED BY <1>1, <1>17, <2>1, <2>2, <2>3, <2>4 DEF IInv, Lists
<1> QED BY <1>12, <1>16, <1>18, <1>19, <1>20 DEF IInv

-----------------------------------------------------------------------------
(* The invariant                                                           *)

LEMMA ReuseScanStep ==
    ASSUME IInv, ReuseScan
    PROVE  IInv'
BY ReuseFirstStep, ReuseSecondOverStep, ReuseSecondStep, ReuseThirdOverStep, ReuseCompareStep,
   ReuseBatchOverStep, ReuseBatchBelowStep, ReuseVisitStep DEF ReuseScan

LEMMA PlainScanStep ==
    ASSUME IInv, PlainScan
    PROVE  IInv'
BY PlainFirstStep, PlainSecondOverStep, PlainSecondStep, PlainThirdOverStep,
   PlainThirdSkippedStep, PlainVisitStep DEF PlainScan

LEMMA Stutter ==
    ASSUME IInv, UNCHANGED vars
    PROVE  IInv'
<1>1. UNCHANGED input /\ UNCHANGED <<scanner, at, loops, report, plain>>
  BY DEF vars
<1>2. /\ problem' = problem /\ order' = order /\ kept' = kept /\ song' = song
      /\ scanner' = scanner /\ at' = at /\ plain' = plain
      /\ floor' = floor /\ work' = work /\ log' = log
      /\ first' = first /\ second' = second /\ seconds' = seconds /\ inSecond' = inSecond
      /\ third' = third /\ thirds' = thirds /\ ahead' = ahead /\ inThird' = inThird
      /\ batch' = batch /\ counted' = counted
  BY <1>1 DEF input, loops, report
<1>3. Ranked' /\ P' = P /\ Plans' = Plans /\ Candidates' = Candidates
  BY <1>1, Rigid DEF IInv, Candidates, input
<1>4. /\ Positions(1)' = Positions(1) /\ Positions(2)' = Positions(2) /\ Positions(3)' = Positions(3)
      /\ \A a, b, c : Total(a, b, c)' = Total(a, b, c)
      /\ \A a, b : (Score(1, a) + Score(2, b) + Top(3))' = Score(1, a) + Score(2, b) + Top(3)
  BY <1>1, Rigid DEF Songs
<1>5. \A x, m, y, n : Overlap(At(x, m), At(y, n))' = Overlap(At(x, m), At(y, n))
  BY <1>2 DEF Overlap, At
<1>6. TypeOK'
  BY <1>2, <1>3, <1>4 DEF IInv, TypeOK, Answer
<1>7. Places'
  BY <1>2, <1>4, <1>5 DEF IInv, Places
<1>8. Ranges'
  BY <1>2, <1>3, <1>4 DEF IInv, Ranges
<1>9. Lists'
  BY <1>2, <1>5 DEF IInv, Lists
<1>10. \A a, b, c \in P : ToCome(a, b, c)' <=> ToCome(a, b, c)
  BY <1>2 DEF ToCome
<1>11. \A a, b, c : /\ Wanted(a, b, c)' <=> Wanted(a, b, c)
                    /\ Visited(Plan(a, b, c))' <=> Visited(Plan(a, b, c))
  BY <1>1, <1>2, Rigid DEF Wanted, Visited
<1>12. NoneLost' /\ NoneTwice'
  BY <1>2, <1>3, <1>10, <1>11 DEF IInv, NoneLost, NoneTwice
<1>13. Best'
  BY <1>1, <1>2, Rigid DEF IInv, Best
<1> QED BY <1>3, <1>6, <1>7, <1>8, <1>9, <1>12, <1>13 DEF IInv

LEMMA NextInv ==
    ASSUME IInv, [Next]_vars
    PROVE  IInv'
BY FinishStep, PlainScanStep, AgainStep, ReuseScanStep, Stutter DEF Next

LEMMA InitInv ==
    ASSUME Init
    PROVE  IInv
<1>1. /\ problem \in Problems /\ song \in SongOrders
      /\ kept = [s \in Songs |-> {m \in P : Reachable(s, m) >= problem.floor}]
      /\ scanner = "plain" /\ at = "first" /\ first = 1 /\ second = 1 /\ third = 1
      /\ seconds = {} /\ inSecond = {} /\ thirds = {} /\ ahead = {} /\ inThird = {}
      /\ batch = {} /\ counted = NotCounted
      /\ floor = problem.floor /\ work = NoWork /\ log = <<>> /\ plain.log = <<>>
  BY DEF Init, P, Candidates
<1>2. \A s \in Songs : order[s] \in Sorted(problem, s)
  BY DEF Init, Songs
<1>3. ASSUME NEW s \in Songs
      PROVE  /\ order[s] \in [P -> Candidates]
             /\ \A m, n \in P : m < n =>
                   problem.score[order[s][n]][s] <= problem.score[order[s][m]][s]
             /\ \A c \in Candidates : \E m \in P : \A n \in P : order[s][n] = c <=> n = m
  <2> DEFINE q == order[s]
             worth(c) == problem.score[c][s]
  <2>1. /\ q \in [P -> Candidates]
        /\ \A m, n \in P : m < n => worth(q[m]) > worth(q[n]) \/ worth(q[m]) = worth(q[n])
        /\ \A c \in Candidates : \E m \in P : \A n \in P : q[n] = c <=> n = m
    <3>1. q \in Sorted(problem, s)
      BY <1>2
    <3>2. q \in [P -> Candidates] /\ DOMAIN q = P
      BY <3>1 DEF Sorted, P, Candidates
    <3>3. \A m, n \in DOMAIN q : m < n => worth(q[m]) > worth(q[n]) \/ worth(q[m]) = worth(q[n])
      BY <3>1, Zenon DEF Sorted
    <3>4. \A c \in problem.candidates :
             \E m \in DOMAIN q : \A n \in DOMAIN q : q[n] = c <=> n = m
      BY <3>1, Zenon DEF Sorted
    <3> QED BY <3>2, <3>3, <3>4 DEF Candidates
  <2>2. \A c \in Candidates : worth(c) \in Int
    BY <1>1, ProblemsAssumption DEF Candidates
  <2> HIDE DEF worth, q
  <2>3. \A m, n \in P : m < n => worth(q[n]) <= worth(q[m])
    <3>1. \A m \in P : worth(q[m]) \in Int
      BY <2>1, <2>2
    <3> QED BY <2>1, <3>1
  <2> QED BY <2>1, <2>3 DEF worth, q
<1>4. IsFiniteSet(Candidates) /\ Cardinality(Candidates) \in Nat
  BY <1>1, ProblemsAssumption, FS_CardinalityType DEF Candidates
<1>5. song \in Permutations3
  BY <1>1 DEF SongOrders
<1>6. order \in [Songs -> [P -> Candidates]]
  <2>1. order \in Sorted(problem, 1) \X Sorted(problem, 2) \X Sorted(problem, 3)
    BY DEF Init
  <2>2. order = [s \in Songs |-> order[s]]
    BY <2>1 DEF Songs
  <2> QED BY <1>3, <2>2
<1>7. Ranked
  <2>1. \A s \in Songs : \A m, n \in P : m <= n =>
           problem.score[order[s][n]][s] <= problem.score[order[s][m]][s]
    <3> SUFFICES ASSUME NEW s \in Songs, NEW m \in P, NEW n \in P, m <= n
                 PROVE  problem.score[order[s][n]][s] <= problem.score[order[s][m]][s]
      OBVIOUS
    <3>1. CASE m < n
      BY <1>3, <3>1
    <3>2. CASE m = n
      <4>1. order[s][m] \in Candidates
        BY <1>6
      <4>2. problem.score[order[s][m]][s] \in Int
        BY <1>1, <4>1, ProblemsAssumption DEF Candidates
      <4> QED BY <3>2, <4>2
    <3>3. m \in Nat /\ n \in Nat
      BY <1>4 DEF P
    <3> QED BY <3>1, <3>2, <3>3
  <2>2. \A s \in Songs : \A c \in Candidates :
           \E m \in P : \A n \in P : order[s][n] = c <=> n = m
    BY <1>3
  <2> QED BY <1>1, <1>5, <1>6, <2>1, <2>2 DEF Ranked
<1>8. problem.floor \in Int
  BY <1>7, Inputs
<1>9. TypeOK
  <2>1. kept \in [Songs -> SUBSET P]
    BY <1>1
  <2> QED BY <1>1, <1>5, <1>6, <1>8, <2>1 DEF TypeOK, P, NotCounted, NoWork
<1>10. Places
  BY <1>1, <1>8 DEF Places
<1>11. Ranges /\ Lists
  BY <1>1 DEF Ranges, Lists
<1>12. NoneLost
  <2>1. \A a \in P : a >= 1
    BY <1>4 DEF P
  <2> QED BY <1>1, <2>1 DEF NoneLost, ToCome
<1>13. NoneTwice
  BY <1>1 DEF NoneTwice, Visited
<1>14. Best
  BY <1>1 DEF Best
<1> QED BY <1>7, <1>9, <1>10, <1>11, <1>12, <1>13, <1>14 DEF IInv

LEMMA Invariant == Spec => []IInv
<1>1. Init => IInv
  BY InitInv
<1>2. IInv /\ [Next]_vars => IInv'
  BY NextInv
<1> QED BY <1>1, <1>2, PTL DEF Spec

(* Every variable keeps its type, for any problem, any visitor and any     *)
(* number of masks compared at a time: no counter of the work falls below  *)
(* zero, and the lists only hold positions that were kept.                 *)
THEOREM TypeCorrect == Spec => []TypeOK
<1>1. IInv => TypeOK
  BY DEF IInv
<1> QED BY <1>1, Invariant, PTL

-----------------------------------------------------------------------------
(* Nothing that is wanted is lost                                          *)

LEMMA FinishedComplete ==
    ASSUME IInv, at = "finished", NEW p \in Plans, Compatible(p), Value(p) >= floor
    PROVE  Visited(p)
<1>1. Ranked
  BY DEF IInv
<1>2. PICK a \in P, b \in P, c \in P : p = Plan(a, b, c)
  BY <1>1, PlanOf
<1>3. Wanted(a, b, c)
  BY <1>1, <1>2, PlanApart, PlanValue DEF Wanted
<1>4. ~ToCome(a, b, c)
  BY DEF ToCome
<1> QED BY <1>2, <1>3, <1>4 DEF IInv, NoneLost

(* A scanner that ends by itself has handed over every plan of three teams *)
(* sharing no card that reaches the floor it ends with: leaving the loops, *)
(* reusing what fits the first team and a floor that rises in the middle   *)
(* of a comparison lose none.                                              *)
THEOREM CompleteSearch == Spec => []Complete
<1>1. IInv => Complete
  BY FinishedComplete DEF Complete
<1> QED BY <1>1, Invariant, PTL

(* The search for the maximum ends with the best plan there is, and        *)
(* without one only if none is better than the plan it was given.          *)
THEOREM BestFound == Spec => []MaximumFound
<1>1. IInv => MaximumFound
  <2> SUFFICES ASSUME IInv, at = "finished", problem.goal = "maximum",
                      NEW p \in Plans, Compatible(p)
               PROVE  IF log = <<>> THEN Value(p) < problem.floor
                                    ELSE Value(p) <= Value(log[Len(log)].plan)
    BY DEF MaximumFound
  <2> DEFINE last == Value(log[Len(log)].plan)
  <2>1. /\ floor = IF log = <<>> THEN problem.floor ELSE last + 1
        /\ \A n \in DOMAIN log : Value(log[n].plan) < floor
    BY DEF IInv, Best
  <2>2. Ranked /\ floor \in Int /\ problem.floor \in Int
    BY Inputs DEF IInv, TypeOK
  <2>3. \A q \in Plans : Value(q) \in Int
    <3>1. \A q \in Plans : \E a, b, c \in P : q = Plan(a, b, c)
      BY <2>2, PlanOf
    <3>2. \A a, b, c \in P : Value(Plan(a, b, c)) \in Int
      BY <2>2, PlanValue
    <3> QED BY <3>1, <3>2
  <2>4. Value(p) < floor
    <3>1. ASSUME Value(p) >= floor PROVE FALSE
      <4>1. Visited(p)
        BY <3>1, FinishedComplete
      <4>2. Value(p) < floor
        BY <2>1, <4>1 DEF Visited
      <4> QED BY <2>2, <2>3, <3>1, <4>2
    <3> QED BY <2>2, <2>3, <3>1
  <2>5. CASE log = <<>>
    BY <2>1, <2>4, <2>5
  <2>6. CASE log # <<>>
    <3> DEFINE Entry == [plan : Plans, answer : Answer]
    <3>1. log \in Seq(Entry) /\ \A x \in Entry : x.plan \in Plans
      BY DEF IInv, TypeOK
    <3> HIDE DEF Entry
    <3>2. Len(log) \in 1 .. Len(log) /\ log[Len(log)] \in Entry
      BY <2>6, <3>1
    <3>3. last \in Int
      BY <2>3, <3>1, <3>2
    <3> HIDE DEF last
    <3>4. Value(p) \in Int /\ Value(p) < last + 1
      BY <2>1, <2>3, <2>4, <2>6
    <3>5. Value(p) <= last
      BY <3>3, <3>4
    <3> QED BY <2>6, <3>5 DEF last
  <2> QED BY <2>5, <2>6
<1> QED BY <1>1, Invariant, PTL

-----------------------------------------------------------------------------
(* Only what is wanted is handed over                                      *)

LEMMA WantedOnce ==
    ASSUME IInv, NEW c \in P, NEW ans, Visit(c, ans), first \in P, second \in P,
           Wanted(first, second, c), ToCome(first, second, c)
    PROVE  LET p == log'[Len(log')].plan
           IN  Compatible(p) /\ Value(p) >= floor /\ ~Visited(p)
<1> DEFINE entry == [plan |-> Plan(first, second, c), answer |-> ans]
<1>1. log' = Append(log, entry) /\ entry.plan = Plan(first, second, c)
  BY DEF Visit
<1>2. \E S : log \in Seq(S)
  BY DEF IInv, TypeOK
<1> HIDE DEF entry
<1>3. log'[Len(log')] = entry
  BY <1>1, <1>2
<1>4. Ranked /\ ~Visited(Plan(first, second, c))
  BY DEF IInv, NoneTwice
<1>5. Compatible(Plan(first, second, c)) /\ Value(Plan(first, second, c)) >= floor
  BY <1>4, PlanApart, PlanValue DEF Wanted
<1> QED BY <1>1, <1>3, <1>4, <1>5

(* A plan is handed over only if no two of its teams share a card and it   *)
(* reaches the floor at that moment, and never a second time.              *)
THEOREM WantedOnly == Spec => OnlyWanted
<1> DEFINE Sound == LET p == log'[Len(log')].plan
                    IN  Compatible(p) /\ Value(p) >= floor /\ ~Visited(p)
<1>1. IInv /\ [Next]_vars => [Len(log') > Len(log) => Sound]_vars
  <2> SUFFICES ASSUME IInv, Next, Len(log') > Len(log) PROVE Sound
    OBVIOUS
  <2>1. Len(log) \in Nat /\ Ranked /\ Positions(1) \subseteq P /\ Positions(2) \subseteq P
        /\ Positions(3) \subseteq P
    BY KeptPositions DEF IInv, TypeOK, Songs
  <2>2. ~(log' = log) /\ ~(log' = <<>>)
    BY <2>1
  <2>3. CASE PlainVisit
    <3>1. first \in P /\ second \in P /\ third \in P /\ third \in Nat /\ second \in Nat
      BY <2>1, <2>3 DEF IInv, TypeOK, Places, PlainVisit, ThirdOver
    <3>2. Total(first, second, third) >= floor
      <4>1. Total(first, second, third) \in Int /\ floor \in Int
        BY <2>1, <3>1, PlanValue DEF IInv, TypeOK
      <4> QED BY <2>3, <4>1 DEF PlainVisit, ThirdOver
    <3>3. Wanted(first, second, third)
      BY <2>3, <3>2 DEF IInv, Places, PlainVisit, Fits, Wanted, Apart
    <3>4. ToCome(first, second, third)
      BY <2>3, <3>1 DEF PlainVisit, ToCome
    <3>5. PICK ans : Visit(third, ans)
      BY <2>3 DEF PlainVisit
    <3> QED BY <3>1, <3>3, <3>4, <3>5, WantedOnce
  <2>4. CASE ReuseVisit
    <3> DEFINE c == Smallest(batch)
    <3>1. c \in inThird /\ c \in batch /\ at = "batch" /\ scanner = "reuse"
      <4>1. batch \in SUBSET P /\ batch # {}
        BY <2>1, <2>4 DEF IInv, TypeOK, ReuseVisit
      <4> QED BY <2>1, <2>4, <4>1, SmallestPosition DEF ReuseVisit, BelowFloor
    <3>2. PICK ans : Visit(c, ans)
      BY <2>4 DEF ReuseVisit
    <3> HIDE DEF c
    <3>3. first \in P /\ second \in P /\ c \in P
      BY <2>1, <3>1 DEF IInv, TypeOK, Places
    <3>4. Total(first, second, c) >= floor
      BY <3>1 DEF IInv, Ranges
    <3>5. Apart(first, second, c)
      <4>1. c \in thirds
        BY <3>1 DEF IInv, TypeOK
      <4> QED BY <3>1, <4>1 DEF IInv, Places, Lists, Apart
    <3>6. ToCome(first, second, c)
      BY <3>1 DEF ToCome
    <3> QED BY <3>2, <3>3, <3>4, <3>5, <3>6, WantedOnce DEF Wanted
  <2>5. CASE Finish \/ Again
    BY <2>2, <2>5 DEF Finish, Again, report
  <2>6. CASE PlainScan /\ ~PlainVisit
    BY <2>2, <2>6 DEF PlainScan, PlainFirst, PlainSecondOver, PlainSecond, PlainThirdOver,
                      PlainThirdSkipped, report
  <2>7. CASE ReuseScan /\ ~ReuseVisit
    BY <2>2, <2>7 DEF ReuseScan, ReuseFirst, ReuseSecondOver, ReuseSecond, ReuseThirdOver,
                      ReuseCompare, ReuseBatchOver, ReuseBatchBelow, report
  <2> QED BY <2>3, <2>4, <2>5, <2>6, <2>7 DEF Next
<1>2. IInv /\ [Next]_vars =>
         [Len(log') > Len(log) =>
             LET p == log'[Len(log')].plan
             IN  Compatible(p) /\ Value(p) >= floor /\ ~Visited(p)]_vars
  BY <1>1 DEF Sound
<1> QED BY <1>2, Invariant, PTL DEF Spec, OnlyWanted

-----------------------------------------------------------------------------
(* Both scanners report the same                                           *)
(*                                                                         *)
(* What a scanner reports follows from the problem and from the answers:   *)
(* the next plan is the first one in the order of the loops that is wanted *)
(* and was not handed over, and the work is the number of pairs and        *)
(* triples that reach the floor of the moment the loops come to them.      *)

(* A score reaches the floor that the answers N of a report lead to.       *)
Above(x, lg, N) ==
    /\ x >= problem.floor
    /\ \A n \in N : ~lg[n].answer.stop => x >= lg[n].answer.floor

(* The order in which the loops come to the positions.                     *)
Earlier(i, j, k, a, b, c) ==
    \/ i < a
    \/ i = a /\ j < b
    \/ i = a /\ j = b /\ k < c

(* What was handed over before the loops came to (a, b, c).                *)
Until(lg, a, b, c) ==
    {n \in DOMAIN lg : \E i, j, k \in P :
        lg[n].plan = Plan(i, j, k) /\ Earlier(i, j, k, a, b, c)}

(* The next plan is the first that is wanted, and there is one.            *)
NextWanted(lg, n) ==
    \E a, b, c \in P :
        /\ lg[n].plan = Plan(a, b, c)
        /\ Apart(a, b, c) /\ Above(Total(a, b, c), lg, 1 .. n - 1)
        /\ \A i, j, k \in P :
              /\ Apart(i, j, k) /\ Above(Total(i, j, k), lg, 1 .. n - 1)
              /\ Earlier(i, j, k, a, b, c)
              => \E m \in 1 .. n - 1 : lg[m].plan = Plan(i, j, k)

InOrder(lg) ==
    \A n \in DOMAIN lg :
        /\ NextWanted(lg, n)
        /\ \A m \in 1 .. n - 1 : lg[m].plan # lg[n].plan
        /\ problem.goal = "maximum" =>
              lg[n].answer = [stop |-> FALSE, floor |-> Value(lg[n].plan) + 1]

(* Nothing that is wanted is left.                                         *)
Exhausted(lg) ==
    \A a, b, c \in P : Apart(a, b, c) /\ Above(Total(a, b, c), lg, DOMAIN lg) =>
        \E n \in DOMAIN lg : lg[n].plan = Plan(a, b, c)

(* How a report ends.                                                      *)
Ended(lg, end) ==
    /\ end = "finished" =>
          Exhausted(lg) /\ \A n \in DOMAIN lg : ~lg[n].answer.stop
    /\ end = "stopped" =>
          /\ lg # <<>> /\ lg[Len(lg)].answer.stop
          /\ \A n \in DOMAIN lg : lg[n].answer.stop => n = Len(lg)

PairScore(a, b) == Score(1, a) + Score(2, b) + Top(3)

(* The pairs and triples that the loops of the plain scanner look at.      *)
PairsSeen(lg) ==
    {t \in P \X P : Above(PairScore(t[1], t[2]), lg, Until(lg, t[1], t[2], 1))}

ThirdsSeen(lg) ==
    {t \in P \X P \X P :
        /\ ~Overlap(At(1, t[1]), At(2, t[2]))
        /\ Above(Total(t[1], t[2], t[3]), lg, Until(lg, t[1], t[2], t[3]))}

WorkOf(lg) == [pairs |-> Cardinality(PairsSeen(lg)), thirds |-> Cardinality(ThirdsSeen(lg))]

(* The last positions of the second and the third loop that were counted.  *)
PairsTo ==
    IF scanner = "reuse" THEN counted.pairs ELSE IF at = "second" THEN second - 1 ELSE second
ThirdsTo == IF scanner = "reuse" THEN counted.thirds ELSE third - 1

Inside == at \in {"second", "third", "batch"}

PassedPair(a, b) == at = "finished" \/ a < first \/ (Inside /\ a = first /\ b <= PairsTo)

PassedThird(a, b, c) ==
    \/ at = "finished" \/ a < first
    \/ at = "second" /\ a = first /\ b <= PairsTo
    \/ at \in {"third", "batch"} /\ a = first /\ (b < second \/ (b = second /\ c <= ThirdsTo))

(* The loops have passed whatever was handed over.                         *)
LogPassed ==
    at # "stopped" => \A a, b, c \in P : Visited(Plan(a, b, c)) => PassedThird(a, b, c)

(* The floor is the one that the answers lead to.                          *)
FloorAnswered == \A x \in Int : x >= floor <=> Above(x, log, DOMAIN log)

(* The list of the second loop, exactly.                                   *)
SecondsLeft ==
    scanner = "reuse" /\ Inside =>
        seconds = {b \in inSecond : counted.pairs < b /\ ~Overlap(At(1, first), At(2, b))}

PairsDone == {t \in PairsSeen(log) : PassedPair(t[1], t[2])}
ThirdsDone == {t \in ThirdsSeen(log) : PassedThird(t[1], t[2], t[3])}

WorkCounted ==
    problem.goal = "band" /\ at # "stopped" =>
        /\ work.pairs = Cardinality(PairsDone)
        /\ work.thirds = Cardinality(ThirdsDone)

(* Only the last answer stops a scanner.                                   *)
Stops ==
    /\ \A n \in DOMAIN log : log[n].answer.stop => at = "stopped" /\ n = Len(log)
    /\ at = "stopped" => log # <<>> /\ log[Len(log)].answer.stop

(* What the plain scanner left, and how far the other one repeats it.      *)
PlainEnd ==
    /\ plain.at \in {"finished", "stopped"}
    /\ InOrder(plain.log) /\ Ended(plain.log, plain.at)
    /\ plain.floor \in Int
    /\ \A x \in Int : x >= plain.floor <=> Above(x, plain.log, DOMAIN plain.log)
    /\ problem.goal = "band" /\ plain.at = "finished" => plain.work = WorkOf(plain.log)

Repeats ==
    /\ Len(log) <= Len(plain.log)
    /\ \A n \in DOMAIN log : log[n] = plain.log[n]

Repeated == scanner = "reuse" => PlainEnd /\ Repeats

(* What is true of the report at every step.                               *)
RInv == LogPassed /\ FloorAnswered /\ SecondsLeft /\ InOrder(log) /\ Stops /\ Repeated /\ WorkCounted

-----------------------------------------------------------------------------
(* Nothing of this changes with the state, but for the report it is about. *)

LEMMA RigidReport ==
    ASSUME UNCHANGED input
    PROVE  /\ \A x, lg, N : Above(x, lg, N)' <=> Above(x, lg, N)
           /\ \A lg, a, b, c : Until(lg, a, b, c)' = Until(lg, a, b, c)
           /\ \A lg : InOrder(lg)' <=> InOrder(lg)
           /\ \A lg : Exhausted(lg)' <=> Exhausted(lg)
           /\ \A lg, end : Ended(lg, end)' <=> Ended(lg, end)
           /\ \A a, b : PairScore(a, b)' = PairScore(a, b)
           /\ \A lg : PairsSeen(lg)' = PairsSeen(lg) /\ ThirdsSeen(lg)' = ThirdsSeen(lg)
           /\ \A lg : WorkOf(lg)' = WorkOf(lg)
<1>1. /\ problem' = problem /\ P' = P
      /\ \A a, b, c : /\ Total(a, b, c)' = Total(a, b, c)
                      /\ Plan(a, b, c)' = Plan(a, b, c)
                      /\ Apart(a, b, c)' = Apart(a, b, c)
      /\ \A p : Value(p)' = Value(p)
  BY Rigid DEF input
<1>2. \A x, lg, N : Above(x, lg, N)' <=> Above(x, lg, N)
  BY <1>1 DEF Above
<1>3. \A lg, a, b, c : Until(lg, a, b, c)' = Until(lg, a, b, c)
  BY <1>1 DEF Until
<1>4. \A lg, n : NextWanted(lg, n)' <=> NextWanted(lg, n)
  <2> SUFFICES ASSUME NEW lg, NEW n PROVE NextWanted(lg, n)' <=> NextWanted(lg, n)
    OBVIOUS
  <2>1. \A a, b, c : Above(Total(a, b, c), lg, 1 .. n - 1)' <=> Above(Total(a, b, c), lg, 1 .. n - 1)
    BY <1>1 DEF Above
  <2> DEFINE Later(a, b, c) ==
               \A i, j, k \in P :
                  /\ Apart(i, j, k) /\ Above(Total(i, j, k), lg, 1 .. n - 1)
                  /\ Earlier(i, j, k, a, b, c)
                  => \E m \in 1 .. n - 1 : lg[m].plan = Plan(i, j, k)
  <2>2. \A a, b, c : Later(a, b, c)' <=> Later(a, b, c)
    BY <1>1, <2>1 DEF Earlier
  <2>3. NextWanted(lg, n) <=> \E a, b, c \in P :
           /\ lg[n].plan = Plan(a, b, c)
           /\ Apart(a, b, c) /\ Above(Total(a, b, c), lg, 1 .. n - 1) /\ Later(a, b, c)
    BY DEF NextWanted
  <2>4. NextWanted(lg, n)' <=> \E a, b, c \in P' :
           /\ lg[n].plan = Plan(a, b, c)'
           /\ Apart(a, b, c)' /\ Above(Total(a, b, c), lg, 1 .. n - 1)' /\ Later(a, b, c)'
    BY DEF NextWanted
  <2> HIDE DEF Later
  <2> QED BY <1>1, <2>1, <2>2, <2>3, <2>4
<1>5. \A lg : InOrder(lg)' <=> InOrder(lg)
  BY <1>1, <1>4 DEF InOrder
<1>6. \A lg : Exhausted(lg)' <=> Exhausted(lg)
  BY <1>1, <1>2 DEF Exhausted
<1>7. \A lg, end : Ended(lg, end)' <=> Ended(lg, end)
  BY <1>6 DEF Ended
<1>8. \A a, b : PairScore(a, b)' = PairScore(a, b)
  BY Rigid DEF PairScore, Songs
<1>9. \A x, m, y, n : Overlap(At(x, m), At(y, n))' = Overlap(At(x, m), At(y, n))
  BY DEF Overlap, At, input
<1>10. \A lg : PairsSeen(lg)' = PairsSeen(lg)
  BY <1>1, <1>2, <1>3, <1>8 DEF PairsSeen
<1>11. \A lg : ThirdsSeen(lg)' = ThirdsSeen(lg)
  BY <1>1, <1>2, <1>3, <1>9 DEF ThirdsSeen
<1>12. \A lg : WorkOf(lg)' = WorkOf(lg)
  BY <1>10, <1>11 DEF WorkOf
<1> QED BY <1>2, <1>3, <1>5, <1>6, <1>7, <1>8, <1>10, <1>11, <1>12

LEMMA Entries ==
    ASSUME IInv
    PROVE  /\ Len(log) \in Nat /\ DOMAIN log = 1 .. Len(log)
           /\ \A n \in DOMAIN log : log[n] = [plan |-> log[n].plan, answer |-> log[n].answer]
           /\ \A n \in DOMAIN log : log[n].plan \in Plans /\ log[n].answer \in Answer
           /\ Len(plain.log) \in Nat /\ DOMAIN plain.log = 1 .. Len(plain.log)
           /\ \A n \in DOMAIN plain.log : plain.log[n] =
                 [plan |-> plain.log[n].plan, answer |-> plain.log[n].answer]
           /\ \A n \in DOMAIN plain.log : plain.log[n].plan \in Plans /\ plain.log[n].answer \in Answer
<1> DEFINE Entry == [plan : Plans, answer : Answer]
<1>1. log \in Seq(Entry) /\ plain.log \in Seq(Entry)
  BY DEF IInv, TypeOK
<1>2. \A e \in Entry : /\ e = [plan |-> e.plan, answer |-> e.answer]
                       /\ e.plan \in Plans /\ e.answer \in Answer
  OBVIOUS
<1> HIDE DEF Entry
<1>3. \A said \in Seq(Entry) :
         /\ Len(said) \in Nat /\ DOMAIN said = 1 .. Len(said)
         /\ \A n \in DOMAIN said : said[n] \in Entry
  OBVIOUS
<1>4. /\ Len(log) \in Nat /\ DOMAIN log = 1 .. Len(log) /\ \A n \in DOMAIN log : log[n] \in Entry
      /\ Len(plain.log) \in Nat /\ DOMAIN plain.log = 1 .. Len(plain.log)
      /\ \A n \in DOMAIN plain.log : plain.log[n] \in Entry
  BY <1>1, <1>3
<1> QED BY <1>2, <1>4

(* The positions of a plan are unique, so is what comes first.             *)
LEMMA SameNext ==
    ASSUME Ranked, NEW la, NEW lb, NEW n \in Nat, NextWanted(la, n), NextWanted(lb, n),
           \A m \in 1 .. n - 1 : la[m] = lb[m],
           \A m \in 1 .. n - 1 : la[m].plan # la[n].plan,
           \A m \in 1 .. n - 1 : lb[m].plan # lb[n].plan
    PROVE  la[n].plan = lb[n].plan
<1>1. PICK a \in P, b \in P, c \in P :
        /\ la[n].plan = Plan(a, b, c)
        /\ Apart(a, b, c) /\ Above(Total(a, b, c), la, 1 .. n - 1)
        /\ \A i, j, k \in P :
              /\ Apart(i, j, k) /\ Above(Total(i, j, k), la, 1 .. n - 1)
              /\ Earlier(i, j, k, a, b, c)
              => \E m \in 1 .. n - 1 : la[m].plan = Plan(i, j, k)
  BY DEF NextWanted
<1>2. PICK u \in P, v \in P, w \in P :
        /\ lb[n].plan = Plan(u, v, w)
        /\ Apart(u, v, w) /\ Above(Total(u, v, w), lb, 1 .. n - 1)
        /\ \A i, j, k \in P :
              /\ Apart(i, j, k) /\ Above(Total(i, j, k), lb, 1 .. n - 1)
              /\ Earlier(i, j, k, u, v, w)
              => \E m \in 1 .. n - 1 : lb[m].plan = Plan(i, j, k)
  BY DEF NextWanted
<1>3. \A x : Above(x, la, 1 .. n - 1) <=> Above(x, lb, 1 .. n - 1)
  BY DEF Above
<1>4. ~Earlier(u, v, w, a, b, c)
  <2>1. Above(Total(u, v, w), la, 1 .. n - 1)
    BY <1>2, <1>3
  <2> SUFFICES ASSUME Earlier(u, v, w, a, b, c) PROVE FALSE
    OBVIOUS
  <2>2. PICK m \in 1 .. n - 1 : la[m].plan = Plan(u, v, w)
    BY <1>1, <1>2, <2>1
  <2> QED BY <1>2, <2>2
<1>5. ~Earlier(a, b, c, u, v, w)
  <2>1. Above(Total(a, b, c), lb, 1 .. n - 1)
    BY <1>1, <1>3
  <2> SUFFICES ASSUME Earlier(a, b, c, u, v, w) PROVE FALSE
    OBVIOUS
  <2>2. PICK m \in 1 .. n - 1 : lb[m].plan = Plan(a, b, c)
    BY <1>1, <1>2, <2>1
  <2> QED BY <1>1, <2>2
<1>6. a = u /\ b = v /\ c = w
  BY <1>4, <1>5, PositionNumbers DEF Earlier
<1> QED BY <1>1, <1>2, <1>6

-----------------------------------------------------------------------------
(* What the loops have not come to                                         *)

LEMMA Stages ==
    ASSUME IInv
    PROVE  /\ first \in Nat /\ first # 0 /\ second \in Nat /\ second # 0
           /\ third \in Nat /\ third # 0 /\ floor \in Int
           /\ counted.pairs \in Nat /\ counted.thirds \in Nat
           /\ PairsTo \in Nat /\ ThirdsTo \in Nat
           /\ at \in {"third", "batch"} => PairsTo = second
           /\ \A x \in Songs : Positions(x) \subseteq P
           /\ \A m \in P : m \in Nat /\ m # 0
           /\ at \in {"second", "third", "batch"} => first \in P
           /\ at \in {"third", "batch"} => second \in P
<1>1. /\ first \in Nat /\ first # 0 /\ second \in Nat /\ second # 0
      /\ third \in Nat /\ third # 0 /\ floor \in Int
      /\ counted.pairs \in Nat /\ counted.thirds \in Nat
  BY DEF IInv, TypeOK, Places
<1>2. PairsTo \in Nat /\ ThirdsTo \in Nat
  BY <1>1 DEF PairsTo, ThirdsTo
<1>3. at \in {"third", "batch"} => PairsTo = second
  BY DEF IInv, Lists, PairsTo, TypeOK
<1>4. Ranked
  BY DEF IInv
<1>5. at \in {"second", "third", "batch"} => first \in Positions(1)
  BY DEF IInv, Places
<1>6. at \in {"third", "batch"} => second \in Positions(2)
  BY DEF IInv, Places
<1> QED BY <1>1, <1>2, <1>3, <1>4, <1>5, <1>6, KeptPositions, PositionNumbers DEF Songs

LEMMA UntilNow ==
    ASSUME IInv, RInv, at \notin {"stopped", "finished"},
           NEW a \in P, NEW b \in P, NEW c \in P,
           ~PassedThird(a, b, c) \/ (c = 1 /\ ~PassedPair(a, b))
    PROVE  Until(log, a, b, c) = DOMAIN log
<1>1. ASSUME NEW n \in DOMAIN log
      PROVE  \E i, j, k \in P : log[n].plan = Plan(i, j, k) /\ Earlier(i, j, k, a, b, c)
  <2>1. log[n].plan \in Plans /\ Ranked
    BY Entries DEF IInv
  <2>2. PICK i \in P, j \in P, k \in P : log[n].plan = Plan(i, j, k)
    BY <2>1, PlanOf
  <2>3. Visited(Plan(i, j, k))
    BY <2>2 DEF Visited
  <2>4. PassedThird(i, j, k)
    BY <2>3 DEF RInv, LogPassed
  <2>5. /\ first \in Nat /\ second \in Nat /\ PairsTo \in Nat /\ ThirdsTo \in Nat
        /\ at \in {"third", "batch"} => PairsTo = second
        /\ i \in Nat /\ j \in Nat /\ k \in Nat /\ a \in Nat /\ b \in Nat /\ c \in Nat
    BY Stages
  <2> SUFFICES Earlier(i, j, k, a, b, c)
    BY <2>2
  <2>6. at \in {"first", "second", "third", "batch"}
    BY DEF IInv, TypeOK
  <2>7. CASE at = "first"
    <3>1. i < first /\ first <= a
      BY <2>4, <2>5, <2>7 DEF PassedThird, PassedPair, Inside
    <3> QED BY <2>5, <3>1 DEF Earlier
  <2>8. CASE at = "second"
    <3>1. i < first \/ (i = first /\ j <= PairsTo)
      BY <2>4, <2>8 DEF PassedThird
    <3>2. first <= a /\ (a = first => PairsTo < b)
      BY <2>5, <2>8 DEF PassedThird, PassedPair, Inside
    <3> QED BY <2>5, <3>1, <3>2 DEF Earlier
  <2>9. CASE at \in {"third", "batch"}
    <3>1. i < first \/ (i = first /\ (j < second \/ (j = second /\ k <= ThirdsTo)))
      BY <2>4, <2>9 DEF PassedThird
    <3>2. first <= a /\ (a = first => second < b \/ (second = b /\ ThirdsTo < c))
      BY <2>5, <2>9 DEF PassedThird, PassedPair, Inside
    <3> QED BY <2>5, <3>1, <3>2 DEF Earlier
  <2> QED BY <2>6, <2>7, <2>8, <2>9
<1> QED BY <1>1 DEF Until

LEMMA PairScores ==
    ASSUME Ranked, NEW a \in P, NEW b \in P, NEW c \in P
    PROVE  /\ PairScore(a, b) \in Int /\ Total(a, b, c) \in Int
           /\ Total(a, b, c) <= PairScore(a, b)
           /\ \A j \in P : b <= j => PairScore(a, j) <= PairScore(a, b)
           /\ \A i \in P : a <= i => PairScore(i, b) <= PairScore(a, b)
           /\ \A k \in P : c <= k => Total(a, b, k) <= Total(a, b, c)
           /\ PairScore(a, b) <= Score(1, a) + Top(2) + Top(3)
           /\ PairScore(a, b) <= Top(1) + Score(2, b) + Top(3)
           /\ Total(a, b, c) <= Top(1) + Top(2) + Score(3, c)
           /\ Score(1, a) + Top(2) + Top(3) \in Int
           /\ Top(1) + Score(2, b) + Top(3) \in Int
           /\ Top(1) + Top(2) + Score(3, c) \in Int
<1>1. /\ Score(1, a) \in Int /\ Score(2, b) \in Int /\ Score(3, c) \in Int
      /\ Top(1) \in Int /\ Top(2) \in Int /\ Top(3) \in Int
      /\ Score(1, a) <= Top(1) /\ Score(2, b) <= Top(2) /\ Score(3, c) <= Top(3)
  BY Scores, Tops DEF Songs
<1>2. \A j \in P : b <= j => Score(2, j) \in Int /\ Score(2, j) <= Score(2, b)
  BY Scores DEF Songs
<1>3. \A i \in P : a <= i => Score(1, i) \in Int /\ Score(1, i) <= Score(1, a)
  BY Scores DEF Songs
<1>4. \A k \in P : c <= k => Score(3, k) \in Int /\ Score(3, k) <= Score(3, c)
  BY Scores DEF Songs
<1> QED BY <1>1, <1>2, <1>3, <1>4 DEF PairScore, Total

(* Where the loops have not been, a pair or a triple counts if it reaches  *)
(* the floor as it is.                                                     *)
LEMMA CountsNow ==
    ASSUME IInv, RInv, at \notin {"stopped", "finished"}
    PROVE  /\ \A a, b \in P : ~PassedPair(a, b) =>
                (Above(PairScore(a, b), log, Until(log, a, b, 1)) <=> PairScore(a, b) >= floor)
           /\ \A a, b, c \in P : ~PassedThird(a, b, c) =>
                (Above(Total(a, b, c), log, Until(log, a, b, c)) <=> Total(a, b, c) >= floor)
<1>1. Ranked /\ \A x \in Int : x >= floor <=> Above(x, log, DOMAIN log)
  BY DEF IInv, RInv, FloorAnswered
<1>2. ASSUME NEW a \in P, NEW b \in P, ~PassedPair(a, b)
      PROVE  Above(PairScore(a, b), log, Until(log, a, b, 1)) <=> PairScore(a, b) >= floor
  <2>1. 1 \in P
    BY <1>1, Tops
  <2>2. Until(log, a, b, 1) = DOMAIN log
    BY <1>2, <2>1, UntilNow
  <2>3. PairScore(a, b) \in Int
    BY <1>1, PairScores
  <2> QED BY <1>1, <2>2, <2>3
<1>3. ASSUME NEW a \in P, NEW b \in P, NEW c \in P, ~PassedThird(a, b, c)
      PROVE  Above(Total(a, b, c), log, Until(log, a, b, c)) <=> Total(a, b, c) >= floor
  <2>1. Until(log, a, b, c) = DOMAIN log
    BY <1>3, UntilNow
  <2>2. Total(a, b, c) \in Int
    BY <1>1, PairScores
  <2> QED BY <1>1, <2>1, <2>2
<1> QED BY <1>2, <1>3

-----------------------------------------------------------------------------
(* Counting                                                                *)

LEMMA CountMore ==
    ASSUME NEW S, NEW T, IsFiniteSet(T), S \subseteq T, NEW lo \in Nat, NEW hi \in Nat, lo <= hi,
           ExistsBijection(lo + 1 .. hi, T \ S)
    PROVE  Cardinality(T) = Cardinality(S) + hi - lo
<1>1. IsFiniteSet(lo + 1 .. hi) /\ Cardinality(lo + 1 .. hi) = hi - lo
  <2>1. lo + 1 \in Int /\ hi \in Int
    OBVIOUS
  <2>2. IsFiniteSet(lo + 1 .. hi) /\ Cardinality(lo + 1 .. hi) = IF lo + 1 > hi THEN 0 ELSE hi - (lo + 1) + 1
    BY <2>1, FS_Interval
  <2> QED BY <2>2
<1>2. Cardinality(T \ S) = hi - lo
  BY <1>1, FS_Bijection
<1>3. Cardinality(T \ S) = Cardinality(T) - Cardinality(T \cap S)
  BY FS_Difference
<1>4. T \cap S = S
  OBVIOUS
<1>5. IsFiniteSet(S)
  BY FS_Subset
<1>6. Cardinality(T) \in Nat /\ Cardinality(S) \in Nat
  BY <1>5, FS_CardinalityType
<1>7. Cardinality(T \cap S) = Cardinality(S)
  BY <1>4
<1> QED BY <1>2, <1>3, <1>6, <1>7

LEMMA SeenFinite ==
    ASSUME Ranked
    PROVE  /\ \A S \in SUBSET (P \X P) : IsFiniteSet(S)
           /\ \A S \in SUBSET (P \X P \X P) : IsFiniteSet(S)
<1>1. IsFiniteSet(P)
  <2> DEFINE N == Cardinality(Candidates)
  <2>1. N \in Nat /\ P = 1 .. N
    BY Inputs DEF P
  <2> HIDE DEF N
  <2> QED BY <2>1, FS_Interval
<1>2. IsFiniteSet(P \X P)
  BY <1>1, FS_Product
<1>3. IsFiniteSet((P \X P) \X P)
  BY <1>1, <1>2, FS_Product
<1> DEFINE f == [x \in (P \X P) \X P |-> <<x[1][1], x[1][2], x[2]>>]
<1>4. f \in Surjection((P \X P) \X P, P \X P \X P)
  <2>1. \A x \in (P \X P) \X P : x[1][1] \in P /\ x[1][2] \in P /\ x[2] \in P
    OBVIOUS
  <2>2. f \in [(P \X P) \X P -> P \X P \X P]
    BY <2>1
  <2>3. ASSUME NEW t \in P \X P \X P PROVE \E x \in (P \X P) \X P : f[x] = t
    <3>1. PICK a \in P, b \in P, c \in P : t = <<a, b, c>>
      OBVIOUS
    <3>2. <<<<a, b>>, c>> \in (P \X P) \X P
      OBVIOUS
    <3>3. f[<<<<a, b>>, c>>] = <<a, b, c>>
      BY <3>2
    <3> QED BY <3>1, <3>2, <3>3
  <2> QED BY <2>2, <2>3 DEF Surjection
<1>5. IsFiniteSet(P \X P \X P)
  BY <1>3, <1>4, FS_Surjection
<1> QED BY <1>2, <1>5, FS_Subset

-----------------------------------------------------------------------------
(* A step and what it counts                                               *)

(* The step counts the pairs (u, lo + 1) to (u, hi).                       *)
NewPairs(u, lo, hi) ==
    /\ lo \in Nat /\ hi \in Nat /\ lo <= hi
    /\ \A b \in lo + 1 .. hi : u \in P /\ b \in P
    /\ \A a, b \in P : PassedPair(a, b) => PassedPair(a, b)'
    /\ \A a, b \in P :
          PassedPair(a, b)' /\ ~PassedPair(a, b) /\ PairScore(a, b) >= floor
            <=> a = u /\ b \in lo + 1 .. hi
    /\ work'.pairs = work.pairs + hi - lo

(* The step counts the triples (u, v, lo + 1) to (u, v, hi).               *)
NewThirds(u, v, lo, hi) ==
    /\ lo \in Nat /\ hi \in Nat /\ lo <= hi
    /\ \A c \in lo + 1 .. hi : u \in P /\ v \in P /\ c \in P
    /\ \A a, b, c \in P : PassedThird(a, b, c) => PassedThird(a, b, c)'
    /\ \A a, b, c \in P :
          PassedThird(a, b, c)' /\ ~PassedThird(a, b, c)
            /\ ~Overlap(At(1, a), At(2, b)) /\ Total(a, b, c) >= floor
            <=> a = u /\ b = v /\ c \in lo + 1 .. hi
    /\ work'.thirds = work.thirds + hi - lo

(* What was answered before a place that the loops have passed stays.      *)
Settled(lg) ==
    /\ \A a, b \in P : PassedPair(a, b)' => \A x :
          Above(x, lg, Until(lg, a, b, 1)) <=> Above(x, log, Until(log, a, b, 1))
    /\ \A a, b, c \in P : PassedThird(a, b, c)' => \A x :
          Above(x, lg, Until(lg, a, b, c)) <=> Above(x, log, Until(log, a, b, c))

LEMMA AdvancePairs ==
    ASSUME IInv, RInv, at \notin {"stopped", "finished"}, UNCHANGED input, NEW lg, lg = log',
           Settled(lg), NEW u, NEW lo, NEW hi, NewPairs(u, lo, hi)
    PROVE  Cardinality(PairsDone)' = Cardinality(PairsDone) + hi - lo
<1> DEFINE S == PairsDone
           T == {t \in P \X P : /\ Above(PairScore(t[1], t[2]), lg, Until(lg, t[1], t[2], 1))
                                /\ PassedPair(t[1], t[2])'}
<1>0. lo \in Nat /\ hi \in Nat /\ lo <= hi
  BY DEF NewPairs
<1>1. Ranked /\ P' = P /\ PairsSeen(lg)' = PairsSeen(lg)
  BY Rigid, RigidReport DEF IInv
<1>2. PairsDone' = T
  <2>1. PairsDone' = {t \in PairsSeen(lg)' : PassedPair(t[1], t[2])'}
    BY DEF PairsDone
  <2> QED BY <1>1, <2>1 DEF PairsSeen
<1>3. S = {t \in P \X P : /\ Above(PairScore(t[1], t[2]), log, Until(log, t[1], t[2], 1))
                          /\ PassedPair(t[1], t[2])}
  BY DEF PairsDone, PairsSeen
<1>4. ASSUME NEW a \in P, NEW b \in P
      PROVE  /\ <<a, b>> \in S => <<a, b>> \in T
             /\ <<a, b>> \in T /\ <<a, b>> \notin S <=> a = u /\ b \in lo + 1 .. hi
  <2>1. <<a, b>> \in T <=> /\ Above(PairScore(a, b), lg, Until(lg, a, b, 1))
                           /\ PassedPair(a, b)'
    OBVIOUS
  <2>2. <<a, b>> \in S <=> /\ Above(PairScore(a, b), log, Until(log, a, b, 1))
                           /\ PassedPair(a, b)
    BY <1>3
  <2>3. ~PassedPair(a, b) =>
          (Above(PairScore(a, b), log, Until(log, a, b, 1)) <=> PairScore(a, b) >= floor)
    BY CountsNow
  <2>4. PassedPair(a, b)' => (Above(PairScore(a, b), lg, Until(lg, a, b, 1))
                                <=> Above(PairScore(a, b), log, Until(log, a, b, 1)))
    BY DEF Settled
  <2> HIDE DEF S, T
  <2> QED BY <2>1, <2>2, <2>3, <2>4 DEF NewPairs
<1>5. S \subseteq P \X P /\ T \subseteq P \X P
  BY <1>3
<1>6. IsFiniteSet(T)
  BY <1>1, <1>5, SeenFinite
<1> HIDE DEF S, T
<1>7. S \subseteq T
  BY <1>4, <1>5
<1>8. \A b \in lo + 1 .. hi : <<u, b>> \in T \ S
  BY <1>4 DEF NewPairs
<1>9. ASSUME NEW t \in T \ S PROVE \E b \in lo + 1 .. hi : t = <<u, b>>
  <2>1. PICK a \in P, b \in P : t = <<a, b>>
    BY <1>5
  <2> QED BY <1>4, <2>1
<1> DEFINE f == [b \in lo + 1 .. hi |-> <<u, b>>]
<1>10. f \in [lo + 1 .. hi -> T \ S]
  BY <1>8
<1>11. \A m, n \in lo + 1 .. hi : f[m] = f[n] => m = n
  OBVIOUS
<1>12. \A t \in T \ S : \E m \in lo + 1 .. hi : f[m] = t
  BY <1>9
<1> HIDE DEF f
<1>13. ExistsBijection(lo + 1 .. hi, T \ S)
  BY <1>10, <1>11, <1>12 DEF ExistsBijection, Bijection, Injection, Surjection, IsInjective
<1>14. Cardinality(T) = Cardinality(S) + hi - lo
  BY <1>0, <1>6, <1>7, <1>13, CountMore
<1> QED BY <1>2, <1>14 DEF S

LEMMA AdvanceThirds ==
    ASSUME IInv, RInv, at \notin {"stopped", "finished"}, UNCHANGED input, NEW lg, lg = log',
           Settled(lg), NEW u, NEW v, NEW lo, NEW hi, NewThirds(u, v, lo, hi)
    PROVE  Cardinality(ThirdsDone)' = Cardinality(ThirdsDone) + hi - lo
<1> DEFINE S == ThirdsDone
           T == {t \in P \X P \X P :
                   /\ ~Overlap(At(1, t[1]), At(2, t[2]))
                   /\ Above(Total(t[1], t[2], t[3]), lg, Until(lg, t[1], t[2], t[3]))
                   /\ PassedThird(t[1], t[2], t[3])'}
<1>0. lo \in Nat /\ hi \in Nat /\ lo <= hi
  BY DEF NewThirds
<1>1. Ranked /\ P' = P /\ ThirdsSeen(lg)' = ThirdsSeen(lg)
  BY Rigid, RigidReport DEF IInv
<1>2. ThirdsDone' = T
  <2>1. ThirdsDone' = {t \in ThirdsSeen(lg)' : PassedThird(t[1], t[2], t[3])'}
    BY DEF ThirdsDone
  <2> QED BY <1>1, <2>1 DEF ThirdsSeen
<1>3. S = {t \in P \X P \X P :
             /\ ~Overlap(At(1, t[1]), At(2, t[2]))
             /\ Above(Total(t[1], t[2], t[3]), log, Until(log, t[1], t[2], t[3]))
             /\ PassedThird(t[1], t[2], t[3])}
  BY DEF ThirdsDone, ThirdsSeen
<1>4. ASSUME NEW a \in P, NEW b \in P, NEW c \in P
      PROVE  /\ <<a, b, c>> \in S => <<a, b, c>> \in T
             /\ <<a, b, c>> \in T /\ <<a, b, c>> \notin S <=> a = u /\ b = v /\ c \in lo + 1 .. hi
  <2>1. <<a, b, c>> \in T <=> /\ ~Overlap(At(1, a), At(2, b))
                              /\ Above(Total(a, b, c), lg, Until(lg, a, b, c))
                              /\ PassedThird(a, b, c)'
    OBVIOUS
  <2>2. <<a, b, c>> \in S <=> /\ ~Overlap(At(1, a), At(2, b))
                              /\ Above(Total(a, b, c), log, Until(log, a, b, c))
                              /\ PassedThird(a, b, c)
    BY <1>3
  <2>3. ~PassedThird(a, b, c) =>
          (Above(Total(a, b, c), log, Until(log, a, b, c)) <=> Total(a, b, c) >= floor)
    BY CountsNow
  <2>4. PassedThird(a, b, c)' => (Above(Total(a, b, c), lg, Until(lg, a, b, c))
                                    <=> Above(Total(a, b, c), log, Until(log, a, b, c)))
    BY DEF Settled
  <2> HIDE DEF S, T
  <2> QED BY <2>1, <2>2, <2>3, <2>4 DEF NewThirds
<1>5. S \subseteq P \X P \X P /\ T \subseteq P \X P \X P
  BY <1>3
<1>6. IsFiniteSet(T)
  BY <1>1, <1>5, SeenFinite
<1> HIDE DEF S, T
<1>7. S \subseteq T
  BY <1>4, <1>5
<1>8. \A c \in lo + 1 .. hi : <<u, v, c>> \in T \ S
  BY <1>4 DEF NewThirds
<1>9. ASSUME NEW t \in T \ S PROVE \E c \in lo + 1 .. hi : t = <<u, v, c>>
  <2>1. PICK a \in P, b \in P, c \in P : t = <<a, b, c>>
    BY <1>5
  <2> QED BY <1>4, <2>1
<1> DEFINE f == [c \in lo + 1 .. hi |-> <<u, v, c>>]
<1>10. f \in [lo + 1 .. hi -> T \ S]
  BY <1>8
<1>11. \A m, n \in lo + 1 .. hi : f[m] = f[n] => m = n
  OBVIOUS
<1>12. \A t \in T \ S : \E m \in lo + 1 .. hi : f[m] = t
  BY <1>9
<1> HIDE DEF f
<1>13. ExistsBijection(lo + 1 .. hi, T \ S)
  BY <1>10, <1>11, <1>12 DEF ExistsBijection, Bijection, Injection, Surjection, IsInjective
<1>14. Cardinality(T) = Cardinality(S) + hi - lo
  BY <1>0, <1>6, <1>7, <1>13, CountMore
<1> QED BY <1>2, <1>14 DEF S

(* The report of the plain scanner does not change.                        *)
LEMMA SamePlain ==
    ASSUME UNCHANGED <<input, plain>>, PlainEnd
    PROVE  PlainEnd'
<1>1. UNCHANGED input /\ plain' = plain /\ problem' = problem
  BY DEF input
<1>2. PICK said : said = plain
  OBVIOUS
<1>3. InOrder(said.log)'
  <2>1. PICK lg : lg = said.log
    OBVIOUS
  <2> QED BY <1>1, <1>2, <2>1, RigidReport DEF PlainEnd
<1>4. Ended(said.log, said.at)'
  <2>1. PICK lg, end : lg = said.log /\ end = said.at
    OBVIOUS
  <2> QED BY <1>1, <1>2, <2>1, RigidReport DEF PlainEnd
<1>5. WorkOf(said.log)' = WorkOf(said.log)
  <2>1. PICK lg : lg = said.log
    OBVIOUS
  <2> QED BY <1>1, <2>1, RigidReport
<1>6. \A x : Above(x, said.log, DOMAIN said.log)' <=> Above(x, said.log, DOMAIN said.log)
  BY <1>1 DEF Above
<1> QED BY <1>1, <1>2, <1>3, <1>4, <1>5, <1>6 DEF PlainEnd

(* A range from the first position on.                                     *)
Initial(S) == S \subseteq P /\ \A m \in S, n \in P : n <= m => n \in S

LEMMA DownSet ==
    ASSUME Ranked, NEW S, Initial(S)
    PROVE  Cardinality(S) \in Nat /\ S = 1 .. Cardinality(S)
<1> DEFINE N == Cardinality(Candidates)
<1>1. N \in Nat /\ P = 1 .. N
  BY Inputs DEF P
<1> HIDE DEF N
<1>2. CASE S = P
  BY <1>1, <1>2, FS_Interval
<1>3. CASE S # P /\ S \subseteq P
  <2> DEFINE m == Smallest(P \ S)
  <2>1. m \in P \ S /\ \A n \in P \ S : m <= n
    <3>1. P \ S \in SUBSET P /\ P \ S # {}
      BY <1>3
    <3> QED BY <3>1, SmallestPosition
  <2> HIDE DEF m
  <2>2. m \in Nat /\ m # 0
    BY <1>1, <2>1
  <2>3. S = 1 .. m - 1
    <3>1. ASSUME NEW n \in S PROVE n \in 1 .. m - 1
      <4>1. n \in P /\ ~(m <= n)
        BY <2>1 DEF Initial
      <4> QED BY <1>1, <2>2, <4>1
    <3>2. ASSUME NEW n \in 1 .. m - 1 PROVE n \in S
      <4>1. n \in P /\ ~(m <= n)
        BY <1>1, <2>1, <2>2
      <4> QED BY <2>1, <4>1
    <3> QED BY <3>1, <3>2
  <2>4. Cardinality(1 .. m - 1) = m - 1
    <3>1. m - 1 \in Int /\ 1 \in Int
      BY <2>2
    <3>2. Cardinality(1 .. m - 1) = IF 1 > m - 1 THEN 0 ELSE m - 1 - 1 + 1
      BY <3>1, FS_Interval
    <3> QED BY <2>2, <3>2
  <2> QED BY <2>2, <2>3, <2>4
<1> QED BY <1>2, <1>3 DEF Initial

(* What reaches the floor was kept.                                        *)
LEMMA Kept ==
    ASSUME IInv, NEW a \in P, NEW b \in P
    PROVE  /\ PairScore(a, b) >= floor =>
                /\ a \in Positions(1) /\ b \in Positions(2)
                /\ Score(1, a) + Top(2) + Top(3) >= floor
           /\ \A c \in P : Total(a, b, c) >= floor =>
                c \in Positions(3) /\ PairScore(a, b) >= floor
<1>1. Ranked /\ floor \in Int /\ problem.floor \in Int /\ problem.floor <= floor
  BY Inputs DEF IInv, TypeOK, Places
<1>2. 1 \in P
  BY <1>1, Tops
<1>3. /\ PairScore(a, b) \in Int
      /\ PairScore(a, b) <= Score(1, a) + Top(2) + Top(3)
      /\ PairScore(a, b) <= Top(1) + Score(2, b) + Top(3)
      /\ Score(1, a) + Top(2) + Top(3) \in Int
      /\ Top(1) + Score(2, b) + Top(3) \in Int
  BY <1>1, <1>2, PairScores
<1>4. ASSUME PairScore(a, b) >= floor
      PROVE  /\ a \in Positions(1) /\ b \in Positions(2)
             /\ Score(1, a) + Top(2) + Top(3) >= floor
  <2>1. /\ Score(1, a) + Top(2) + Top(3) >= floor
        /\ Score(1, a) + Top(2) + Top(3) >= problem.floor
        /\ Top(1) + Score(2, b) + Top(3) >= problem.floor
    BY <1>1, <1>3, <1>4
  <2> QED BY <1>1, <2>1, KeptPositions
<1>5. ASSUME NEW c \in P, Total(a, b, c) >= floor
      PROVE  c \in Positions(3) /\ PairScore(a, b) >= floor
  <2>1. /\ Total(a, b, c) \in Int
        /\ Total(a, b, c) <= PairScore(a, b)
        /\ Total(a, b, c) <= Top(1) + Top(2) + Score(3, c)
        /\ Top(1) + Top(2) + Score(3, c) \in Int
    BY <1>1, PairScores
  <2>2. Top(1) + Top(2) + Score(3, c) >= problem.floor /\ PairScore(a, b) >= floor
    BY <1>1, <1>3, <1>5, <2>1
  <2> QED BY <1>1, <2>2, KeptPositions
<1> QED BY <1>4, <1>5

LEMMA CountedStep ==
    ASSUME IInv, RInv, at \notin {"stopped", "finished"}, UNCHANGED input, Settled(log'),
           problem.goal = "band" /\ at' # "stopped" =>
              /\ \E u, lo, hi : NewPairs(u, lo, hi)
              /\ \E u, v, lo, hi : NewThirds(u, v, lo, hi)
    PROVE  WorkCounted'
<1> SUFFICES ASSUME problem.goal = "band", at' # "stopped"
             PROVE  /\ work'.pairs = Cardinality(PairsDone)'
                    /\ work'.thirds = Cardinality(ThirdsDone)'
  BY DEF WorkCounted, input
<1>1. PICK lg : lg = log'
  OBVIOUS
<1>2. work.pairs = Cardinality(PairsDone) /\ work.thirds = Cardinality(ThirdsDone)
  BY DEF RInv, WorkCounted
<1>3. work'.pairs = Cardinality(PairsDone)'
  <2>1. PICK u, lo, hi : NewPairs(u, lo, hi)
    OBVIOUS
  <2>2. Cardinality(PairsDone)' = Cardinality(PairsDone) + hi - lo
    BY <1>1, <2>1, AdvancePairs
  <2> QED BY <1>2, <2>1, <2>2 DEF NewPairs
<1>4. work'.thirds = Cardinality(ThirdsDone)'
  <2>1. PICK u, v, lo, hi : NewThirds(u, v, lo, hi)
    OBVIOUS
  <2>2. Cardinality(ThirdsDone)' = Cardinality(ThirdsDone) + hi - lo
    BY <1>1, <2>1, AdvanceThirds
  <2> QED BY <1>2, <2>1, <2>2 DEF NewThirds
<1> QED BY <1>3, <1>4

(* A step that hands over nothing.                                         *)
LEMMA QuietStep ==
    ASSUME IInv, RInv, UNCHANGED <<input, floor, log, scanner, plain>>,
           at \notin {"stopped", "finished"}, at' # "stopped", SecondsLeft',
           \E u, lo, hi : NewPairs(u, lo, hi),
           \E u, v, lo, hi : NewThirds(u, v, lo, hi)
    PROVE  RInv'
<1>1. UNCHANGED input /\ log' = log /\ floor' = floor /\ plain' = plain /\ scanner' = scanner
  OBVIOUS
<1>2. WorkCounted'
  BY <1>1, CountedStep DEF Settled
<1>3. LogPassed'
  <2> SUFFICES ASSUME NEW a \in P, NEW b \in P, NEW c \in P, Visited(Plan(a, b, c))'
               PROVE  PassedThird(a, b, c)'
    BY <1>1, Rigid DEF LogPassed
  <2>1. Visited(Plan(a, b, c))
    BY <1>1, Rigid DEF Visited
  <2>2. PassedThird(a, b, c)
    BY <2>1 DEF RInv, LogPassed
  <2> QED BY <2>2 DEF NewThirds
<1>4. FloorAnswered'
  <2>1. \A x \in Int : x >= floor <=> Above(x, log, DOMAIN log)
    BY DEF RInv, FloorAnswered
  <2> QED BY <1>1, <2>1 DEF FloorAnswered, Above, input
<1>5. InOrder(log)'
  <2>1. PICK lg : lg = log
    OBVIOUS
  <2>2. InOrder(lg)' <=> InOrder(lg)
    BY <1>1, RigidReport
  <2> QED BY <1>1, <2>1, <2>2 DEF RInv
<1>6. Stops'
  BY <1>1 DEF RInv, Stops
<1>7. Repeated'
  BY <1>1, SamePlain DEF RInv, Repeated, Repeats
<1> QED BY <1>2, <1>3, <1>4, <1>5, <1>6, <1>7 DEF RInv

-----------------------------------------------------------------------------
(* Steps that count nothing, one or several                                *)

LEMMA Works ==
    ASSUME IInv
    PROVE  work.pairs \in Nat /\ work.thirds \in Nat
BY DEF IInv, TypeOK

LEMMA NoPairs ==
    ASSUME IInv, work'.pairs = work.pairs,
           \A a, b \in P : PassedPair(a, b) => PassedPair(a, b)',
           \A a, b \in P : PassedPair(a, b)' /\ ~PassedPair(a, b) => ~(PairScore(a, b) >= floor)
    PROVE  \E u, lo, hi : NewPairs(u, lo, hi)
<1>1. work.pairs \in Nat /\ \A b : b \notin 0 + 1 .. 0
  BY Works
<1>2. NewPairs(0, 0, 0)
  BY <1>1 DEF NewPairs
<1> QED BY <1>2

LEMMA NoThirds ==
    ASSUME IInv, work'.thirds = work.thirds,
           \A a, b, c \in P : PassedThird(a, b, c) => PassedThird(a, b, c)',
           \A a, b, c \in P :
              PassedThird(a, b, c)' /\ ~PassedThird(a, b, c) /\ ~Overlap(At(1, a), At(2, b))
                => ~(Total(a, b, c) >= floor)
    PROVE  \E u, v, lo, hi : NewThirds(u, v, lo, hi)
<1>1. work.thirds \in Nat /\ \A c : c \notin 0 + 1 .. 0
  BY Works
<1>2. NewThirds(0, 0, 0, 0)
  BY <1>1 DEF NewThirds
<1> QED BY <1>2

LEMMA PlainFirstReport ==
    ASSUME IInv, RInv, PlainFirst
    PROVE  RInv'
<1>1. /\ UNCHANGED <<input, floor, log, scanner, plain>> /\ work' = work
      /\ at = "first" /\ at' = "second" /\ scanner = "plain" /\ first' = first /\ second' = 1
  BY DEF PlainFirst, report
<1>2. first \in Nat /\ \A m \in P : m \in Nat /\ m # 0
  BY Stages
<1>3. \A a, b \in P : (PassedPair(a, b) <=> a < first) /\ (PassedPair(a, b)' <=> a < first)
  BY <1>1, <1>2 DEF PassedPair, Inside, PairsTo
<1>4. \A a, b, c \in P :
         (PassedThird(a, b, c) <=> a < first) /\ (PassedThird(a, b, c)' <=> a < first)
  BY <1>1, <1>2 DEF PassedThird, PairsTo
<1>5. \E u, lo, hi : NewPairs(u, lo, hi)
  BY <1>1, <1>3, NoPairs
<1>6. \E u, v, lo, hi : NewThirds(u, v, lo, hi)
  BY <1>1, <1>4, NoThirds
<1>7. SecondsLeft'
  BY <1>1 DEF SecondsLeft
<1> QED BY <1>1, <1>5, <1>6, <1>7, QuietStep

(* Behind a place of the second loop that falls below the floor nothing    *)
(* reaches it.                                                             *)
LEMMA PairsOver ==
    ASSUME IInv, first \in P, NEW m \in Nat, m # 0,
           m \in Positions(2) => Score(1, first) + Score(2, m) + Top(3) < floor,
           NEW b \in P, m <= b
    PROVE  /\ ~(PairScore(first, b) >= floor)
           /\ \A c \in P : ~(Total(first, b, c) >= floor)
<1>1. Ranked /\ floor \in Int
  BY DEF IInv, TypeOK
<1>2. m \in P
  BY <1>1, PositionNumbers
<1>3. /\ PairScore(first, m) \in Int /\ PairScore(first, b) \in Int
      /\ PairScore(first, b) <= PairScore(first, m)
  BY <1>1, <1>2, PairScores
<1>4. ~(PairScore(first, m) >= floor)
  <2>1. PairScore(first, m) >= floor => m \in Positions(2)
    BY <1>2, Kept
  <2> QED BY <1>1, <1>3, <2>1 DEF PairScore
<1>5. ~(PairScore(first, b) >= floor)
  BY <1>1, <1>3, <1>4
<1> QED BY <1>5, Kept

LEMMA PlainSecondOverReport ==
    ASSUME IInv, RInv, PlainSecondOver
    PROVE  RInv'
<1>1. /\ UNCHANGED <<input, floor, log, scanner, plain>> /\ work' = work
      /\ at = "second" /\ at' = "first" /\ scanner = "plain" /\ first' = first + 1 /\ SecondOver
  BY DEF PlainSecondOver, report
<1>2. /\ first \in Nat /\ first \in P /\ second \in Nat /\ second # 0
      /\ \A m \in P : m \in Nat /\ m # 0
  BY <1>1, Stages
<1>3. \A a, b \in P : /\ PassedPair(a, b) <=> a < first \/ (a = first /\ b <= second - 1)
                      /\ PassedPair(a, b)' <=> a < first + 1
  BY <1>1, <1>2 DEF PassedPair, Inside, PairsTo
<1>4. \A a, b, c \in P :
         /\ PassedThird(a, b, c) <=> a < first \/ (a = first /\ b <= second - 1)
         /\ PassedThird(a, b, c)' <=> a < first + 1
  BY <1>1, <1>2 DEF PassedThird, PairsTo
<1>5. \A b \in P : second <= b =>
         /\ ~(PairScore(first, b) >= floor)
         /\ \A c \in P : ~(Total(first, b, c) >= floor)
  BY <1>1, <1>2, PairsOver DEF SecondOver
<1>6. \A a, b \in P : a < first + 1 /\ ~(a < first \/ (a = first /\ b <= second - 1)) =>
         a = first /\ second <= b
  BY <1>2
<1>7. \A a, b \in P : a < first \/ (a = first /\ b <= second - 1) => a < first + 1
  BY <1>2
<1>8. \E u, lo, hi : NewPairs(u, lo, hi)
  <2>1. \A a, b \in P : PassedPair(a, b) => PassedPair(a, b)'
    BY <1>3, <1>7
  <2>2. \A a, b \in P : PassedPair(a, b)' /\ ~PassedPair(a, b) => ~(PairScore(a, b) >= floor)
    BY <1>3, <1>5, <1>6
  <2> QED BY <1>1, <2>1, <2>2, NoPairs
<1>9. \E u, v, lo, hi : NewThirds(u, v, lo, hi)
  <2>1. \A a, b, c \in P : PassedThird(a, b, c) => PassedThird(a, b, c)'
    BY <1>4, <1>7
  <2>2. \A a, b, c \in P : PassedThird(a, b, c)' /\ ~PassedThird(a, b, c) => ~(Total(a, b, c) >= floor)
    BY <1>4, <1>5, <1>6
  <2> QED BY <1>1, <2>1, <2>2, NoThirds
<1>10. SecondsLeft'
  BY <1>1 DEF SecondsLeft
<1> QED BY <1>1, <1>8, <1>9, <1>10, QuietStep

LEMMA PlainSecondReport ==
    ASSUME IInv, RInv, PlainSecond
    PROVE  RInv'
<1>1. /\ UNCHANGED <<input, floor, log, scanner, plain>>
      /\ at = "second" /\ scanner = "plain" /\ first' = first /\ ~SecondOver
      /\ \/ Overlap(At(1, first), At(2, second)) /\ at' = "second" /\ second' = second + 1
         \/ ~Overlap(At(1, first), At(2, second)) /\ at' = "third" /\ second' = second /\ third' = 1
      /\ work' = [work EXCEPT !.pairs = @ + 1]
  BY DEF PlainSecond
<1>2. /\ first \in Nat /\ first \in P /\ second \in Nat /\ second # 0 /\ Positions(2) \subseteq P
      /\ \A m \in P : m \in Nat /\ m # 0
  BY <1>1, Stages DEF Songs
<1>3. work'.pairs = work.pairs + 1 /\ work'.thirds = work.thirds /\ work.pairs \in Nat
  BY <1>1, Works DEF IInv, TypeOK
<1>4. \A a, b \in P : /\ PassedPair(a, b) <=> a < first \/ (a = first /\ b <= second - 1)
                      /\ PassedPair(a, b)' <=> a < first \/ (a = first /\ b <= second)
  BY <1>1, <1>2 DEF PassedPair, Inside, PairsTo
<1>5. \A a, b, c \in P : PassedThird(a, b, c) <=> a < first \/ (a = first /\ b <= second - 1)
  BY <1>1, <1>2 DEF PassedThird, PairsTo
<1>6. \A a, b, c \in P : PassedThird(a, b, c)' <=>
         \/ a < first \/ (a = first /\ b <= second - 1)
         \/ Overlap(At(1, first), At(2, second)) /\ a = first /\ b = second
  BY <1>1, <1>2 DEF PassedThird, PairsTo, ThirdsTo
<1>7. second \in P /\ PairScore(first, second) >= floor
  <2>1. second \in P /\ ~(PairScore(first, second) < floor)
    BY <1>1, <1>2 DEF SecondOver, PairScore
  <2>2. PairScore(first, second) \in Int /\ floor \in Int
    BY <1>2, <2>1, PairScores, Stages DEF IInv
  <2> QED BY <2>1, <2>2
<1>8. NewPairs(first, second - 1, second)
  <2>1. \A b : b \in second - 1 + 1 .. second <=> b = second
    BY <1>2
  <2>2. second - 1 \in Nat /\ second - 1 <= second
    BY <1>2
  <2>3. \A a, b \in P : PassedPair(a, b)' /\ ~PassedPair(a, b) <=> a = first /\ b = second
    BY <1>2, <1>4
  <2>4. \A a, b \in P : PassedPair(a, b) => PassedPair(a, b)'
    BY <1>2, <1>4
  <2>5. work'.pairs = work.pairs + second - (second - 1)
    BY <1>2, <1>3
  <2> QED BY <1>2, <1>7, <2>1, <2>2, <2>3, <2>4, <2>5 DEF NewPairs
<1>9. \E u, v, lo, hi : NewThirds(u, v, lo, hi)
  BY <1>3, <1>5, <1>6, NoThirds
<1>10. SecondsLeft'
  BY <1>1 DEF SecondsLeft
<1>11. at' # "stopped"
  BY <1>1
<1> QED BY <1>1, <1>8, <1>9, <1>10, <1>11, QuietStep

(* The same for the third loop.                                            *)
LEMMA ThirdsOver ==
    ASSUME IInv, first \in P, second \in P, NEW m \in Nat, m # 0,
           m \in Positions(3) => Total(first, second, m) < floor,
           NEW c \in P, m <= c
    PROVE  ~(Total(first, second, c) >= floor)
<1>1. Ranked /\ floor \in Int
  BY DEF IInv, TypeOK
<1>2. m \in P
  BY <1>1, PositionNumbers
<1>3. /\ Total(first, second, m) \in Int /\ Total(first, second, c) \in Int
      /\ Total(first, second, c) <= Total(first, second, m)
  BY <1>1, <1>2, PairScores
<1>4. ~(Total(first, second, m) >= floor)
  <2>1. Total(first, second, m) >= floor => m \in Positions(3)
    BY <1>2, Kept
  <2> QED BY <1>1, <1>3, <2>1
<1> QED BY <1>1, <1>3, <1>4

LEMMA PlainThirdOverReport ==
    ASSUME IInv, RInv, PlainThirdOver
    PROVE  RInv'
<1>1. /\ UNCHANGED <<input, floor, log, scanner, plain>> /\ work' = work
      /\ at = "third" /\ at' = "second" /\ scanner = "plain"
      /\ first' = first /\ second' = second + 1 /\ ThirdOver
  BY DEF PlainThirdOver, report
<1>2. /\ first \in Nat /\ first \in P /\ second \in Nat /\ second \in P
      /\ third \in Nat /\ third # 0 /\ \A m \in P : m \in Nat /\ m # 0
  BY <1>1, Stages
<1>3. \A a, b \in P : PassedPair(a, b)' <=> PassedPair(a, b)
  BY <1>1, <1>2 DEF PassedPair, Inside, PairsTo
<1>4. \A a, b, c \in P :
         /\ PassedThird(a, b, c) <=>
              a < first \/ (a = first /\ (b < second \/ (b = second /\ c <= third - 1)))
         /\ PassedThird(a, b, c)' <=> a < first \/ (a = first /\ b <= second)
  BY <1>1, <1>2 DEF PassedThird, PairsTo, ThirdsTo
<1>5. \A c \in P : third <= c => ~(Total(first, second, c) >= floor)
  BY <1>1, <1>2, ThirdsOver DEF ThirdOver
<1>6. \E u, lo, hi : NewPairs(u, lo, hi)
  BY <1>1, <1>3, NoPairs
<1>7. \E u, v, lo, hi : NewThirds(u, v, lo, hi)
  <2>1. \A a, b, c \in P : PassedThird(a, b, c) => PassedThird(a, b, c)'
    BY <1>2, <1>4
  <2>2. \A a, b, c \in P : PassedThird(a, b, c)' /\ ~PassedThird(a, b, c) =>
           a = first /\ b = second /\ third <= c
    BY <1>2, <1>4
  <2> QED BY <1>1, <1>5, <2>1, <2>2, NoThirds
<1>8. SecondsLeft'
  BY <1>1 DEF SecondsLeft
<1> QED BY <1>1, <1>6, <1>7, <1>8, QuietStep

LEMMA PlainThirdSkippedReport ==
    ASSUME IInv, RInv, PlainThirdSkipped
    PROVE  RInv'
<1>1. /\ UNCHANGED <<input, floor, log, scanner, plain>>
      /\ at = "third" /\ at' = "third" /\ scanner = "plain"
      /\ first' = first /\ second' = second /\ third' = third + 1 /\ ~ThirdOver
      /\ work' = [work EXCEPT !.thirds = @ + 1]
  BY DEF PlainThirdSkipped
<1>2. /\ first \in Nat /\ first \in P /\ second \in Nat /\ second \in P /\ Positions(3) \subseteq P
      /\ third \in Nat /\ third # 0 /\ \A m \in P : m \in Nat /\ m # 0
  BY <1>1, Stages DEF Songs
<1>3. work'.pairs = work.pairs /\ work'.thirds = work.thirds + 1 /\ work.thirds \in Nat
  BY <1>1, Works DEF IInv, TypeOK
<1>4. \A a, b \in P : PassedPair(a, b)' <=> PassedPair(a, b)
  BY <1>1, <1>2 DEF PassedPair, Inside, PairsTo
<1>5. \A a, b, c \in P :
         /\ PassedThird(a, b, c) <=>
              a < first \/ (a = first /\ (b < second \/ (b = second /\ c <= third - 1)))
         /\ PassedThird(a, b, c)' <=>
              a < first \/ (a = first /\ (b < second \/ (b = second /\ c <= third)))
  BY <1>1, <1>2 DEF PassedThird, ThirdsTo
<1>6. \E u, lo, hi : NewPairs(u, lo, hi)
  BY <1>3, <1>4, NoPairs
<1>7. third \in P /\ Total(first, second, third) >= floor /\ ~Overlap(At(1, first), At(2, second))
  <2>1. third \in P /\ ~(Total(first, second, third) < floor)
    BY <1>1, <1>2 DEF ThirdOver
  <2>2. Total(first, second, third) \in Int /\ floor \in Int
    BY <1>2, <2>1, PairScores, Stages DEF IInv
  <2>3. ~Overlap(At(1, first), At(2, second))
    BY <1>1 DEF IInv, Places
  <2> QED BY <2>1, <2>2, <2>3
<1>8. NewThirds(first, second, third - 1, third)
  <2>1. \A c : c \in third - 1 + 1 .. third <=> c = third
    BY <1>2
  <2>2. third - 1 \in Nat /\ third - 1 <= third
    BY <1>2
  <2>3. \A a, b, c \in P : PassedThird(a, b, c)' /\ ~PassedThird(a, b, c)
                             <=> a = first /\ b = second /\ c = third
    BY <1>2, <1>5
  <2>4. \A a, b, c \in P : PassedThird(a, b, c) => PassedThird(a, b, c)'
    BY <1>2, <1>5
  <2>5. work'.thirds = work.thirds + third - (third - 1)
    BY <1>2, <1>3
  <2> QED BY <1>2, <1>7, <2>1, <2>2, <2>3, <2>4, <2>5 DEF NewThirds
<1>9. SecondsLeft'
  BY <1>1 DEF SecondsLeft
<1> QED BY <1>1, <1>6, <1>8, <1>9, QuietStep

LEMMA FinishReport ==
    ASSUME IInv, RInv, Finish
    PROVE  RInv'
<1>1. /\ UNCHANGED <<input, floor, log, scanner, plain>> /\ work' = work
      /\ at = "first" /\ at' = "finished" /\ FirstOver
  BY DEF Finish, report
<1>2. first \in Nat /\ first # 0 /\ \A m \in P : m \in Nat /\ m # 0
  BY Stages
<1>3. \A a, b \in P : (PassedPair(a, b) <=> a < first) /\ PassedPair(a, b)'
  BY <1>1, <1>2 DEF PassedPair, Inside
<1>4. \A a, b, c \in P : (PassedThird(a, b, c) <=> a < first) /\ PassedThird(a, b, c)'
  BY <1>1, <1>2 DEF PassedThird
<1>5. ASSUME NEW a \in P, NEW b \in P, first <= a
      PROVE  ~(PairScore(a, b) >= floor)
  <2> SUFFICES ASSUME PairScore(a, b) >= floor PROVE FALSE
    OBVIOUS
  <2>1. Ranked /\ floor \in Int
    BY DEF IInv, TypeOK
  <2>2. first \in P
    BY <1>2, <1>5, <2>1, PositionNumbers
  <2>3. /\ PairScore(a, b) \in Int /\ PairScore(first, b) \in Int
        /\ PairScore(a, b) <= PairScore(first, b)
        /\ Score(1, first) + Top(2) + Top(3) \in Int
    BY <1>5, <2>1, <2>2, PairScores
  <2>4. PairScore(first, b) >= floor
    BY <2>1, <2>3
  <2>5. first \in Positions(1) /\ Score(1, first) + Top(2) + Top(3) >= floor
    BY <2>2, <2>4, Kept
  <2> QED BY <1>1, <2>1, <2>3, <2>5 DEF FirstOver
<1>6. \E u, lo, hi : NewPairs(u, lo, hi)
  BY <1>1, <1>2, <1>3, <1>5, NoPairs
<1>7. \E u, v, lo, hi : NewThirds(u, v, lo, hi)
  <2>1. \A a, b, c \in P : first <= a => ~(Total(a, b, c) >= floor)
    BY <1>5, Kept
  <2> QED BY <1>1, <1>2, <1>4, <2>1, NoThirds
<1>8. SecondsLeft'
  BY <1>1 DEF SecondsLeft, Inside
<1> QED BY <1>1, <1>6, <1>7, <1>8, QuietStep

-----------------------------------------------------------------------------
(* The same for the scanner that reuses what fits the first team           *)

LEMMA ReuseRanges ==
    ASSUME IInv, RInv, scanner = "reuse"
    PROVE  /\ inSecond \subseteq P /\ inThird \subseteq P /\ seconds \subseteq P
           /\ ahead \subseteq P /\ batch \subseteq P
           /\ at \in {"second", "third", "batch"} =>
                /\ \A b \in P : PairScore(first, b) >= floor => b \in inSecond
                /\ seconds = {b \in inSecond : counted.pairs < b /\ ~Overlap(At(1, first), At(2, b))}
           /\ at \in {"third", "batch"} =>
                \A c \in P : Total(first, second, c) >= floor <=> c \in inThird
<1>1. Ranked /\ floor \in Int
  BY DEF IInv, TypeOK
<1>2. /\ inSecond \subseteq P /\ inThird \subseteq P /\ seconds \subseteq P
      /\ ahead \subseteq P /\ batch \subseteq P
  BY Stages DEF IInv, TypeOK, Songs
<1>3. ASSUME at \in {"second", "third", "batch"}, NEW b \in P, PairScore(first, b) >= floor
      PROVE  b \in inSecond
  <2>1. first \in P
    BY <1>3, Stages
  <2>2. b \in Positions(2)
    BY <1>3, <2>1, Kept
  <2>3. PairScore(first, b) \in Int
    BY <1>1, <2>1, PairScores
  <2>4. b \notin inSecond => PairScore(first, b) < floor
    <3>1. first >= first
      BY Stages
    <3> QED BY <2>1, <2>2, <3>1 DEF IInv, Ranges, PairScore
  <2> QED BY <1>1, <1>3, <2>3, <2>4
<1>4. at \in {"second", "third", "batch"} =>
         seconds = {b \in inSecond : counted.pairs < b /\ ~Overlap(At(1, first), At(2, b))}
  BY DEF RInv, SecondsLeft, Inside
<1>5. ASSUME at \in {"third", "batch"}, NEW c \in P
      PROVE  Total(first, second, c) >= floor <=> c \in inThird
  <2>1. first \in P /\ second \in P
    BY <1>5, Stages
  <2>2. Total(first, second, c) \in Int
    BY <1>1, <2>1, PairScores
  <2>3. Total(first, second, c) >= floor => c \in Positions(3)
    BY <2>1, Kept
  <2>4. /\ c \in Positions(3) \ inThird => Total(first, second, c) < floor
        /\ c \in inThird => Total(first, second, c) >= floor
    BY <1>5 DEF IInv, Ranges
  <2> QED BY <1>1, <2>2, <2>3, <2>4
<1> QED BY <1>2, <1>3, <1>4, <1>5

(* Where the loops of this scanner stand.                                  *)
LEMMA ReusePassed ==
    ASSUME IInv, scanner = "reuse"
    PROVE  /\ at = "first" =>
                /\ \A a, b \in P : PassedPair(a, b) <=> a < first
                /\ \A a, b, c \in P : PassedThird(a, b, c) <=> a < first
           /\ at = "second" =>
                /\ \A a, b \in P : PassedPair(a, b) <=>
                      a < first \/ (a = first /\ b <= counted.pairs)
                /\ \A a, b, c \in P : PassedThird(a, b, c) <=>
                      a < first \/ (a = first /\ b <= counted.pairs)
           /\ at \in {"third", "batch"} =>
                /\ counted.pairs = second
                /\ \A a, b \in P : PassedPair(a, b) <=> a < first \/ (a = first /\ b <= second)
                /\ \A a, b, c \in P : PassedThird(a, b, c) <=>
                      \/ a < first
                      \/ a = first /\ (b < second \/ (b = second /\ c <= counted.thirds))
<1>1. at \in {"third", "batch"} => counted.pairs = second
  BY DEF IInv, Lists
<1> QED BY <1>1 DEF PassedPair, PassedThird, Inside, PairsTo, ThirdsTo

LEMMA ReuseFirstReport ==
    ASSUME IInv, RInv, IInv', ReuseFirst
    PROVE  RInv'
<1>1. /\ UNCHANGED <<input, floor, log, scanner, plain>> /\ work' = work
      /\ at = "first" /\ at' = "second" /\ scanner = "reuse" /\ scanner' = "reuse" /\ first' = first
      /\ counted' = [counted EXCEPT !.pairs = 0]
      /\ seconds' = {b \in inSecond' : ~Overlap(At(1, first), At(2, b))}
  BY DEF ReuseFirst, report
<1>2. counted'.pairs = 0 /\ first \in Nat /\ \A m \in P : m \in Nat /\ m # 0
  BY <1>1, Stages DEF IInv, TypeOK
<1>3. /\ \A a, b \in P : (PassedPair(a, b) <=> a < first) /\ (PassedPair(a, b)' <=> a < first)
      /\ \A a, b, c \in P : (PassedThird(a, b, c) <=> a < first) /\ (PassedThird(a, b, c)' <=> a < first)
  BY <1>1, <1>2 DEF PassedPair, PassedThird, Inside, PairsTo
<1>4. \E u, lo, hi : NewPairs(u, lo, hi)
  BY <1>1, <1>3, NoPairs
<1>5. \E u, v, lo, hi : NewThirds(u, v, lo, hi)
  BY <1>1, <1>3, NoThirds
<1>6. SecondsLeft'
  <2>1. inSecond' \subseteq P
    <3>1. inSecond' \subseteq Positions(2)'
      BY DEF IInv, TypeOK
    <3>2. Positions(2)' = Positions(2)
      BY <1>1, Rigid DEF Songs
    <3>3. Positions(2) \subseteq P
      BY Stages DEF Songs
    <3> QED BY <3>1, <3>2, <3>3
  <2>2. \A b \in inSecond' : counted'.pairs < b
    BY <1>2, <2>1
  <2>3. \A b : Overlap(At(1, first), At(2, b))' = Overlap(At(1, first), At(2, b))
    BY <1>1 DEF Overlap, At, input
  <2> QED BY <1>1, <2>2, <2>3 DEF SecondsLeft
<1> QED BY <1>1, <1>4, <1>5, <1>6, QuietStep

(* What is behind the last position that was counted.                      *)
BehindTo(S, done, hi) ==
    /\ done <= hi /\ Behind(S, done) = hi - done
    /\ done + 1 .. hi \subseteq P
    /\ \A m \in P : m \in S /\ ~(m <= done) <=> m \in done + 1 .. hi

LEMMA BehindPositions ==
    ASSUME Ranked, NEW S, Initial(S), NEW done \in Nat
    PROVE  \E hi \in Nat : BehindTo(S, done, hi)
<1> DEFINE K == Cardinality(S)
<1>1. K \in Nat /\ S = 1 .. K
  BY DownSet
<1>2. Behind(S, done) = IF K > done THEN K - done ELSE 0
  BY DEF Behind
<1> HIDE DEF K
<1>3. \A m \in P : m \in Nat /\ m # 0
  BY PositionNumbers
<1>4. CASE K > done
  <2>1. done <= K /\ Behind(S, done) = K - done /\ done + 1 .. K \subseteq S
    BY <1>1, <1>2, <1>4
  <2>2. \A m \in P : m \in S /\ ~(m <= done) <=> m \in done + 1 .. K
    BY <1>1, <1>3
  <2>3. S \subseteq P
    BY DEF Initial
  <2> QED BY <1>1, <2>1, <2>2, <2>3 DEF BehindTo
<1>5. CASE ~(K > done)
  <2>1. done <= done /\ Behind(S, done) = done - done /\ done + 1 .. done \subseteq P
    BY <1>2, <1>5
  <2>2. \A m \in P : m \in S /\ ~(m <= done) <=> m \in done + 1 .. done
    BY <1>1, <1>3, <1>5
  <2> QED BY <2>1, <2>2 DEF BehindTo
<1> QED BY <1>4, <1>5

LEMMA ReuseSecondOverReport ==
    ASSUME IInv, RInv, ReuseSecondOver
    PROVE  RInv'
<1>1. /\ UNCHANGED <<input, floor, log, scanner, plain>>
      /\ at = "second" /\ at' = "first" /\ scanner = "reuse" /\ first' = first + 1 /\ SecondsOver
      /\ inSecond' = SecondRange(first, inSecond)
      /\ work' = [work EXCEPT !.pairs = @ + Behind(inSecond', counted.pairs)]
  BY DEF ReuseSecondOver
<1>2. /\ first \in Nat /\ first \in P /\ counted.pairs \in Nat /\ floor \in Int /\ Ranked
      /\ \A m \in P : m \in Nat /\ m # 0
  BY <1>1, Stages DEF IInv
<1>3. /\ work'.pairs = work.pairs + Behind(inSecond', counted.pairs) /\ work'.thirds = work.thirds
      /\ work.pairs \in Nat
  BY <1>1, Works DEF IInv, TypeOK
<1>4. /\ inSecond \subseteq P /\ seconds \subseteq P
      /\ \A b \in P : PairScore(first, b) >= floor => b \in inSecond
      /\ seconds = {b \in inSecond : counted.pairs < b /\ ~Overlap(At(1, first), At(2, b))}
  BY <1>1, ReuseRanges
<1>5. inSecond' \subseteq P /\ \A b \in P : b \in inSecond' <=> PairScore(first, b) >= floor
  BY <1>1, <1>4 DEF SecondRange, PairScore
<1>6. \A m \in inSecond', n \in P : n <= m => n \in inSecond'
  <2> SUFFICES ASSUME NEW m \in inSecond', NEW n \in P, n <= m PROVE n \in inSecond'
    OBVIOUS
  <2>1. m \in P
    BY <1>5
  <2>2. /\ PairScore(first, m) \in Int /\ PairScore(first, n) \in Int
        /\ PairScore(first, m) <= PairScore(first, n) /\ PairScore(first, m) >= floor
    BY <1>2, <1>5, <2>1, PairScores
  <2> QED BY <1>2, <1>5, <2>2
<1>7. PICK hi \in Nat : BehindTo(inSecond', counted.pairs, hi)
  <2>1. PICK S : S = inSecond'
    OBVIOUS
  <2>2. PICK done \in Nat : done = counted.pairs
    BY <1>2
  <2>3. Initial(S)
    BY <1>5, <1>6, <2>1 DEF Initial
  <2>4. \E hi \in Nat : BehindTo(S, done, hi)
    BY <1>2, <2>3, BehindPositions
  <2> QED BY <2>1, <2>2, <2>4
<1>8. /\ \A a, b \in P : PassedPair(a, b) <=> a < first \/ (a = first /\ b <= counted.pairs)
      /\ \A a, b, c \in P : PassedThird(a, b, c) <=> a < first \/ (a = first /\ b <= counted.pairs)
  BY <1>1, ReusePassed
<1>9. /\ \A a, b \in P : PassedPair(a, b)' <=> a < first + 1
      /\ \A a, b, c \in P : PassedThird(a, b, c)' <=> a < first + 1
  BY <1>1 DEF PassedPair, PassedThird, Inside
<1>10. \A a \in P : a < first + 1 <=> a < first \/ a = first
  BY <1>2
<1>11. NewPairs(first, counted.pairs, hi)
  <2>1. \A a, b \in P : PassedPair(a, b)' /\ ~PassedPair(a, b) <=> a = first /\ ~(b <= counted.pairs)
    BY <1>2, <1>8, <1>9
  <2>2. work'.pairs = work.pairs + hi - counted.pairs
    BY <1>2, <1>3, <1>7 DEF BehindTo
  <2>3. \A a, b \in P : PassedPair(a, b) => PassedPair(a, b)'
    BY <1>8, <1>9, <1>10
  <2>4. \A a, b \in P :
           PassedPair(a, b)' /\ ~PassedPair(a, b) /\ PairScore(a, b) >= floor
             <=> a = first /\ b \in counted.pairs + 1 .. hi
    BY <1>5, <1>7, <2>1 DEF BehindTo
  <2> QED BY <1>2, <1>7, <2>2, <2>3, <2>4 DEF NewPairs, BehindTo
<1>12. \E u, v, lo, hi2 : NewThirds(u, v, lo, hi2)
  <2>1. \A a, b, c \in P : PassedThird(a, b, c) => PassedThird(a, b, c)'
    BY <1>8, <1>9, <1>10
  <2>2. ASSUME NEW a \in P, NEW b \in P, NEW c \in P, PassedThird(a, b, c)', ~PassedThird(a, b, c),
               ~Overlap(At(1, a), At(2, b)), Total(a, b, c) >= floor
        PROVE  FALSE
    <3>1. a = first /\ counted.pairs < b
      BY <1>2, <1>8, <1>9, <2>2
    <3>2. PairScore(first, b) >= floor
      BY <1>2, <2>2, <3>1, Kept
    <3>3. b \in seconds
      BY <1>4, <2>2, <3>1, <3>2
    <3>4. NextSecond \in seconds /\ NextSecond <= b
      BY <1>2, <1>4, <3>3, SmallestPosition DEF NextSecond
    <3>5. /\ PairScore(first, b) \in Int /\ PairScore(first, NextSecond) \in Int
          /\ PairScore(first, b) <= PairScore(first, NextSecond)
      BY <1>2, <1>4, <3>4, PairScores
    <3> QED BY <1>1, <1>2, <3>2, <3>4, <3>5 DEF SecondsOver, PairScore
  <2> QED BY <1>3, <2>1, <2>2, NoThirds
<1>13. SecondsLeft'
  BY <1>1 DEF SecondsLeft, Inside
<1> QED BY <1>1, <1>11, <1>12, <1>13, QuietStep

LEMMA ReuseSecondReport ==
    ASSUME IInv, RInv, ReuseSecond
    PROVE  RInv'
<1> DEFINE m == NextSecond
<1>1. /\ UNCHANGED <<input, floor, log, scanner, plain>> /\ inSecond' = inSecond
      /\ at = "second" /\ at' = "third" /\ scanner = "reuse" /\ scanner' = "reuse" /\ first' = first
      /\ ~SecondsOver /\ second' = m /\ seconds' = seconds \ {m}
      /\ counted' = [pairs |-> m, thirds |-> 0]
      /\ work' = [work EXCEPT !.pairs = @ + m - counted.pairs]
  BY DEF ReuseSecond
<1>2. /\ first \in Nat /\ first \in P /\ counted.pairs \in Nat /\ floor \in Int /\ Ranked
      /\ \A n \in P : n \in Nat /\ n # 0
  BY <1>1, Stages DEF IInv
<1>3. /\ work'.pairs = work.pairs + m - counted.pairs /\ work'.thirds = work.thirds
      /\ work.pairs \in Nat
  BY <1>1, Works DEF IInv, TypeOK
<1>4. /\ inSecond \subseteq P /\ seconds \subseteq P
      /\ \A b \in P : PairScore(first, b) >= floor => b \in inSecond
      /\ seconds = {b \in inSecond : counted.pairs < b /\ ~Overlap(At(1, first), At(2, b))}
  BY <1>1, ReuseRanges
<1>5. seconds # {} /\ ~(PairScore(first, m) < floor)
  BY <1>1 DEF SecondsOver, PairScore
<1>6. m \in seconds /\ \A b \in seconds : m <= b
  BY <1>2, <1>4, <1>5, SmallestPosition DEF NextSecond
<1> HIDE DEF m
<1>7. m \in P /\ m \in Nat /\ counted.pairs < m /\ PairScore(first, m) >= floor
  <2>1. m \in P /\ counted.pairs < m
    BY <1>4, <1>6
  <2>2. PairScore(first, m) \in Int
    BY <1>2, <2>1, PairScores
  <2> QED BY <1>2, <1>5, <2>1, <2>2
<1>8. /\ \A a, b \in P : PassedPair(a, b) <=> a < first \/ (a = first /\ b <= counted.pairs)
      /\ \A a, b, c \in P : PassedThird(a, b, c) <=> a < first \/ (a = first /\ b <= counted.pairs)
  BY <1>1, ReusePassed
<1>9. counted'.pairs = m /\ counted'.thirds = 0
  BY <1>1
<1>10. /\ \A a, b \in P : PassedPair(a, b)' <=> a < first \/ (a = first /\ b <= m)
       /\ \A a, b, c \in P : PassedThird(a, b, c)' <=> a < first \/ (a = first /\ b < m)
  <2>1. \A a, b \in P : PassedPair(a, b)' <=> a < first \/ (a = first /\ b <= m)
    BY <1>1, <1>9 DEF PassedPair, Inside, PairsTo
  <2>2. \A a, b, c \in P : PassedThird(a, b, c)' <=>
           a < first \/ (a = first /\ (b < m \/ (b = m /\ c <= 0)))
    BY <1>1, <1>9 DEF PassedThird, ThirdsTo
  <2> QED BY <1>2, <2>1, <2>2
<1>11. NewPairs(first, counted.pairs, m)
  <2>1. \A a, b \in P : PassedPair(a, b)' /\ ~PassedPair(a, b)
           <=> a = first /\ b \in counted.pairs + 1 .. m
    BY <1>2, <1>7, <1>8, <1>10
  <2>2. \A a, b \in P : PassedPair(a, b) => PassedPair(a, b)'
    BY <1>2, <1>7, <1>8, <1>10
  <2>3. \A b \in counted.pairs + 1 .. m : b \in P
    <3>1. \A b \in counted.pairs + 1 .. m : b \in Nat /\ b # 0 /\ b <= m
      BY <1>2, <1>7
    <3> QED BY <1>2, <1>7, <3>1, PositionNumbers
  <2>4. \A b \in P : b <= m => PairScore(first, b) >= floor
    <3> SUFFICES ASSUME NEW b \in P, b <= m PROVE PairScore(first, b) >= floor
      OBVIOUS
    <3>1. /\ PairScore(first, m) \in Int /\ PairScore(first, b) \in Int
          /\ PairScore(first, m) <= PairScore(first, b)
      BY <1>2, <1>7, PairScores
    <3> QED BY <1>2, <1>7, <3>1
  <2>5. \A b \in counted.pairs + 1 .. m : b <= m
    BY <1>2, <1>7
  <2>6. work'.pairs = work.pairs + m - counted.pairs
    BY <1>3
  <2>7. counted.pairs <= m
    BY <1>2, <1>7
  <2> QED BY <1>2, <1>7, <2>1, <2>2, <2>3, <2>4, <2>5, <2>6, <2>7 DEF NewPairs
<1>12. \E u, v, lo, hi : NewThirds(u, v, lo, hi)
  <2>1. \A a, b, c \in P : PassedThird(a, b, c) => PassedThird(a, b, c)'
    BY <1>2, <1>7, <1>8, <1>10
  <2>2. ASSUME NEW a \in P, NEW b \in P, NEW c \in P, PassedThird(a, b, c)', ~PassedThird(a, b, c),
               ~Overlap(At(1, a), At(2, b)), Total(a, b, c) >= floor
        PROVE  FALSE
    <3>1. a = first /\ counted.pairs < b /\ b < m
      BY <1>2, <1>8, <1>10, <2>2
    <3>2. PairScore(first, b) >= floor
      BY <1>2, <2>2, <3>1, Kept
    <3>3. b \in seconds
      BY <1>4, <2>2, <3>1, <3>2
    <3>4. m <= b
      BY <1>6, <3>3
    <3> QED BY <1>2, <1>7, <3>1, <3>4
  <2> QED BY <1>3, <2>1, <2>2, NoThirds
<1>13. SecondsLeft'
  <2>1. \A b : Overlap(At(1, first), At(2, b))' = Overlap(At(1, first), At(2, b))
    BY <1>1 DEF Overlap, At, input
  <2>2. \A b \in inSecond : b \in Nat
    BY <1>2, <1>4
  <2>3. \A b \in inSecond : b \in seconds \ {m} <=> m < b /\ ~Overlap(At(1, first), At(2, b))
    BY <1>2, <1>4, <1>6, <1>7, <2>2
  <2>4. seconds \ {m} = {b \in inSecond : m < b /\ ~Overlap(At(1, first), At(2, b))}
    BY <1>4, <2>3
  <2> QED BY <1>1, <1>9, <2>1, <2>4 DEF SecondsLeft
<1> QED BY <1>1, <1>11, <1>12, <1>13, QuietStep

LEMMA LeaveThirdReport ==
    ASSUME IInv, RInv, scanner = "reuse", at \in {"third", "batch"}, at' = "second",
           work' = [work EXCEPT !.thirds = @ + Behind(inThird, counted.thirds)],
           UNCHANGED <<input, scanner, first, second, seconds, inSecond, inThird,
                       counted, floor, log, plain>>
    PROVE  RInv'
<1>1. /\ UNCHANGED <<input, floor, log, scanner, plain>>
      /\ first' = first /\ counted' = counted /\ seconds' = seconds /\ inSecond' = inSecond
  OBVIOUS
<1>2. /\ first \in Nat /\ first \in P /\ second \in Nat /\ second \in P /\ counted.thirds \in Nat
      /\ floor \in Int /\ Ranked /\ \A m \in P : m \in Nat /\ m # 0
  BY Stages DEF IInv
<1>3. /\ work'.thirds = work.thirds + Behind(inThird, counted.thirds)
      /\ work'.pairs = work.pairs /\ work.thirds \in Nat
  BY Works DEF IInv, TypeOK
<1>4. /\ inThird \subseteq P
      /\ \A c \in P : Total(first, second, c) >= floor <=> c \in inThird
  BY ReuseRanges
<1>5. Initial(inThird)
  <2> SUFFICES ASSUME NEW m \in inThird, NEW n \in P, n <= m PROVE n \in inThird
    BY <1>4 DEF Initial
  <2>1. m \in P /\ Total(first, second, m) >= floor
    BY <1>4
  <2>2. /\ Total(first, second, m) \in Int /\ Total(first, second, n) \in Int
        /\ Total(first, second, m) <= Total(first, second, n)
    BY <1>2, <2>1, PairScores
  <2> QED BY <1>2, <1>4, <2>1, <2>2
<1>6. PICK hi \in Nat : BehindTo(inThird, counted.thirds, hi)
  <2>1. PICK done \in Nat : done = counted.thirds
    BY <1>2
  <2>2. \E hi \in Nat : BehindTo(inThird, done, hi)
    BY <1>2, <1>5, BehindPositions
  <2> QED BY <2>1, <2>2
<1>7. /\ counted.pairs = second
      /\ \A a, b \in P : PassedPair(a, b) <=> a < first \/ (a = first /\ b <= second)
      /\ \A a, b, c \in P : PassedThird(a, b, c) <=>
            \/ a < first
            \/ a = first /\ (b < second \/ (b = second /\ c <= counted.thirds))
  BY ReusePassed
<1>8. /\ \A a, b \in P : PassedPair(a, b)' <=> a < first \/ (a = first /\ b <= second)
      /\ \A a, b, c \in P : PassedThird(a, b, c)' <=> a < first \/ (a = first /\ b <= second)
  BY <1>7 DEF PassedPair, PassedThird, Inside, PairsTo
<1>9. \E u, lo, hi2 : NewPairs(u, lo, hi2)
  BY <1>3, <1>7, <1>8, NoPairs
<1>10. NewThirds(first, second, counted.thirds, hi)
  <2>1. \A a, b, c \in P : PassedThird(a, b, c)' /\ ~PassedThird(a, b, c)
           <=> a = first /\ b = second /\ ~(c <= counted.thirds)
    BY <1>2, <1>7, <1>8
  <2>2. \A a, b, c \in P : PassedThird(a, b, c) => PassedThird(a, b, c)'
    BY <1>2, <1>7, <1>8
  <2>3. work'.thirds = work.thirds + hi - counted.thirds
    BY <1>2, <1>3, <1>6 DEF BehindTo
  <2>4. ~Overlap(At(1, first), At(2, second))
    BY DEF IInv, Places
  <2>5. \A a, b, c \in P :
           PassedThird(a, b, c)' /\ ~PassedThird(a, b, c)
             /\ ~Overlap(At(1, a), At(2, b)) /\ Total(a, b, c) >= floor
             <=> a = first /\ b = second /\ c \in counted.thirds + 1 .. hi
    BY <1>4, <1>6, <2>1, <2>4 DEF BehindTo
  <2> QED BY <1>2, <1>6, <2>2, <2>3, <2>5 DEF NewThirds, BehindTo
<1>11. SecondsLeft'
  <2>1. seconds = {b \in inSecond : counted.pairs < b /\ ~Overlap(At(1, first), At(2, b))}
    BY ReuseRanges
  <2>2. \A b : Overlap(At(1, first), At(2, b))' = Overlap(At(1, first), At(2, b))
    BY <1>1 DEF Overlap, At, input
  <2> QED BY <1>1, <2>1, <2>2 DEF SecondsLeft
<1> QED BY <1>1, <1>9, <1>10, <1>11, QuietStep

LEMMA ReuseThirdOverReport ==
    ASSUME IInv, RInv, ReuseThirdOver
    PROVE  RInv'
<1>1. /\ scanner = "reuse" /\ at = "third" /\ at' = "second"
      /\ work' = [work EXCEPT !.thirds = @ + Behind(inThird, counted.thirds)]
      /\ UNCHANGED <<input, scanner, loops, floor, log, plain>>
  BY DEF ReuseThirdOver
<1>2. UNCHANGED <<input, scanner, first, second, seconds, inSecond, inThird,
                  counted, floor, log, plain>>
  BY <1>1 DEF loops
<1> QED BY <1>1, <1>2, LeaveThirdReport

LEMMA ReuseBatchBelowReport ==
    ASSUME IInv, RInv, ReuseBatchBelow
    PROVE  RInv'
BY LeaveThirdReport DEF ReuseBatchBelow

(* Between two comparisons nothing is counted.                             *)
LEMMA CompareReport ==
    ASSUME IInv, RInv, scanner = "reuse", at \in {"third", "batch"}, at' \in {"third", "batch"},
           UNCHANGED <<input, scanner, first, second, seconds, inSecond, counted, report, plain>>
    PROVE  RInv'
<1>1. /\ UNCHANGED <<input, floor, log, scanner, plain>> /\ work' = work
      /\ first' = first /\ second' = second /\ counted' = counted
      /\ seconds' = seconds /\ inSecond' = inSecond
  BY DEF report
<1>2. /\ \A a, b \in P : PassedPair(a, b)' <=> PassedPair(a, b)
      /\ \A a, b, c \in P : PassedThird(a, b, c)' <=> PassedThird(a, b, c)
  BY <1>1 DEF PassedPair, PassedThird, Inside, PairsTo, ThirdsTo
<1>3. SecondsLeft'
  <2>1. seconds = {b \in inSecond : counted.pairs < b /\ ~Overlap(At(1, first), At(2, b))}
    BY ReuseRanges
  <2>2. \A b : Overlap(At(1, first), At(2, b))' = Overlap(At(1, first), At(2, b))
    BY <1>1 DEF Overlap, At, input
  <2> QED BY <1>1, <2>1, <2>2 DEF SecondsLeft
<1>4. (\E u, lo, hi : NewPairs(u, lo, hi)) /\ (\E u, v, lo, hi : NewThirds(u, v, lo, hi))
  BY <1>1, <1>2, NoPairs, NoThirds
<1> QED BY <1>1, <1>3, <1>4, QuietStep

LEMMA ReuseCompareReport ==
    ASSUME IInv, RInv, ReuseCompare
    PROVE  RInv'
BY CompareReport DEF ReuseCompare

LEMMA ReuseBatchOverReport ==
    ASSUME IInv, RInv, ReuseBatchOver
    PROVE  RInv'
BY CompareReport DEF ReuseBatchOver, loops

-----------------------------------------------------------------------------
(* A plan is handed over                                                   *)

(* What the report is afterwards.                                          *)
Handed(lg, p, ans) ==
    /\ Len(log) \in Nat /\ DOMAIN log = 1 .. Len(log)
    /\ Len(lg) = Len(log) + 1 /\ DOMAIN lg = 1 .. Len(log) + 1
    /\ \A m \in 1 .. Len(log) : lg[m] = log[m]
    /\ lg[Len(log) + 1] = [plan |-> p, answer |-> ans]

LEMMA HandedOver ==
    ASSUME IInv, NEW c, NEW ans, Visit(c, ans), NEW lg, lg = log'
    PROVE  Handed(lg, Plan(first, second, c), ans)
<1> DEFINE entry == [plan |-> Plan(first, second, c), answer |-> ans]
           Entry == [plan : Plans, answer : Answer]
<1>1. lg = Append(log, entry)
  BY DEF Visit
<1>2. log \in Seq(Entry)
  BY DEF IInv, TypeOK
<1> HIDE DEF Entry
<1>3. Len(log) \in Nat /\ DOMAIN log = 1 .. Len(log)
  BY <1>2
<1> HIDE DEF entry
<1>4. /\ Len(lg) = Len(log) + 1 /\ DOMAIN lg = 1 .. Len(log) + 1
      /\ \A m \in 1 .. Len(log) : lg[m] = log[m]
      /\ lg[Len(log) + 1] = entry
  BY <1>1, <1>2
<1> QED BY <1>3, <1>4 DEF Handed, entry

(* The answer counts from now on, not for what the loops came to before.   *)
LEMMA AboveHanded ==
    ASSUME NEW lg, NEW p, NEW ans, Handed(lg, p, ans), NEW x
    PROVE  /\ Above(x, lg, 1 .. Len(log)) <=> Above(x, log, DOMAIN log)
           /\ Above(x, lg, DOMAIN lg) <=>
                Above(x, log, DOMAIN log) /\ (~ans.stop => x >= ans.floor)
<1>1. /\ Len(log) \in Nat /\ DOMAIN log = 1 .. Len(log) /\ DOMAIN lg = 1 .. Len(log) + 1
      /\ \A m \in 1 .. Len(log) : lg[m] = log[m]
      /\ lg[Len(log) + 1].answer = ans
  BY DEF Handed
<1>2. \A n : n \in 1 .. Len(log) + 1 <=> n \in 1 .. Len(log) \/ n = Len(log) + 1
  BY <1>1
<1> QED BY <1>1, <1>2 DEF Above

LEMMA UntilHanded ==
    ASSUME Ranked, NEW lg, NEW i \in P, NEW j \in P, NEW k \in P, NEW ans,
           Handed(lg, Plan(i, j, k), ans),
           NEW a, NEW b, NEW c, ~Earlier(i, j, k, a, b, c), NEW x
    PROVE  Above(x, lg, Until(lg, a, b, c)) <=> Above(x, log, Until(log, a, b, c))
<1>1. /\ Len(log) \in Nat /\ DOMAIN log = 1 .. Len(log) /\ DOMAIN lg = 1 .. Len(log) + 1
      /\ \A m \in 1 .. Len(log) : lg[m] = log[m]
      /\ lg[Len(log) + 1].plan = Plan(i, j, k)
  BY DEF Handed
<1>2. \A n : n \in 1 .. Len(log) + 1 <=> n \in 1 .. Len(log) \/ n = Len(log) + 1
  BY <1>1
<1>3. ASSUME NEW u \in P, NEW v \in P, NEW w \in P, Plan(i, j, k) = Plan(u, v, w)
      PROVE  ~Earlier(u, v, w, a, b, c)
  BY <1>3, PlanUnique
<1>4. Len(log) + 1 \notin Until(lg, a, b, c)
  BY <1>1, <1>3 DEF Until
<1>5. Until(lg, a, b, c) = Until(log, a, b, c)
  BY <1>1, <1>2, <1>4 DEF Until
<1>6. \A n \in Until(log, a, b, c) : lg[n] = log[n]
  BY <1>1 DEF Until
<1> QED BY <1>5, <1>6 DEF Above

(* The beginning of a report is in order, and stays so.                    *)
LEMMA OrderHanded ==
    ASSUME NEW lg, NEW p, NEW ans, Handed(lg, p, ans), InOrder(log)
    PROVE  \A n \in DOMAIN log :
              /\ NextWanted(lg, n)
              /\ \A m \in 1 .. n - 1 : lg[m].plan # lg[n].plan
              /\ problem.goal = "maximum" =>
                    lg[n].answer = [stop |-> FALSE, floor |-> Value(lg[n].plan) + 1]
<1> SUFFICES ASSUME NEW n \in DOMAIN log
             PROVE  /\ NextWanted(lg, n)
                    /\ \A m \in 1 .. n - 1 : lg[m].plan # lg[n].plan
                    /\ problem.goal = "maximum" =>
                          lg[n].answer = [stop |-> FALSE, floor |-> Value(lg[n].plan) + 1]
  OBVIOUS
<1>1. /\ lg[n] = log[n] /\ \A m \in 1 .. n - 1 : lg[m] = log[m]
  BY DEF Handed
<1>2. \A x : Above(x, lg, 1 .. n - 1) <=> Above(x, log, 1 .. n - 1)
  BY <1>1 DEF Above
<1>3. NextWanted(lg, n)
  <2>1. PICK a \in P, b \in P, c \in P :
          /\ log[n].plan = Plan(a, b, c)
          /\ Apart(a, b, c) /\ Above(Total(a, b, c), log, 1 .. n - 1)
          /\ \A i, j, k \in P :
                /\ Apart(i, j, k) /\ Above(Total(i, j, k), log, 1 .. n - 1)
                /\ Earlier(i, j, k, a, b, c)
                => \E m \in 1 .. n - 1 : log[m].plan = Plan(i, j, k)
    BY DEF InOrder, NextWanted
  <2>2. lg[n].plan = Plan(a, b, c) /\ Above(Total(a, b, c), lg, 1 .. n - 1)
    BY <1>1, <1>2, <2>1
  <2>3. \A i, j, k \in P :
           /\ Apart(i, j, k) /\ Above(Total(i, j, k), lg, 1 .. n - 1)
           /\ Earlier(i, j, k, a, b, c)
           => \E m \in 1 .. n - 1 : lg[m].plan = Plan(i, j, k)
    <3> SUFFICES ASSUME NEW i \in P, NEW j \in P, NEW k \in P,
                        Apart(i, j, k), Above(Total(i, j, k), lg, 1 .. n - 1),
                        Earlier(i, j, k, a, b, c)
                 PROVE  \E m \in 1 .. n - 1 : lg[m].plan = Plan(i, j, k)
      OBVIOUS
    <3>1. Above(Total(i, j, k), log, 1 .. n - 1)
      BY <1>2
    <3>2. PICK m \in 1 .. n - 1 : log[m].plan = Plan(i, j, k)
      BY <2>1, <3>1
    <3> QED BY <1>1, <3>2
  <2> QED BY <2>1, <2>2, <2>3 DEF NextWanted
<1> QED BY <1>1, <1>3 DEF InOrder

(* The scanners come to the first of the wanted plans that are to come.    *)
FirstToCome(c) ==
    \A i, j, k \in P : ToCome(i, j, k) => ~Earlier(i, j, k, first, second, c)

LEMMA ReportInOrder ==
    ASSUME IInv, RInv, at \notin {"stopped", "finished"}, NEW c \in P,
           NEW ans \in Answers(Total(first, second, c)), first \in P, second \in P,
           Wanted(first, second, c), ToCome(first, second, c), FirstToCome(c),
           NEW lg, Handed(lg, Plan(first, second, c), ans)
    PROVE  InOrder(lg)
<1> DEFINE N == Len(log) + 1
           now == Plan(first, second, c)
<1>1. /\ Len(log) \in Nat /\ DOMAIN log = 1 .. Len(log) /\ DOMAIN lg = 1 .. N
      /\ \A m \in 1 .. Len(log) : lg[m] = log[m]
      /\ lg[N].plan = now /\ lg[N].answer = ans
  BY DEF Handed
<1>2. N \in Nat /\ N - 1 = Len(log) /\ \A n : n \in 1 .. N <=> n \in DOMAIN log \/ n = N
  BY <1>1
<1>3. Ranked /\ InOrder(log) /\ \A x \in Int : x >= floor <=> Above(x, log, DOMAIN log)
  BY DEF IInv, RInv, FloorAnswered
<1>4. \A i, j, k \in P : Above(Total(i, j, k), lg, 1 .. N - 1) <=> Total(i, j, k) >= floor
  <2> SUFFICES ASSUME NEW i \in P, NEW j \in P, NEW k \in P
               PROVE  Above(Total(i, j, k), lg, 1 .. N - 1) <=> Total(i, j, k) >= floor
    OBVIOUS
  <2>1. Total(i, j, k) \in Int
    BY <1>3, PairScores
  <2>2. Above(Total(i, j, k), lg, 1 .. Len(log)) <=> Above(Total(i, j, k), log, DOMAIN log)
    BY AboveHanded
  <2> QED BY <1>2, <1>3, <2>1, <2>2
<1> HIDE DEF N
<1>5. \A i, j, k \in P : Wanted(i, j, k) /\ Earlier(i, j, k, first, second, c) =>
         \E m \in 1 .. N - 1 : lg[m].plan = Plan(i, j, k)
  <2> SUFFICES ASSUME NEW i \in P, NEW j \in P, NEW k \in P, Wanted(i, j, k),
                      Earlier(i, j, k, first, second, c)
               PROVE  \E m \in 1 .. N - 1 : lg[m].plan = Plan(i, j, k)
    OBVIOUS
  <2>1. Visited(Plan(i, j, k))
    BY DEF IInv, NoneLost, FirstToCome
  <2> QED BY <1>1, <1>2, <2>1 DEF Visited
<1>6. NextWanted(lg, N)
  <2>1. Apart(first, second, c) /\ Above(Total(first, second, c), lg, 1 .. N - 1)
    BY <1>4 DEF Wanted
  <2>2. \A i, j, k \in P :
           /\ Apart(i, j, k) /\ Above(Total(i, j, k), lg, 1 .. N - 1)
           /\ Earlier(i, j, k, first, second, c)
           => \E m \in 1 .. N - 1 : lg[m].plan = Plan(i, j, k)
    BY <1>4, <1>5 DEF Wanted
  <2> QED BY <1>1, <2>1, <2>2 DEF NextWanted
<1>7. \A m \in 1 .. N - 1 : lg[m].plan # lg[N].plan
  <2>1. ~Visited(now)
    BY DEF IInv, NoneTwice
  <2> QED BY <1>1, <1>2, <2>1 DEF Visited
<1>8. problem.goal = "maximum" => lg[N].answer = [stop |-> FALSE, floor |-> Value(lg[N].plan) + 1]
  <2>1. Value(now) = Total(first, second, c) /\ Total(first, second, c) \in Int
    BY <1>3, PlanValue
  <2> QED BY <1>1, <2>1, AnswersType
<1>9. \A n \in DOMAIN log :
         /\ NextWanted(lg, n)
         /\ \A m \in 1 .. n - 1 : lg[m].plan # lg[n].plan
         /\ problem.goal = "maximum" =>
               lg[n].answer = [stop |-> FALSE, floor |-> Value(lg[n].plan) + 1]
  BY <1>3, OrderHanded
<1> QED BY <1>1, <1>2, <1>6, <1>7, <1>8, <1>9 DEF InOrder

(* The floor is raised to what the answer says.                            *)
LEMMA RaisedFloor ==
    ASSUME IInv, RInv, NEW c \in P, NEW ans \in Answer, Visit(c, ans),
           NEW lg, Handed(lg, Plan(first, second, c), ans)
    PROVE  \A x \in Int : x >= floor' <=> Above(x, lg, DOMAIN lg)
<1>1. floor \in Int /\ ans.floor \in Int /\ ans.stop \in BOOLEAN
  BY DEF IInv, TypeOK, Answer
<1>2. floor' = IF ~ans.stop /\ ans.floor > floor THEN ans.floor ELSE floor
  BY DEF Visit, Raised
<1>3. \A x \in Int : x >= floor' <=> x >= floor /\ (~ans.stop => x >= ans.floor)
  BY <1>1, <1>2
<1>4. \A x \in Int : x >= floor <=> Above(x, log, DOMAIN log)
  BY DEF RInv, FloorAnswered
<1> QED BY <1>3, <1>4, AboveHanded

(* The reuse scanner hands over what the plain one handed over next.       *)
LEMMA RepeatsHanded ==
    ASSUME IInv, RInv, scanner = "reuse", at \notin {"stopped", "finished"}, NEW c \in P,
           NEW ans \in Answers(Total(first, second, c)), first \in P, second \in P,
           Wanted(first, second, c), ToCome(first, second, c),
           NEW lg, Handed(lg, Plan(first, second, c), ans), InOrder(lg)
    PROVE  /\ Len(lg) <= Len(plain.log)
           /\ \A n \in DOMAIN lg : lg[n] = plain.log[n]
<1> DEFINE N == Len(log) + 1
<1>1. PICK said : said = plain.log
  OBVIOUS
<1>2. /\ Len(log) \in Nat /\ DOMAIN log = 1 .. Len(log) /\ Len(lg) = N /\ DOMAIN lg = 1 .. N
      /\ \A m \in 1 .. Len(log) : lg[m] = log[m]
      /\ lg[N] = [plan |-> Plan(first, second, c), answer |-> ans]
  BY DEF Handed
<1>3. /\ Ranked /\ InOrder(said) /\ Ended(said, plain.at) /\ plain.at \in {"finished", "stopped"}
      /\ Len(log) <= Len(said) /\ \A n \in DOMAIN log : log[n] = said[n]
  BY <1>1 DEF IInv, RInv, Repeated, PlainEnd, Repeats
<1>4. /\ Len(said) \in Nat /\ DOMAIN said = 1 .. Len(said)
      /\ \A n \in DOMAIN said : said[n] = [plan |-> said[n].plan, answer |-> said[n].answer]
  BY <1>1, Entries
<1>5. Len(log) # Len(said)
  <2> SUFFICES ASSUME Len(log) = Len(said) PROVE FALSE
    OBVIOUS
  <2>1. DOMAIN said = DOMAIN log
    BY <1>2, <1>4
  <2>2. CASE plain.at = "stopped"
    <3>1. said # <<>> /\ said[Len(said)].answer.stop
      BY <1>3, <2>2 DEF Ended
    <3>2. Len(said) \in DOMAIN said
      <4>1. Len(said) # 0
        BY <1>1, <3>1, Entries DEF IInv, TypeOK
      <4> QED BY <1>4, <4>1
    <3>3. log[Len(said)].answer.stop
      BY <1>3, <2>1, <3>1, <3>2
    <3> QED BY <2>1, <3>2, <3>3 DEF RInv, Stops
  <2>3. CASE plain.at = "finished"
    <3>1. Above(Total(first, second, c), log, DOMAIN log)
      <4>1. Total(first, second, c) \in Int /\ Total(first, second, c) >= floor
        BY <1>3, PairScores DEF Wanted
      <4> QED BY <4>1 DEF RInv, FloorAnswered
    <3>2. Above(Total(first, second, c), said, DOMAIN said)
      BY <1>3, <2>1, <3>1 DEF Above
    <3>3. \E n \in DOMAIN said : said[n].plan = Plan(first, second, c)
      BY <1>3, <2>3, <3>2 DEF Ended, Exhausted, Wanted
    <3>4. Visited(Plan(first, second, c))
      BY <1>3, <2>1, <3>3 DEF Visited
    <3> QED BY <3>4 DEF IInv, NoneTwice
  <2> QED BY <1>3, <2>2, <2>3
<1>6. N \in Nat /\ N \in DOMAIN said /\ N \in DOMAIN lg /\ N - 1 = Len(log) /\ N <= Len(said)
  <2>1. N \in Nat /\ N - 1 = Len(log) /\ N \in 1 .. N
    BY <1>2
  <2>2. N <= Len(said)
    <3>1. /\ Len(log) \in Nat /\ Len(said) \in Nat
          /\ Len(log) <= Len(said) /\ Len(log) # Len(said)
      BY <1>2, <1>3, <1>4, <1>5
    <3> QED BY <3>1
  <2>3. N \in 1 .. Len(said)
    BY <1>4, <2>1, <2>2
  <2> QED BY <1>2, <1>4, <2>1, <2>2, <2>3
<1> HIDE DEF N
<1>7. lg[N].plan = said[N].plan
  <2>1. \A m \in 1 .. N - 1 : lg[m] = said[m]
    BY <1>2, <1>3, <1>6
  <2>2. NextWanted(lg, N) /\ \A m \in 1 .. N - 1 : lg[m].plan # lg[N].plan
    BY <1>6 DEF InOrder
  <2>3. NextWanted(said, N) /\ \A m \in 1 .. N - 1 : said[m].plan # said[N].plan
    BY <1>3, <1>6 DEF InOrder
  <2> QED BY <1>3, <1>6, <2>1, <2>2, <2>3, SameNext
<1>8. lg[N].answer = said[N].answer
  <2>1. CASE problem.goal = "maximum"
    BY <1>3, <1>6, <1>7, <2>1 DEF InOrder
  <2>2. CASE problem.goal # "maximum"
    <3>1. Len(log) < Len(plain.log)
      BY <1>1, <1>2, <1>3, <1>4, <1>5
    <3>2. ans = said[Len(log) + 1].answer
      BY <1>1, <2>2, <3>1 DEF Answers
    <3> QED BY <1>2, <3>2 DEF N
  <2> QED BY <2>1, <2>2
<1>9. lg[N] = said[N]
  <2>1. lg[N] = [plan |-> lg[N].plan, answer |-> lg[N].answer]
    BY <1>2
  <2>2. said[N] = [plan |-> said[N].plan, answer |-> said[N].answer]
    BY <1>4, <1>6
  <2> QED BY <1>7, <1>8, <2>1, <2>2
<1>10. ASSUME NEW n \in DOMAIN lg PROVE lg[n] = said[n]
  <2>1. n \in 1 .. Len(log) \/ n = N
    BY <1>2 DEF N
  <2> QED BY <1>2, <1>3, <1>9, <2>1
<1> QED BY <1>1, <1>2, <1>6, <1>10

(* Where the loops go on after the plan, if they do.                       *)
VisitPassed(c) ==
    /\ \A a, b, k \in P : PassedThird(a, b, k) => PassedThird(a, b, k)'
    /\ \A a, b, k \in P : a = first /\ b = second /\ k = c => PassedThird(a, b, k)'

VisitCounted(c) ==
    /\ \E u, lo, hi : NewPairs(u, lo, hi)
    /\ \E u, v, lo, hi : NewThirds(u, v, lo, hi)
    /\ \A a, b \in P : PassedPair(a, b)' => ~Earlier(first, second, c, a, b, 1)
    /\ \A a, b, k \in P : PassedThird(a, b, k)' => ~Earlier(first, second, c, a, b, k)

LEMMA VisitReport ==
    ASSUME IInv, RInv, UNCHANGED <<input, scanner, plain>>, at \notin {"stopped", "finished"},
           NEW c \in P, NEW ans \in Answers(Total(first, second, c)), Visit(c, ans),
           first \in P, second \in P,
           Wanted(first, second, c), ToCome(first, second, c), FirstToCome(c),
           at' = "stopped" <=> ans.stop, SecondsLeft',
           at' # "stopped" => VisitPassed(c),
           problem.goal = "band" /\ at' # "stopped" => VisitCounted(c)
    PROVE  RInv'
<1>1. PICK lg : lg = log'
  OBVIOUS
<1>2. Handed(lg, Plan(first, second, c), ans)
  BY <1>1, HandedOver
<1>3. UNCHANGED input /\ scanner' = scanner /\ plain' = plain /\ problem' = problem /\ Ranked
  BY DEF input, IInv
<1>4. Total(first, second, c) \in Int /\ ans \in Answer
  <2>1. Total(first, second, c) \in Int
    BY <1>3, PairScores
  <2> QED BY <2>1, AnswersType
<1>5. InOrder(lg)
  BY <1>2, ReportInOrder
<1>6. InOrder(log)'
  <2>1. InOrder(lg)'
    BY <1>3, <1>5, RigidReport
  <2> QED BY <1>1, <2>1
<1>7. FloorAnswered'
  <2>1. \A x \in Int : x >= floor' <=> Above(x, lg, DOMAIN lg)
    BY <1>2, <1>4, RaisedFloor
  <2> QED BY <1>1, <1>3, <2>1 DEF FloorAnswered, Above
<1>8. Stops'
  <2>1. /\ Len(log) \in Nat /\ DOMAIN log = 1 .. Len(log)
        /\ Len(lg) = Len(log) + 1 /\ DOMAIN lg = 1 .. Len(log) + 1
        /\ \A m \in 1 .. Len(log) : lg[m] = log[m]
        /\ lg[Len(log) + 1].answer = ans
    BY <1>2 DEF Handed
  <2>2. \A n \in DOMAIN log : ~log[n].answer.stop
    BY DEF RInv, Stops
  <2>3. ASSUME NEW n \in DOMAIN lg, lg[n].answer.stop PROVE at' = "stopped" /\ n = Len(lg)
    <3>1. n \in 1 .. Len(log) \/ n = Len(log) + 1
      BY <2>1
    <3> QED BY <2>1, <2>2, <2>3, <3>1
  <2>4. at' = "stopped" => lg # <<>> /\ lg[Len(lg)].answer.stop
    <3>1. Len(lg) \in DOMAIN lg
      BY <2>1
    <3>2. lg # <<>>
      BY <3>1
    <3> QED BY <2>1, <3>2
  <2> QED BY <1>1, <2>3, <2>4 DEF Stops
<1>9. LogPassed'
  <2> SUFFICES ASSUME at' # "stopped", NEW i \in P, NEW j \in P, NEW k \in P, Visited(Plan(i, j, k))'
               PROVE  PassedThird(i, j, k)'
    BY <1>3, Rigid DEF LogPassed
  <2>1. Plan(i, j, k)' = Plan(i, j, k)
    BY <1>3, Rigid
  <2>2. PICK p : p = Plan(i, j, k)
    OBVIOUS
  <2>3. Visited(p)'
    BY <2>1, <2>2
  <2>4. Visited(p) \/ p = Plan(first, second, c)
    BY <1>3, <1>4, <2>3, Logged
  <2>5. CASE Visited(p)
    <3>1. PassedThird(i, j, k)
      BY <2>2, <2>5 DEF RInv, LogPassed
    <3> QED BY <3>1 DEF VisitPassed
  <2>6. CASE p = Plan(first, second, c)
    <3>1. i = first /\ j = second /\ k = c
      <4>1. Plan(i, j, k) = Plan(first, second, c)
        BY <2>2, <2>6
      <4> QED BY <1>3, <4>1, PlanUnique
    <3> QED BY <3>1 DEF VisitPassed
  <2> QED BY <2>4, <2>5, <2>6
<1>10. Repeated'
  <2> SUFFICES ASSUME scanner = "reuse" PROVE PlainEnd' /\ Repeats'
    BY <1>3 DEF Repeated
  <2>1. Len(lg) <= Len(plain.log) /\ \A n \in DOMAIN lg : lg[n] = plain.log[n]
    BY <1>2, <1>5, RepeatsHanded
  <2>2. Repeats'
    BY <1>1, <1>3, <2>1 DEF Repeats
  <2>3. PlainEnd
    BY DEF RInv, Repeated
  <2> QED BY <1>3, <2>2, <2>3, SamePlain
<1>11. WorkCounted'
  <2>1. CASE problem.goal = "band" /\ at' # "stopped"
    <3>1. VisitCounted(c)
      BY <2>1
    <3>2. 1 \in P
      BY <1>3, Tops
    <3>3. ASSUME NEW a \in P, NEW b \in P, PassedPair(a, b)', NEW x
          PROVE  Above(x, lg, Until(lg, a, b, 1)) <=> Above(x, log, Until(log, a, b, 1))
      BY <1>2, <1>3, <3>1, <3>3, UntilHanded DEF VisitCounted
    <3>4. ASSUME NEW a \in P, NEW b \in P, NEW k \in P, PassedThird(a, b, k)', NEW x
          PROVE  Above(x, lg, Until(lg, a, b, k)) <=> Above(x, log, Until(log, a, b, k))
      BY <1>2, <1>3, <3>1, <3>4, UntilHanded DEF VisitCounted
    <3>5. Settled(lg)
      BY <3>3, <3>4 DEF Settled
    <3>6. Settled(log')
      BY <1>1, <3>5
    <3> QED BY <1>3, <3>1, <3>6, CountedStep DEF VisitCounted
  <2>2. CASE ~(problem.goal = "band" /\ at' # "stopped")
    BY <1>3, <2>2 DEF WorkCounted
  <2> QED BY <2>1, <2>2
<1> QED BY <1>6, <1>7, <1>8, <1>9, <1>10, <1>11 DEF RInv

LEMMA PlainVisitReport ==
    ASSUME IInv, RInv, PlainVisit
    PROVE  RInv'
<1>1. /\ UNCHANGED <<input, scanner, plain>> /\ at = "third" /\ scanner = "plain"
      /\ scanner' = "plain" /\ first' = first
      /\ work' = [work EXCEPT !.thirds = @ + 1] /\ Ranked
  BY DEF IInv, PlainVisit
<1>2. /\ third \in P /\ first \in P /\ second \in P
      /\ first \in Nat /\ second \in Nat /\ third \in Nat /\ floor \in Int
      /\ \A m \in P : m \in Nat /\ m # 0
  BY <1>1, Stages DEF PlainVisit, ThirdOver, Songs
<1>3. Total(first, second, third) >= floor /\ Total(first, second, third) \in Int
  BY <1>1, <1>2, PlanValue DEF PlainVisit, ThirdOver
<1>4. PICK ans \in Answers(Total(first, second, third)) :
         /\ Visit(third, ans)
         /\ at' = IF ans.stop THEN "stopped"
                  ELSE IF problem.goal = "maximum" THEN "second" ELSE "third"
         /\ IF ~ans.stop /\ problem.goal = "maximum"
              THEN second' = second + 1 /\ third' = third
              ELSE second' = second /\ third' = third + 1
  BY DEF PlainVisit
<1>5. at' = "stopped" <=> ans.stop
  BY <1>4
<1>6. Wanted(first, second, third) /\ ToCome(first, second, third)
  BY <1>1, <1>2, <1>3 DEF IInv, Places, PlainVisit, Fits, Wanted, Apart, ToCome
<1>7. FirstToCome(third)
  BY <1>1, <1>2 DEF FirstToCome, ToCome, Earlier
<1>8. /\ \A a, b \in P : PassedPair(a, b) <=> a < first \/ (a = first /\ b <= second)
      /\ \A a, b, k \in P : PassedThird(a, b, k) <=>
            a < first \/ (a = first /\ (b < second \/ (b = second /\ k <= third - 1)))
  BY <1>1 DEF PassedPair, PassedThird, Inside, PairsTo, ThirdsTo
<1>9. CASE at' = "second"
  <2>1. problem.goal = "maximum" /\ second' = second + 1
    BY <1>4, <1>9
  <2>2. \A a, b, k \in P : PassedThird(a, b, k)' <=> a < first \/ (a = first /\ b <= second)
    BY <1>1, <1>2, <1>9, <2>1 DEF PassedThird, PairsTo
  <2>3. VisitPassed(third)
    BY <1>2, <1>8, <2>2 DEF VisitPassed
  <2>4. SecondsLeft' /\ UNCHANGED <<input, scanner, plain>> /\ at \notin {"stopped", "finished"}
    BY <1>1 DEF SecondsLeft
  <2> QED BY <1>2, <1>4, <1>5, <1>6, <1>7, <2>1, <2>3, <2>4, VisitReport
<1>10. CASE at' = "third"
  <2>1. second' = second /\ third' = third + 1
    BY <1>4, <1>10
  <2>2. /\ \A a, b \in P : PassedPair(a, b)' <=> a < first \/ (a = first /\ b <= second)
        /\ \A a, b, k \in P : PassedThird(a, b, k)' <=>
              a < first \/ (a = first /\ (b < second \/ (b = second /\ k <= third)))
    BY <1>1, <1>2, <1>10, <2>1 DEF PassedPair, PassedThird, Inside, PairsTo, ThirdsTo
  <2>3. VisitPassed(third)
    BY <1>2, <1>8, <2>2 DEF VisitPassed
  <2>4. SecondsLeft' /\ UNCHANGED <<input, scanner, plain>> /\ at \notin {"stopped", "finished"}
    BY <1>1 DEF SecondsLeft
  <2>5. work'.pairs = work.pairs /\ work'.thirds = work.thirds + 1 /\ work.thirds \in Nat
    BY <1>1, Works DEF IInv, TypeOK
  <2>6. \E u, lo, hi : NewPairs(u, lo, hi)
    BY <1>8, <2>2, <2>5, NoPairs
  <2>7. NewThirds(first, second, third - 1, third)
    <3>1. \A k : k \in third - 1 + 1 .. third <=> k = third
      BY <1>2
    <3>2. third - 1 \in Nat /\ third - 1 <= third
      BY <1>2
    <3>3. \A a, b, k \in P : PassedThird(a, b, k)' /\ ~PassedThird(a, b, k)
                               <=> a = first /\ b = second /\ k = third
      BY <1>2, <1>8, <2>2
    <3>4. \A a, b, k \in P : PassedThird(a, b, k) => PassedThird(a, b, k)'
      BY <2>3 DEF VisitPassed
    <3>5. work'.thirds = work.thirds + third - (third - 1)
      BY <1>2, <2>5
    <3>6. ~Overlap(At(1, first), At(2, second))
      BY <1>6 DEF Wanted, Apart
    <3> QED BY <1>2, <1>3, <3>1, <3>2, <3>3, <3>4, <3>5, <3>6 DEF NewThirds
  <2>8. VisitCounted(third)
    <3>1. \A a, b \in P : PassedPair(a, b)' => ~Earlier(first, second, third, a, b, 1)
      BY <1>2, <2>2 DEF Earlier
    <3>2. \A a, b, k \in P : PassedThird(a, b, k)' => ~Earlier(first, second, third, a, b, k)
      BY <1>2, <2>2 DEF Earlier
    <3> QED BY <2>6, <2>7, <3>1, <3>2 DEF VisitCounted
  <2> QED BY <1>2, <1>4, <1>5, <1>6, <1>7, <2>3, <2>4, <2>8, VisitReport
<1>11. CASE at' = "stopped"
  <2>1. SecondsLeft' /\ UNCHANGED <<input, scanner, plain>> /\ at \notin {"stopped", "finished"}
    BY <1>1 DEF SecondsLeft
  <2> QED BY <1>2, <1>4, <1>5, <1>6, <1>7, <1>11, <2>1, VisitReport
<1> QED BY <1>4, <1>9, <1>10, <1>11

LEMMA ReuseVisitReport ==
    ASSUME IInv, RInv, ReuseVisit
    PROVE  RInv'
<1> DEFINE c == Smallest(batch)
<1>1. /\ UNCHANGED <<input, scanner, plain>> /\ UNCHANGED <<first, second, seconds, inSecond>>
      /\ Ranked /\ scanner = "reuse" /\ at = "batch" /\ c \in inThird /\ batch # {}
      /\ counted' = [counted EXCEPT !.thirds = c]
      /\ work' = [work EXCEPT !.thirds = @ + c - counted.thirds]
  BY DEF IInv, ReuseVisit, BelowFloor
<1>2. PICK ans \in Answers(Total(first, second, c)) :
         Visit(c, ans) /\ at' = IF ans.stop THEN "stopped" ELSE "batch"
  BY DEF ReuseVisit
<1>3. /\ first \in P /\ second \in P /\ first \in Nat /\ second \in Nat /\ floor \in Int
      /\ counted.thirds \in Nat /\ counted.pairs \in Nat
      /\ \A m \in P : m \in Nat /\ m # 0
  BY <1>1, Stages
<1>4. /\ batch \subseteq P /\ ahead \subseteq P /\ inThird \subseteq P
      /\ seconds = {b \in inSecond : counted.pairs < b /\ ~Overlap(At(1, first), At(2, b))}
      /\ \A k \in P : Total(first, second, k) >= floor <=> k \in inThird
  BY <1>1, ReuseRanges
<1>5. c \in batch /\ \A d \in batch : c <= d
  BY <1>1, <1>4, SmallestPosition
<1> HIDE DEF c
<1>6. /\ counted.pairs = second /\ counted.thirds < c
      /\ \A b \in seconds : counted.pairs < b
      /\ \A d \in ahead : c < d
      /\ ~Overlap(At(1, first), At(3, c)) /\ ~Overlap(At(2, second), At(3, c))
      /\ ~Overlap(At(1, first), At(2, second))
  <2>1. c \in thirds
    BY <1>5 DEF IInv, TypeOK
  <2> QED BY <1>1, <1>5, <2>1 DEF IInv, Lists, Places
<1>7. c \in P /\ c \in Nat /\ Total(first, second, c) >= floor
  BY <1>1, <1>3, <1>4, <1>5
<1>8. Wanted(first, second, c) /\ ToCome(first, second, c)
  BY <1>1, <1>5, <1>6, <1>7 DEF Wanted, Apart, ToCome
<1>9. FirstToCome(c)
  <2> SUFFICES ASSUME NEW i \in P, NEW j \in P, NEW k \in P, ToCome(i, j, k)
               PROVE  ~Earlier(i, j, k, first, second, c)
    BY DEF FirstToCome
  <2>1. \/ i > first
        \/ i = first /\ j \in seconds
        \/ i = first /\ j = second /\ k \in ahead
        \/ i = first /\ j = second /\ k \in batch
    BY <1>1 DEF ToCome
  <2>2. i \in Nat /\ j \in Nat /\ k \in Nat
    BY <1>3
  <2>3. CASE i > first
    BY <1>3, <2>2, <2>3 DEF Earlier
  <2>4. CASE i = first /\ j \in seconds
    BY <1>3, <1>6, <2>2, <2>4 DEF Earlier
  <2>5. CASE i = first /\ j = second /\ k \in ahead
    BY <1>3, <1>6, <1>7, <2>2, <2>5 DEF Earlier
  <2>6. CASE i = first /\ j = second /\ k \in batch
    BY <1>3, <1>5, <1>7, <2>2, <2>6 DEF Earlier
  <2> QED BY <2>1, <2>3, <2>4, <2>5, <2>6
<1>10. at' = "stopped" <=> ans.stop
  BY <1>2
<1>11. /\ \A a, b \in P : PassedPair(a, b) <=> a < first \/ (a = first /\ b <= second)
       /\ \A a, b, k \in P : PassedThird(a, b, k) <=>
             \/ a < first
             \/ a = first /\ (b < second \/ (b = second /\ k <= counted.thirds))
  BY <1>1, ReusePassed
<1>12. counted'.pairs = second /\ counted'.thirds = c
  BY <1>1, <1>6 DEF IInv, TypeOK
<1>13. SecondsLeft'
  <2>1. \A b : Overlap(At(1, first), At(2, b))' = Overlap(At(1, first), At(2, b))
    BY <1>1 DEF Overlap, At, input
  <2> QED BY <1>1, <1>4, <1>6, <1>12, <2>1 DEF SecondsLeft
<1>14. UNCHANGED <<input, scanner, plain>> /\ at \notin {"stopped", "finished"}
  BY <1>1
<1>15. CASE at' = "batch"
  <2>1. /\ \A a, b \in P : PassedPair(a, b)' <=> a < first \/ (a = first /\ b <= second)
        /\ \A a, b, k \in P : PassedThird(a, b, k)' <=>
              a < first \/ (a = first /\ (b < second \/ (b = second /\ k <= c)))
    BY <1>1, <1>12, <1>15 DEF PassedPair, PassedThird, Inside, PairsTo, ThirdsTo
  <2>2. \A a, b, k \in P : PassedThird(a, b, k) => PassedThird(a, b, k)'
    BY <1>3, <1>6, <1>7, <1>11, <2>1
  <2>3. \A a, b, k \in P : a = first /\ b = second /\ k = c => PassedThird(a, b, k)'
    BY <1>3, <1>7, <2>1
  <2>4. VisitPassed(c)
    BY <2>2, <2>3 DEF VisitPassed
  <2>5. /\ work'.pairs = work.pairs /\ work'.thirds = work.thirds + c - counted.thirds
    BY <1>1, Works DEF IInv, TypeOK
  <2>6. \E u, lo, hi : NewPairs(u, lo, hi)
    BY <1>11, <2>1, <2>5, NoPairs
  <2>7. NewThirds(first, second, counted.thirds, c)
    <3>1. \A k \in counted.thirds + 1 .. c : k \in P
      <4>1. \A k \in counted.thirds + 1 .. c : k \in Nat /\ k # 0 /\ k <= c
        BY <1>3, <1>7
      <4> QED BY <1>1, <1>7, <4>1, PositionNumbers
    <3>2. \A a, b, k \in P : PassedThird(a, b, k)' /\ ~PassedThird(a, b, k)
             <=> a = first /\ b = second /\ k \in counted.thirds + 1 .. c
      BY <1>3, <1>6, <1>7, <1>11, <2>1
    <3>3. \A k \in P : k <= c => Total(first, second, k) >= floor
      <4> SUFFICES ASSUME NEW k \in P, k <= c PROVE Total(first, second, k) >= floor
        OBVIOUS
      <4>1. /\ Total(first, second, c) \in Int /\ Total(first, second, k) \in Int
            /\ Total(first, second, c) <= Total(first, second, k)
        BY <1>1, <1>3, <1>7, PairScores
      <4> QED BY <1>3, <1>7, <4>1
    <3>4. \A k \in counted.thirds + 1 .. c : k <= c
      BY <1>3, <1>7
    <3>5. counted.thirds <= c
      BY <1>3, <1>6, <1>7
    <3> QED BY <1>3, <1>6, <1>7, <2>2, <2>5, <3>1, <3>2, <3>3, <3>4, <3>5 DEF NewThirds
  <2>8. VisitCounted(c)
    <3>1. \A a, b \in P : PassedPair(a, b)' => ~Earlier(first, second, c, a, b, 1)
      BY <1>3, <1>7, <2>1 DEF Earlier
    <3>2. \A a, b, k \in P : PassedThird(a, b, k)' => ~Earlier(first, second, c, a, b, k)
      BY <1>3, <1>7, <2>1 DEF Earlier
    <3> QED BY <2>6, <2>7, <3>1, <3>2 DEF VisitCounted
  <2> QED BY <1>2, <1>3, <1>7, <1>8, <1>9, <1>10, <1>13, <1>14, <2>4, <2>8, VisitReport
<1>16. CASE at' = "stopped"
  BY <1>2, <1>3, <1>7, <1>8, <1>9, <1>10, <1>13, <1>14, <1>16, VisitReport
<1> QED BY <1>2, <1>15, <1>16

-----------------------------------------------------------------------------
(* How a search ends, and how the next one begins                          *)

LEMMA EndedNow ==
    ASSUME IInv, RInv, at \in {"finished", "stopped"}
    PROVE  Ended(log, at)
<1>1. CASE at = "finished"
  <2>1. ASSUME NEW a \in P, NEW b \in P, NEW c \in P, Apart(a, b, c),
               Above(Total(a, b, c), log, DOMAIN log)
        PROVE  \E n \in DOMAIN log : log[n].plan = Plan(a, b, c)
    <3>1. Total(a, b, c) \in Int
      BY PairScores DEF IInv
    <3>2. Wanted(a, b, c)
      BY <2>1, <3>1 DEF RInv, FloorAnswered, Wanted
    <3>3. ~ToCome(a, b, c)
      BY <1>1 DEF ToCome
    <3> QED BY <1>1, <3>2, <3>3 DEF IInv, NoneLost, Visited
  <2>2. Exhausted(log)
    BY <2>1 DEF Exhausted
  <2>3. \A n \in DOMAIN log : ~log[n].answer.stop
    BY <1>1 DEF RInv, Stops
  <2> QED BY <1>1, <2>2, <2>3 DEF Ended
<1>2. CASE at = "stopped"
  BY <1>2 DEF Ended, RInv, Stops
<1> QED BY <1>1, <1>2

LEMMA WorkInAll ==
    ASSUME IInv, RInv, at = "finished", problem.goal = "band"
    PROVE  work = WorkOf(log)
<1>1. PairsDone = PairsSeen(log) /\ ThirdsDone = ThirdsSeen(log)
  BY DEF PairsDone, ThirdsDone, PassedPair, PassedThird
<1>2. work.pairs = Cardinality(PairsDone) /\ work.thirds = Cardinality(ThirdsDone)
  BY DEF RInv, WorkCounted
<1>3. work = [pairs |-> work.pairs, thirds |-> work.thirds]
  BY DEF IInv, TypeOK
<1> QED BY <1>1, <1>2, <1>3 DEF WorkOf

LEMMA AgainReport ==
    ASSUME IInv, RInv, Again
    PROVE  RInv'
<1>1. /\ UNCHANGED input /\ problem' = problem /\ at \in {"finished", "stopped"}
      /\ plain' = [floor |-> floor, work |-> work, log |-> log, at |-> at]
      /\ scanner' = "reuse" /\ at' = "first" /\ first' = 1
      /\ floor' = problem.floor /\ work' = NoWork /\ log' = <<>>
  BY DEF Again, input
<1>2. /\ plain'.floor = floor /\ plain'.work = work /\ plain'.log = log /\ plain'.at = at
  BY <1>1
<1>3. DOMAIN log' = {} /\ Len(log') = 0
  BY <1>1
<1>4. /\ Ranked /\ P' = P /\ problem.floor \in Int /\ floor \in Int
      /\ \A m \in P : m \in Nat /\ m # 0
  BY <1>1, Rigid, Stages, Inputs DEF IInv
<1>5. LogPassed'
  BY <1>3 DEF LogPassed, Visited
<1>6. FloorAnswered'
  BY <1>1, <1>3 DEF FloorAnswered, Above
<1>7. SecondsLeft' /\ Stops' /\ InOrder(log)'
  BY <1>1, <1>3 DEF SecondsLeft, Inside, Stops, InOrder
<1>8. WorkCounted'
  <2>1. /\ \A a, b \in P : ~PassedPair(a, b)'
        /\ \A a, b, c \in P : ~PassedThird(a, b, c)'
    BY <1>1, <1>4 DEF PassedPair, PassedThird, Inside
  <2>2. PairsDone' = {}
    BY <1>4, <2>1 DEF PairsDone, PairsSeen
  <2>3. ThirdsDone' = {}
    BY <1>4, <2>1 DEF ThirdsDone, ThirdsSeen
  <2>4. Cardinality({}) = 0
    BY FS_EmptySet
  <2> QED BY <1>1, <2>2, <2>3, <2>4 DEF WorkCounted, NoWork
<1>9. PlainEnd'
  <2>1. PICK lg, end, sum : lg = log /\ end = at /\ sum = work
    OBVIOUS
  <2>2. InOrder(lg)' /\ Ended(lg, end)' /\ WorkOf(lg)' = WorkOf(lg)
    BY <1>1, <2>1, EndedNow, RigidReport DEF RInv
  <2>3. InOrder(plain.log)' /\ Ended(plain.log, plain.at)'
    BY <1>2, <2>1, <2>2
  <2>4. \A x \in Int : x >= floor <=> Above(x, log, DOMAIN log)
    BY DEF RInv, FloorAnswered
  <2>5. \A x \in Int : (x >= plain.floor)' <=> Above(x, plain.log, DOMAIN plain.log)'
    BY <1>1, <1>2, <2>4 DEF Above
  <2>6. problem.goal = "band" /\ at = "finished" => plain'.work = WorkOf(plain.log)'
    BY <1>2, <2>1, <2>2, WorkInAll
  <2> QED BY <1>1, <1>2, <1>4, <2>3, <2>5, <2>6 DEF PlainEnd
<1>10. Repeats'
  BY <1>2, <1>3, Entries DEF Repeats
<1> QED BY <1>5, <1>6, <1>7, <1>8, <1>9, <1>10 DEF RInv, Repeated

LEMMA InitReport ==
    ASSUME Init, IInv
    PROVE  RInv
<1>1. /\ scanner = "plain" /\ at = "first" /\ first = 1
      /\ floor = problem.floor /\ work = NoWork /\ log = <<>>
  BY DEF Init
<1>2. DOMAIN log = {} /\ Len(log) = 0
  BY <1>1
<1>3. \A m \in P : m \in Nat /\ m # 0
  BY Stages
<1>4. LogPassed
  BY <1>2 DEF LogPassed, Visited
<1>5. FloorAnswered
  BY <1>1, <1>2 DEF FloorAnswered, Above
<1>6. SecondsLeft /\ Stops /\ InOrder(log) /\ Repeated
  BY <1>1, <1>2 DEF SecondsLeft, Stops, InOrder, Repeated
<1>7. WorkCounted
  <2>1. /\ \A a, b \in P : ~PassedPair(a, b)
        /\ \A a, b, c \in P : ~PassedThird(a, b, c)
    BY <1>1, <1>3 DEF PassedPair, PassedThird, Inside
  <2>2. PairsDone = {} /\ ThirdsDone = {}
    BY <2>1 DEF PairsDone, PairsSeen, ThirdsDone, ThirdsSeen
  <2>3. Cardinality({}) = 0
    BY FS_EmptySet
  <2> QED BY <1>1, <2>2, <2>3 DEF WorkCounted, NoWork
<1> QED BY <1>4, <1>5, <1>6, <1>7 DEF RInv

LEMMA StutterReport ==
    ASSUME IInv, RInv, UNCHANGED vars
    PROVE  RInv'
<1>1. /\ UNCHANGED input /\ problem' = problem /\ plain' = plain /\ log' = log /\ at' = at
      /\ scanner' = scanner /\ floor' = floor /\ work' = work
      /\ first' = first /\ second' = second /\ third' = third /\ counted' = counted
      /\ seconds' = seconds /\ inSecond' = inSecond /\ P' = P
  BY Rigid DEF vars, input, loops, report
<1>2. PICK lg : lg = log
  OBVIOUS
<1>3. InOrder(log)'
  <2>1. InOrder(lg)' <=> InOrder(lg)
    BY <1>1, RigidReport
  <2> QED BY <1>1, <1>2, <2>1 DEF RInv
<1>4. PairsTo' = PairsTo /\ ThirdsTo' = ThirdsTo /\ (Inside' <=> Inside)
  BY <1>1 DEF PairsTo, ThirdsTo, Inside
<1>5. /\ \A a, b : PassedPair(a, b)' <=> PassedPair(a, b)
      /\ \A a, b, c : PassedThird(a, b, c)' <=> PassedThird(a, b, c)
  BY <1>1, <1>4 DEF PassedPair, PassedThird
<1>6. LogPassed'
  <2>1. \A a, b, c : Visited(Plan(a, b, c))' <=> Visited(Plan(a, b, c))
    BY <1>1, Rigid DEF Visited
  <2> QED BY <1>1, <1>5, <2>1 DEF RInv, LogPassed
<1>7. FloorAnswered'
  BY <1>1 DEF RInv, FloorAnswered, Above
<1>8. SecondsLeft'
  <2>1. \A b : Overlap(At(1, first), At(2, b))' = Overlap(At(1, first), At(2, b))
    BY <1>1 DEF Overlap, At, input
  <2> QED BY <1>1, <1>4, <2>1 DEF RInv, SecondsLeft
<1>9. Stops'
  BY <1>1 DEF RInv, Stops
<1>10. Repeated'
  BY <1>1, SamePlain DEF RInv, Repeated, Repeats
<1>11. WorkCounted'
  <2>1. PairsSeen(lg)' = PairsSeen(lg) /\ ThirdsSeen(lg)' = ThirdsSeen(lg)
    BY <1>1, RigidReport
  <2>2. PairsSeen(log)' = PairsSeen(log) /\ ThirdsSeen(log)' = ThirdsSeen(log)
    BY <1>1, <1>2, <2>1
  <2>3. PairsDone' = PairsDone /\ ThirdsDone' = ThirdsDone
    BY <1>5, <2>2 DEF PairsDone, ThirdsDone
  <2> QED BY <1>1, <2>3 DEF RInv, WorkCounted
<1> QED BY <1>3, <1>6, <1>7, <1>8, <1>9, <1>10, <1>11 DEF RInv

LEMMA NextReport ==
    ASSUME IInv, RInv, [Next]_vars
    PROVE  RInv'
<1>1. IInv'
  BY NextInv
<1>2. CASE PlainScan
  BY <1>2, PlainFirstReport, PlainSecondOverReport, PlainSecondReport, PlainThirdOverReport,
     PlainThirdSkippedReport, PlainVisitReport DEF PlainScan
<1>3. CASE ReuseScan
  BY <1>1, <1>3, ReuseFirstReport, ReuseSecondOverReport, ReuseSecondReport, ReuseThirdOverReport,
     ReuseCompareReport, ReuseBatchOverReport, ReuseBatchBelowReport, ReuseVisitReport DEF ReuseScan
<1>4. CASE Finish
  BY <1>4, FinishReport
<1>5. CASE Again
  BY <1>5, AgainReport
<1>6. CASE UNCHANGED vars
  BY <1>6, StutterReport
<1> QED BY <1>2, <1>3, <1>4, <1>5, <1>6 DEF Next

LEMMA ReportInvariant == Spec => [](IInv /\ RInv)
<1>1. Init => IInv /\ RInv
  BY InitInv, InitReport
<1>2. IInv /\ RInv /\ [Next]_vars => (IInv /\ RInv)'
  BY NextInv, NextReport
<1> QED BY <1>1, <1>2, PTL DEF Spec

(* A search that has ended has reported all that the plain one reported.   *)
LEMMA SameLength ==
    ASSUME IInv, RInv, scanner = "reuse", at \in {"finished", "stopped"}
    PROVE  /\ Len(log) = Len(plain.log) /\ at = plain.at
<1>1. PICK said : said = plain.log
  OBVIOUS
<1>2. /\ Ranked /\ InOrder(said) /\ Ended(said, plain.at) /\ plain.at \in {"finished", "stopped"}
      /\ Len(log) <= Len(said) /\ \A n \in DOMAIN log : log[n] = said[n]
  BY <1>1 DEF IInv, RInv, Repeated, PlainEnd, Repeats
<1>3. /\ Len(said) \in Nat /\ DOMAIN said = 1 .. Len(said)
      /\ Len(log) \in Nat /\ DOMAIN log = 1 .. Len(log)
  BY <1>1, Entries
<1>4. Ended(log, at)
  BY EndedNow
<1>5. at = "stopped" => Len(log) \in DOMAIN log /\ log[Len(log)].answer.stop
  <2>1. log # <<>> => Len(log) # 0
    BY DEF IInv, TypeOK
  <2> QED BY <1>3, <1>4, <2>1 DEF Ended
<1>6. plain.at = "stopped" => Len(said) \in DOMAIN said /\ said[Len(said)].answer.stop
  <2>1. said # <<>> => Len(said) # 0
    BY <1>1 DEF IInv, TypeOK
  <2> QED BY <1>2, <1>3, <2>1 DEF Ended
<1>7. DOMAIN log \subseteq DOMAIN said
  BY <1>2, <1>3
<1>8. Len(log) = Len(said)
  <2> SUFFICES ASSUME Len(log) # Len(said) PROVE FALSE
    OBVIOUS
  <2> DEFINE N == Len(log) + 1
  <2>1. N \in 1 .. Len(said) /\ N - 1 = Len(log)
    <3>1. /\ Len(log) \in Nat /\ Len(said) \in Nat
          /\ Len(log) <= Len(said) /\ Len(log) # Len(said)
      BY <1>2, <1>3
    <3> QED BY <3>1
  <2> HIDE DEF N
  <2>2. CASE at = "finished"
    <3>1. NextWanted(said, N) /\ \A m \in 1 .. N - 1 : said[m].plan # said[N].plan
      BY <1>2, <1>3, <2>1 DEF InOrder
    <3>2. PICK a \in P, b \in P, c \in P :
            /\ said[N].plan = Plan(a, b, c)
            /\ Apart(a, b, c) /\ Above(Total(a, b, c), said, 1 .. N - 1)
      BY <3>1 DEF NextWanted
    <3>3. Above(Total(a, b, c), log, DOMAIN log)
      BY <1>2, <1>3, <2>1, <3>2 DEF Above
    <3>4. PICK n \in DOMAIN log : log[n].plan = Plan(a, b, c)
      BY <1>4, <2>2, <3>2, <3>3 DEF Ended, Exhausted
    <3> QED BY <1>2, <1>3, <2>1, <3>1, <3>2, <3>4
  <2>3. CASE at = "stopped"
    <3>1. Len(log) \in DOMAIN said /\ said[Len(log)].answer.stop
      BY <1>2, <1>5, <1>7, <2>3
    <3> QED BY <1>2, <3>1 DEF Ended
  <2> QED BY <2>2, <2>3
<1>9. at = plain.at
  <2>1. DOMAIN log = DOMAIN said
    BY <1>3, <1>8
  <2>2. at = "finished" => plain.at # "stopped"
    BY <1>2, <1>4, <1>6, <2>1 DEF Ended
  <2>3. at = "stopped" => plain.at # "finished"
    BY <1>2, <1>5, <2>1 DEF Ended
  <2> QED BY <1>2, <2>2, <2>3
<1> QED BY <1>1, <1>8, <1>9

(* Behind the plain scanner the other one, with a visitor that gives the   *)
(* same answers, hands over the same plans in the same order; if it ends,  *)
(* it has handed over all of them, and both ended alike, with the same     *)
(* floor and, in a band search that was not stopped, the same counts of    *)
(* the pairs and triples they looked at.                                   *)
THEOREM SameAnswersSameReport == Spec => []SameReport
<1>1. IInv /\ RInv => SameReport
  <2> SUFFICES ASSUME IInv, RInv, scanner = "reuse"
               PROVE  /\ Len(log) <= Len(plain.log)
                      /\ \A n \in DOMAIN log : log[n] = plain.log[n]
                      /\ at \in {"finished", "stopped"} =>
                            /\ at = plain.at /\ log = plain.log /\ floor = plain.floor
                            /\ problem.goal = "band" /\ at = "finished" => work = plain.work
    BY DEF SameReport
  <2>1. PlainEnd /\ Len(log) <= Len(plain.log) /\ \A n \in DOMAIN log : log[n] = plain.log[n]
    BY DEF RInv, Repeated, Repeats
  <2> SUFFICES ASSUME at \in {"finished", "stopped"}
               PROVE  /\ at = plain.at /\ log = plain.log /\ floor = plain.floor
                      /\ problem.goal = "band" /\ at = "finished" => work = plain.work
    BY <2>1
  <2>2. Len(log) = Len(plain.log) /\ at = plain.at
    BY SameLength
  <2>3. log = plain.log
    BY <2>1, <2>2, Entries DEF IInv, TypeOK
  <2>4. floor = plain.floor
    <3>1. \A x \in Int : x >= floor <=> x >= plain.floor
      BY <2>1, <2>3 DEF RInv, FloorAnswered, PlainEnd
    <3>2. floor \in Int /\ plain.floor \in Int
      BY <2>1 DEF IInv, TypeOK, PlainEnd
    <3> QED BY <3>1, <3>2
  <2>5. problem.goal = "band" /\ at = "finished" => work = plain.work
    BY <2>1, <2>2, <2>3, WorkInAll DEF PlainEnd
  <2> QED BY <2>2, <2>3, <2>4, <2>5
<1> QED BY <1>1, ReportInvariant, PTL

(* The scan is exact (lib.rs, reuse_band.rs): a scanner that ends by itself *)
(* loses no plan that reaches the floor, and the search for the maximum     *)
(* ends with the best.                                                     *)
THEOREM ScanIsExact == Spec => []ScanExact
<1>1. Complete /\ MaximumFound => ScanExact
  BY DEF ScanExact
<1> QED BY <1>1, CompleteSearch, BestFound, PTL
=============================================================================
