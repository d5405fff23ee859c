---------------------------- MODULE MCScoreRange -----------------------------
(***************************************************************************)
(* Instances of ScoreRange: six or seven cards of five or six characters,  *)
(* two or three songs, items with one or all bands and attributes and one  *)
(* or two magazines.  The values of a request are spread over small ranges *)
(* by its number, so that every event type meets teams of every kind,      *)
(* targets that one song, two songs or nothing reaches, equal cards, cards *)
(* that the items do not touch, limits of 1 and of 20, songs that are      *)
(* closed or unsafe and skills that rise.                                  *)
(***************************************************************************)
EXTENDS ScoreRange

RuleDef == [versus   |-> [fixed |-> 3, divisor |-> 9, multiplied |-> FALSE, supported |-> FALSE],
            medley   |-> [fixed |-> 1, divisor |-> 14, multiplied |-> FALSE, supported |-> FALSE],
            live_try |-> [fixed |-> 4, divisor |-> 11, multiplied |-> TRUE, supported |-> FALSE],
            mission_live |-> [fixed |-> 2, divisor |-> 10, multiplied |-> TRUE, supported |-> TRUE]]

(* Values spread over 0 .. n - 1 in no apparent order. *)
Scatter(k, i, j, n) ==
    LET x == (131 * k + 310 * i + 31 * j) % 10007
    IN  (((x * (x + 17)) % 10007) \div 7) % n

Pick(k, i, j, values) == values[1 + Scatter(k, i, j, Len(values))]

CardOf(k, i) ==
    LET conditional == Scatter(k, i, 5, 3) = 0
        usual == IF k % 2 = 0 THEN 4 ELSE Pick(k, i, 6, <<4, 4, 4, 8>>)
    IN  [id |-> i,
         character |-> IF i <= 5 THEN i ELSE Pick(k, i, 1, <<6, 6, 1, 3>>),
         band |-> IF k % 3 = 0 THEN 1 ELSE IF i = 2 THEN 1 + (k % 2) ELSE 1,
         attribute |-> IF k % 5 < 2 THEN 1 ELSE Pick(k, i, 3, <<1, 2>>),
         power |-> IF k % 7 = 0 THEN 4 ELSE Pick(k, i, 4, <<3, 4, 5, 7>>),
         magazine |-> <<Scatter(k, i, 11, 2), Scatter(k, i, 12, 3)>>,
         rounding |-> IF k % 4 = 0 THEN Scatter(k, i, 7, 2) ELSE 0,
         bonus |-> IF k % 2 = 0 THEN Pick(k, i, 8, <<0, 2, 5>>) ELSE 3,
         duration |-> IF k % 6 = 0 /\ i = 1 THEN 2 ELSE 1,
         rateup |-> k % 8 = 3,
         usual |-> usual,
         unified |-> IF conditional THEN usual + 4 ELSE None,
         ifBand |-> IF conditional /\ k % 2 = 0 THEN 1 ELSE None,
         ifAttribute |-> IF conditional /\ k % 3 = 1 THEN 1 ELSE None]

SongOf(k, s) ==
    LET nodes == 3 + Scatter(k, s, 21, 2)
    IN  [id |-> s,
         factor |-> Pick(k, s, 22, <<3, 4, 5>>),
         published |-> IF Scatter(k, s, 23, 9) = 0 THEN 6 ELSE 1,
         closed |-> Pick(k, s, 24, <<None, None, None, 9, 3>>),
         dated |-> Scatter(k, s, 28, 5) = 0,
         opened |-> Pick(k, s, 29, <<None, 1, 1, 6>>),
         notes |-> IF Scatter(k, s, 27, 9) = 0 THEN <<>>
                   ELSE [d \in {1, 2} |->
                           [inactive |-> nodes - d - Scatter(k, s, 25, 2), active |-> <<d, Scatter(k, s, 25, 2)>>,
                            tail |-> Scatter(k, s, 26 + d, 7) = 0, queue |-> Scatter(k, s, 30 + d, 7) = 0]]]

CaseOf(k) ==
    LET bandKeys == IF k % 3 = 0 THEN {{1}, {2}} ELSE IF k % 3 = 1 THEN {{1}, {1, 2}} ELSE {{1}}
        attributeKeys == IF k % 4 = 0 THEN {{1}, {2}} ELSE IF k % 4 = 1 THEN {{1}, {1, 2}} ELSE {{2}}
    IN  [cards |-> {CardOf(k, i) : i \in 1 .. 6 + (k % 2)},
         songs |-> {SongOf(k, s) : s \in 1 .. 2 + (k % 2)},
         now |-> 5,
         event |-> Pick(k, 0, 1, <<"versus", "medley", "live_try", "mission_live">>),
         current |-> Pick(k, 0, 2, <<0, 10>>),
         wanted |-> Pick(k, 0, 2, <<0, 10>>)
                    + (IF k % 97 = 0 THEN (k % 2) - 1
                       ELSE IF k % 3 = 0 THEN 1 + Scatter(k, 0, 4, 12)
                       ELSE Pick(k, 0, 3, <<12, 24, 30, 45, 60>>) + Scatter(k, 0, 4, 6)),
         support |-> IF k % 50 = 1 THEN None ELSE k % 2,
         limit |-> IF k % 3 = 1 THEN 1 ELSE 20,
         items |-> [band : bandKeys, attribute : attributeKeys,
                    magazine : IF k % 5 = 0 THEN {1, 2} ELSE {1}],
         gain |-> [band |-> [key \in bandKeys |-> 1 + Scatter(k, Cardinality(key), 31, 2)],
                   attribute |-> [key \in attributeKeys |-> Scatter(k, Cardinality(key), 32, 3)]]]

CasesDef == [k \in 1 .. 500 |-> CaseOf(k)]

=============================================================================
