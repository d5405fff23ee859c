---------------------------- MODULE MCEventSearch ----------------------------
(***************************************************************************)
(* Instances of SingleSearch and of EventSearch.                           *)
(*                                                                         *)
(* For a search by score: decks of four to six cards.  Composed decks have *)
(* a layout (characters, bands and attributes), powers, skills and         *)
(* conditions, in every combination; in scattered decks every value of     *)
(* every card differs, which the bounds of replacements are sensitive to.  *)
(*                                                                         *)
(* For a search by points: five or six cards of four or five characters    *)
(* and a request of every kind of live, with values spread over small      *)
(* ranges by its number.                                                   *)
(***************************************************************************)
EXTENDS EventSearch

WeightDef == (1 :> <<2, 1, 3, 2>>) @@ (2 :> <<3, 2, 4, 3>>)

(* Character, band and attribute of each card: all teams mixed, three cards *)
(* of one band, three of one attribute, both, all cards of one band and     *)
(* attribute, all but two, four cards, and too few characters.              *)
Layouts ==
    {<< <<1, 1, 1>>, <<2, 1, 2>>, <<3, 2, 1>>, <<4, 2, 3>>, <<1, 3, 2>>, <<5, 3, 3>> >>,
     << <<1, 1, 1>>, <<2, 1, 2>>, <<3, 1, 3>>, <<4, 2, 1>>, <<3, 2, 2>> >>,
     << <<1, 1, 1>>, <<2, 2, 1>>, <<3, 3, 1>>, <<4, 1, 2>>, <<1, 2, 2>> >>,
     << <<1, 1, 1>>, <<2, 1, 2>>, <<3, 1, 3>>, <<4, 2, 3>>, <<5, 3, 3>>, <<4, 1, 2>> >>,
     << <<1, 1, 1>>, <<2, 1, 1>>, <<3, 1, 1>>, <<4, 1, 1>>, <<2, 1, 1>>, <<3, 1, 1>> >>,
     << <<1, 1, 1>>, <<2, 1, 1>>, <<3, 1, 1>>, <<4, 2, 2>>, <<1, 2, 1>> >>,
     << <<1, 1, 1>>, <<2, 2, 2>>, <<3, 3, 1>>, <<1, 2, 2>> >>,
     << <<1, 1, 1>>, <<2, 1, 1>>, <<1, 2, 1>>, <<2, 1, 2>> >>}

Powers ==
    {<<60, 52, 44, 36, 28, 20>>, <<30, 30, 60, 30, 40, 30>>, <<24, 30, 36, 44, 52, 60>>,
     <<40, 40, 40, 40, 40, 40>>, <<20, 60, 25, 55, 30, 50>>}

(* Duration and usual value of each card's skill. *)
Skills ==
    {<< <<1, 1>>, <<1, 1>>, <<1, 1>>, <<1, 1>>, <<1, 1>>, <<1, 1>> >>,
     << <<1, 2>>, <<2, 1>>, <<1, 1>>, <<2, 2>>, <<1, 3>>, <<2, 1>> >>,
     << <<2, 1>>, <<1, 1>>, <<1, 3>>, <<1, 2>>, <<2, 2>>, <<1, 1>> >>,
     << <<1, 4>>, <<2, 3>>, <<2, 1>>, <<1, 3>>, <<1, 2>>, <<2, 4>> >>}

(* Which cards have a skill with a condition, and the condition: their own  *)
(* band, their own attribute, both or nothing.                              *)
Conditions == {[cards |-> {}, of |-> {}],
               [cards |-> {2, 4}, of |-> {}],
               [cards |-> {1, 3}, of |-> {"band"}],
               [cards |-> {2, 3, 5}, of |-> {"attribute"}],
               [cards |-> 1 .. 6, of |-> {"band"}],
               [cards |-> 1 .. 6, of |-> {"band", "attribute"}]}

Card(i, place, power, skill, condition) ==
    LET conditional == i \in condition.cards
    IN  [id |-> i, character |-> place[1], band |-> place[2], attribute |-> place[3],
         \* the second combination helps attribute 2 instead of band 1
         power |-> <<power + (IF place[2] = 1 THEN 6 ELSE 0),
                     power + (IF place[3] = 2 THEN 8 ELSE 0)>>,
         duration |-> skill[1], usual |-> skill[2],
         unified |-> IF conditional THEN skill[2] + 2 ELSE None,
         ifBand |-> IF conditional /\ "band" \in condition.of THEN place[2] ELSE None,
         ifAttribute |-> IF conditional /\ "attribute" \in condition.of THEN place[3] ELSE None]

ComposedDecks ==
    {{Card(i, l[i], p[i], s[i], u) : i \in DOMAIN l} :
        l \in Layouts, p \in Powers, s \in Skills, u \in Conditions}

(* Values spread over 0 .. n - 1 in no apparent order. *)
Scatter(k, i, j, n) ==
    LET x == (131 * k + 310 * i + 31 * j) % 10007
    IN  (((x * (x + 17)) % 10007) \div 7) % n

(* Two cards of each band and attribute: all teams are mixed. *)
ScatteredCard(k, i) ==
    LET spread == 10 + 20 * (k % 2)
    IN  Card(i,
             <<IF i <= 4 THEN i ELSE 1 + Scatter(k, i, 0, 5), 1 + (i % 3), 1 + (((i + k) \div 2) % 3)>>,
             40 - spread + Scatter(k, i, 1, 2 * spread + 1),
             <<1 + Scatter(k, i, 2, 2), 1 + Scatter(k, i, 3, 6)>>,
             [cards |-> {}, of |-> {}])

ScatteredDecks == {{ScatteredCard(k, i) : i \in 1 .. 5 + (k % 2)} : k \in 1 .. 1500}

AllDecks == ComposedDecks \cup ScatteredDecks

(* Decks all of whose teams are of a mode that is searched. *)
Covers(cards) ==
    LET tried == ToSet(ModeCandidates(cards))
    IN  \A t \in Teams(cards) : ModesFor(tried, cards, t) # {}

CoveredDecks == {d \in AllDecks : Covers(d)}

-----------------------------------------------------------------------------
(* Requests for points.                                                    *)

RuleDef == [versus    |-> [fixed |-> 3, divisor |-> 9, multiplied |-> FALSE, supported |-> FALSE],
            challenge |-> [fixed |-> 4, divisor |-> 11, multiplied |-> TRUE, supported |-> FALSE],
            mission   |-> [fixed |-> 2, divisor |-> 8, multiplied |-> TRUE, supported |-> TRUE]]

FeverWeightDef == (1 :> <<2, 3, 3, 2>>) @@ (2 :> <<3, 4, 4, 3>>)

(* The shown order mostly stays; two orders never come. *)
ShuffleWeightDef ==
    [p \in Turns |-> IF p = <<1, 2, 3>> THEN 3 ELSE IF p[1] = 3 THEN 0 ELSE p[2]]

Choose(k, i, j, values) == values[1 + Scatter(k, i, j, Len(values))]

BonusCard(k, i, multiplied) ==
    LET fits == k % 3 = 0
        conditional == k % 4 < 2 /\ Scatter(k, i, 5, 2) = 0
        card == Card(i,
                     <<IF i <= 4 THEN i ELSE 1 + Scatter(k, i, 0, 5),
                       IF fits THEN 1 + Scatter(k, i, 6, 2) ELSE 1 + (i % 3),
                       IF k % 4 = 1 THEN 1 ELSE 1 + (((i + k) \div 2) % 3)>>,
                     15 + Scatter(k, i, 1, 31),
                     <<1 + Scatter(k, i, 2, 2), 1 + Scatter(k, i, 3, 4)>>,
                     [cards |-> IF conditional THEN {i} ELSE {},
                      of |-> IF k % 8 = 0 THEN {"band"} ELSE {"attribute"}])
        bonus == IF multiplied THEN Choose(k, i, 8, <<0, 0, 2, 4>>) ELSE 0
    IN  [id |-> card.id, character |-> card.character, band |-> card.band,
         attribute |-> card.attribute, power |-> card.power, duration |-> card.duration,
         usual |-> card.usual, unified |-> card.unified, ifBand |-> card.ifBand,
         ifAttribute |-> card.ifAttribute, bonus |-> bonus]

Player(k, j) ==
    [power |-> 60 + Scatter(k, j, 12, 80), duration |-> 1 + Scatter(k, j, 13, 2),
     scoreUp |-> 1 + Scatter(k, j, 14, 4)]

RequestOf(k) ==
    LET live == Choose(k, 0, 1, <<"plain", "plain", "festival", "cooperative">>)
        event == IF live = "cooperative" THEN Choose(k, 0, 2, <<"challenge", "mission">>)
                 ELSE IF live = "festival" THEN "versus"
                 ELSE Choose(k, 0, 2, <<"versus", "challenge", "mission">>)
    IN  [cards |-> {BonusCard(k, i, Rule[event].multiplied) : i \in 1 .. 5 + (k % 2)},
         event |-> event, live |-> live,
         support |-> k % 3,
         minimum |-> Choose(k, 0, 3, <<None, None, 80, 110>>),
         players |-> IF live = "cooperative" THEN [j \in 1 .. TeamSize - 1 |-> Player(k, j)] ELSE None,
         leader |-> [is |-> Choose(k, 0, 4, <<"max", "random", "fixed", "fixed">>), player |-> k % 3]]

Asked == {RequestOf(k) : k \in 1 .. 1500}

(* Requests all of whose teams are of a mode that is searched.              *)
CoveredRequests == {r \in Asked : Covers(r.cards)}

(* Some where a bonus is traded. *)
TradeRequests == {r \in CoveredRequests : r.live = "plain" /\ TradesBonus(r)}

=============================================================================
