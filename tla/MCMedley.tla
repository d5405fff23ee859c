------------------------------- MODULE MCMedley -------------------------------
(***************************************************************************)
(* Instances of the medley search and of the scanners it hands its         *)
(* candidates to.  The search relies on what the scanners promise          *)
(* (SolveExactly, CompatibleTeams); a behaviour is one of the search with  *)
(* this promise in place of the scanner, or one of both scanners on a      *)
(* problem of their own, and `part` says of which.                         *)
(***************************************************************************)
EXTENDS EventMedley, MedleyScan

-----------------------------------------------------------------------------
(* The searches: teams of two from five to eight cards, with values spread *)
(* over small ranges by the number of the deck.  Some decks have many      *)
(* cards of one character (one of them can go when three others are        *)
(* better), some are of one band, some have far better cards than the rest *)
(* (replacements for three teams), some are too small for a medley.        *)
SongWeightDef ==
    <<(1 :> <<2, 1, 2>>) @@ (2 :> <<3, 2, 3>>),
      (1 :> <<2, 3, 2>>) @@ (2 :> <<3, 4, 4>>),
      (1 :> <<2, 2, 1>>) @@ (2 :> <<3, 3, 2>>)>>

SongBaseDef == <<10, 14, 12>>

(* Values spread over 0 .. n - 1 in no apparent order. *)
Scatter(k, i, j, n) ==
    LET x == (131 * k + 310 * i + 31 * j) % 10007
    IN  (((x * (x + 17)) % 10007) \div 7) % n

(* The kinds of decks: the characters of the cards, how far their powers   *)
(* are apart, how many are much weaker than the rest, and what the items   *)
(* add to a power.                                                         *)
Kind(characters, apart, weak, help) ==
    [characters |-> characters, apart |-> apart, weak |-> weak, help |-> help]

Kinds ==
    <<Kind(<<1, 2, 3, 4, 5, 6, 7, 8>>, 4, 2, 20),
      Kind(<<1, 1, 1, 1, 1, 2, 3, 4>>, 30, 0, 6),
      Kind(<<1, 2, 3, 4, 5, 1, 2>>, 40, 0, 20),
      Kind(<<1, 1, 2, 2, 3, 3, 4>>, 20, 0, 6),
      Kind(<<1, 2, 3, 4, 5, 6, 7>>, 4, 1, 20),
      Kind(<<1, 2, 3, 4, 5, 6, 7>>, 40, 0, 6),
      Kind(<<1, 2, 3, 1, 2, 3>>, 10, 0, 6),
      Kind(<<1, 1, 1, 1, 2, 3, 4>>, 40, 0, 6),
      Kind(<<1, 1, 1, 2, 2>>, 20, 0, 6),
      Kind(<<1, 1, 1, 1, 1, 1>>, 20, 0, 6)>>

CardOf(k, i, kind) ==
    LET band == IF k % 4 = 0 THEN 1 ELSE 1 + Scatter(k, i, 4, 2)
        attribute == IF k % 3 = 0 THEN 1 + (i \div 6) ELSE 1 + Scatter(k, i, 5, 2)
        conditional == kind.weak = 0 /\ k % 7 < 2 /\ Scatter(k, i, 6, 2) = 0
        weak == i > Len(kind.characters) - kind.weak
        power == (IF weak THEN 15 ELSE 50 - kind.apart) + Scatter(k, i, 1, 2 * kind.apart)
    IN  [id |-> i, character |-> kind.characters[i], band |-> band, attribute |-> attribute,
         \* the second combination helps attribute 2 instead of band 1
         power |-> <<power + (IF band = 1 THEN kind.help ELSE 0),
                     power + (IF attribute = 2 THEN kind.help ELSE 0)>>,
         duration |-> IF kind.weak > 0 THEN 2 ELSE 1 + Scatter(k, i, 2, 2),
         usual |-> IF weak THEN 1 ELSE IF kind.weak > 0 THEN 2 ELSE 1 + Scatter(k, i, 3, 4),
         unified |-> IF conditional THEN 2 + Scatter(k, i, 3, 4) + Scatter(k, i, 7, 2) ELSE None,
         ifBand |-> IF conditional /\ Scatter(k, i, 8, 2) = 0 THEN band ELSE None,
         ifAttribute |-> IF conditional /\ Scatter(k, i, 9, 3) = 0 THEN attribute ELSE None]

Deck(k) ==
    LET kind == Kinds[1 + (k % Len(Kinds))]
    IN  {CardOf(k, i, kind) : i \in DOMAIN kind.characters}

ScatteredDecks ==
    {Deck(k) : k \in {11, 12, 13, 15, 17, 19, 20, 21, 22, 23, 24, 25, 27, 28, 30, 31, 33, 35, 37, 40, 42, 43, 45, 47, 51}}

(* Three cards of one character, each of which needs one of the three       *)
(* others beside it; these are better, and the greedy search takes two of   *)
(* them for a team.                                                         *)
CrowdedDeck ==
    {[id |-> i, character |-> Max({1, i - 2}), band |-> 1, attribute |-> 1,
      power |-> IF i > 3 THEN <<60, 60>> ELSE <<20, 20>>, duration |-> 1, usual |-> 1,
      unified |-> None, ifBand |-> None, ifAttribute |-> None] : i \in 1 .. 6}

CrowdedDecks == {CrowdedDeck}

PointedDecks ==
    {Deck(k) : k \in {91, 94, 99, 101, 103, 106, 110, 116, 132}} \cup CrowdedDecks

(* Two sequences of draws, of two rounds and of one. *)
DrawsDef ==
    LET draw(n) == [id \in 1 .. 8 |-> 1 + Scatter(n, id, 1, 6)]
    IN  {<<draw(1), draw(2)>>, <<draw(3)>>}

ShuffleDef == [turn \in Turns |-> IF turn[1] = 1 THEN 3 ELSE 1]

-----------------------------------------------------------------------------
(* Problems for the scanners: five teams of four cards.  The scores run    *)
(* through the residues of a family of forms, so that songs agree and      *)
(* disagree about the best teams and scores tie.                           *)
ScannedTeams == 1 .. 5

CardsOf == {
    <<{1}, {2}, {3}, {1, 2}, {4}>>,
    <<{1, 2}, {2, 3}, {3, 4}, {1, 4}, {4}>>,
    <<{1}, {1}, {2}, {2, 3}, {3}>>}

Forms == {<<u, v, w, m>> : u \in 1 .. 3, v \in {0, 2}, w \in 1 .. 2, m \in {7, 13}}

ScoreOf(f) == [c \in ScannedTeams |-> [s \in Songs |-> (c * f[1] + s * f[2] + c * s * f[3]) % f[4]]]

Some == {[goal |-> g, floor |-> l * (f[4] - 1), candidates |-> ScannedTeams,
          score |-> ScoreOf(f), cards |-> k] :
            g \in {"maximum", "band"}, l \in 1 .. 2, f \in Forms, k \in CardsOf}

SomeFloors == {14, 28}

VARIABLE part    \* "search" or "scan"
allVars == <<eventVars, vars, part>>

(* Some problem, with one order of the candidates of each song.             *)
Untied ==
    CHOOSE p \in Problems : \A s \in Songs, c, d \in p.candidates :
        p.score[c][s] = p.score[d][s] => c = d

MCInit ==
    \/ /\ part = "search" /\ InitEvent
       /\ problem = Untied /\ Init /\ song = CHOOSE l \in SongOrders : TRUE
    \/ /\ part = "scan" /\ InitSearch({CHOOSE d \in Decks : TRUE})
       /\ goal = "score" /\ layouts = <<>> /\ values = <<>> /\ possible = {} /\ open = {}
       /\ Init

SearchPart == part = "search" /\ NextEvent /\ UNCHANGED <<vars, part>>
ScanPart == part = "scan" /\ Next /\ UNCHANGED <<eventVars, part>>

MCSpec == MCInit /\ [][SearchPart \/ ScanPart]_allVars
=============================================================================
