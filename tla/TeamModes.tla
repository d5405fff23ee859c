------------------------------ MODULE TeamModes ------------------------------
(***************************************************************************)
(* Teams, and the modes in which every search of the optimizer looks for   *)
(* them (SongMode of team_prune/signature.rs and single/mode.rs): all      *)
(* teams (mixed), those of one band, of one attribute, or of both.  A      *)
(* skill may be stronger in a team of its band or attribute (ScoreUp of    *)
(* model/preparation.rs).  A team has no character twice.                  *)
(***************************************************************************)
EXTENDS Integers, FiniteSets, FiniteSetsExt

CONSTANTS TeamSize,    \* cards of a team: 5
          Bands, Attributes,
          None

ASSUME TeamSizeAssumption == TeamSize \in Nat /\ TeamSize >= 2

Places == 1 .. TeamSize
Captain == TeamSize + 1          \* the captain's skill is used again at the end

Modes == [band : Bands \cup {None}, attribute : Attributes \cup {None}]

Mixed == [band |-> None, attribute |-> None]

Allows(mode, c) ==
    /\ mode.band \in {None, c.band}
    /\ mode.attribute \in {None, c.attribute}

Allowed(cards, mode) == {c \in cards : Allows(mode, c)}

(* ScoreUp::resolve: unified is the value of a skill in a team that meets  *)
(* its conditions (None: no such value), ifBand and ifAttribute the        *)
(* conditions (None: any).                                                 *)
ScoreUp(c, mode) ==
    IF /\ c.unified # None
       /\ c.ifBand \in {None, mode.band}
       /\ c.ifAttribute \in {None, mode.attribute}
    THEN c.unified
    ELSE c.usual

Characters(cards) == {c.character : c \in cards}

(* Sets of n cards of different characters. *)
Lineups(n, cards) ==
    {team \in SUBSET cards : /\ Cardinality(team) = n
                             /\ Cardinality(Characters(team)) = n}

Teams(cards) == Lineups(TeamSize, cards)

(* The mode in which the skills of a team have the values the game gives. *)
KindOf(team) ==
    LET bands == {c.band : c \in team}
        attributes == {c.attribute : c \in team}
        common(values) == IF Cardinality(values) = 1
                          THEN CHOOSE v \in values : TRUE ELSE None
    IN  [band |-> common(bands), attribute |-> common(attributes)]

=============================================================================
