------------------------------ MODULE MatchEdit ------------------------------
(* Editing a match in progress: the commands "set board", "set dice", "set   *)
(* cube", "set turn", "set score", "set crawford" and "set postcrawford" of  *)
(* set.c, and "set matchid", SetMatchID of play.c.  The first three leave    *)
(* records of their own in the game, the others change the match state and   *)
(* the game-info record in place.                                            *)
EXTENDS MatchID

Board(p, board) == IF p = 1 THEN [s \in Player |-> board[Not(s)]] ELSE board
SetBoard(p, board) == [mt |-> "SETBOARD", fPlayer |-> p, board |-> Board(p, board)]
SetCubeVal(p, n) == [mt |-> "SETCUBEVAL", fPlayer |-> p, nCube |-> n]
SetCubePos(p, owner) == [mt |-> "SETCUBEPOS", fPlayer |-> p, fCubeOwner |-> owner]

Record(r) == Become(AddMoveRecord(Match, r)) /\ UNCHANGED <<fCrawfordState, fNextTurn>>

(* The board is given as the player on roll sees it.                         *)
CommandSetBoard(board) == Playing /\ Room /\ Record(SetBoard(ms.fMove, board))
CommandSetDice == Playing /\ Room /\ Record(Rec("SETDICE", ms.fMove))

CheckCubeAllowed(m) == m.gs = "PLAYING" /\ ~m.fCrawford
CubeValue(n) == \E k \in 0..15 : n = 2 ^ k /\ n <= MAX_CUBE
CommandSetCubeOwner(owner) ==    \* and CommandSetCubeCentre
  Ready /\ Room /\ CheckCubeAllowed(ms) /\ Record(SetCubePos(ms.fMove, owner))
CommandSetCubeValue(n) ==
  Ready /\ Room /\ CheckCubeAllowed(ms) /\ CubeValue(n) /\ Record(SetCubeVal(ms.fMove, n))

CommandSetTurn(p) ==
  /\ Playing /\ ms.fResigned = 0
  /\ ms' = SetTurn(ms, p) /\ fNextTurn' = (fX /\ fNextTurn)
  /\ UNCHANGED <<lMatch, plGame, plLastMove, fCrawfordState>>

-----------------------------------------------------------------------------
(* Settings that change the state and the game-info record in place.         *)

CancelCubeAction(m) == [m EXCEPT !.fDoubled = FALSE]
NoteCrawford(games, m) ==
  IF plGame = 0 THEN games ELSE [games EXCEPT ![plGame][1].fCrawfordGame = m.fCrawford]
NoteScore(games, m) ==
  IF plGame = 0 THEN games ELSE [NoteCrawford(games, m) EXCEPT ![plGame][1].anScore = m.anScore]
InPlace(m, games) ==
  ms' = m /\ lMatch' = games /\ UNCHANGED <<plGame, plLastMove, fCrawfordState, fNextTurn>>

OneAway(m) == \E p \in Player : m.anScore[p] = m.nMatchTo - 1
Chosen(on) == LET m == [ms EXCEPT !.fCrawford = on, !.fPostCrawford = ~on]
              IN  IF on THEN CancelCubeAction(m) ELSE m
CommandSetCrawford(on) ==
  /\ Ready /\ ms.nMatchTo > 0
  /\ \/ OneAway(ms) /\ InPlace(Chosen(on), NoteCrawford(lMatch, Chosen(on)))
     \/ ~OneAway(ms) /\ ms.fCrawford /\ InPlace([ms EXCEPT !.fCrawford = on], lMatch)

(* The second flag is set from the first whether SetToggle has understood    *)
(* its argument or not: one that is neither on nor off leaves fPostCrawford, *)
(* which is `on' being what it is already, and may change fCrawford.         *)
BadToggle == ms.fPostCrawford
CommandSetPostCrawford(on) ==
  Ready /\ ms.nMatchTo > 0 /\ OneAway(ms)
  /\ InPlace(Chosen(~on), NoteCrawford(lMatch, Chosen(~on)))

(* "set score": a player's score is a number, negative if it counts from the *)
(* end, and may have a mark that says which kind of game this is.  A third   *)
(* number n sets the length of the match, and is kept when the scores are    *)
(* refused; the runs give none, which leaves the length as it is.            *)
Score(s, n) == IF s.mark # "" THEN n - 1 ELSE IF s.n < 0 THEN s.n + n ELSE s.n
Refused(s, n) ==
  LET marked(mark) == {p \in Player : s[p].mark = mark}
      crawford == marked("crawford")    post == marked("postcrawford")
      score(p) == Score(s[p], n)
  IN  \/ \E p \in crawford \cup post : s[p].n # -1 /\ s[p].n # n - 1
      \/ n = 0 /\ crawford \cup post # {}
      \/ crawford = Player
      \/ crawford # {} /\ post # {}
      \/ \E p \in post : score(Not(p)) = 0
      \/ \E p \in Player : score(p) < 0 \/ (n > 0 /\ score(p) >= n)

(* Which game it is, from the scores and the marks.                          *)
ScoreFlags(m, s) ==
  LET away == {p \in Player : m.anScore[p] = m.nMatchTo - 1}
      crawford == \E p \in Player : s[p].mark = "crawford" \/ m.anScore[p] = 0
      flags(c, p) == [m EXCEPT !.fCrawford = c, !.fPostCrawford = p]
  IN  IF m.nMatchTo = 0 THEN m
      ELSE IF away = {} THEN flags(FALSE, FALSE)
      ELSE IF away = Player \/ \E p \in Player : s[p].mark = "postcrawford"
        THEN flags(FALSE, m.nMatchTo > 1)
      ELSE flags(m.fCrawford \/ crawford, ~(m.fCrawford \/ crawford))

CommandSetScore(s, n) ==
  LET m == [ms EXCEPT !.nMatchTo = n]
      scored == ScoreFlags([CancelCubeAction(m) EXCEPT !.anScore = [p \in Player |-> Score(s[p], n)]], s)
  IN  /\ Ready
      /\ \/ Refused(s, n) /\ InPlace(m, lMatch)
         \/ ~Refused(s, n) /\ InPlace(scored, IF ms.gs \in {"NONE", "PLAYING"}
                                                THEN NoteScore(lMatch, scored) ELSE lMatch)

-----------------------------------------------------------------------------
(* SetMatchID: a new match of one game that has come to the state of the id. *)
(* An offered double is stepped back; the fields that no record holds are    *)
(* set directly, then dice, cube and the old board get a record each.        *)

(* Mutant: the double is withdrawn but the turn is not given back.           *)
StepBackDoubleOnly(id) == [id EXCEPT !.fDoubled = FALSE]
StepBack(id) ==
  IF id.fDoubled THEN [id EXCEPT !.fDoubled = FALSE, !.fMove = 1 - id.fTurn, !.fTurn = 1 - id.fTurn]
  ELSE id

IDGame(m, id) ==
  LET info == Info(0, id.nMatchTo, id.anScore,
                   id.fCrawford /\ id.nMatchTo > 1 /\ \E p \in Player : id.anScore[p] = id.nMatchTo - 1,
                   id.fJacoby /\ id.nMatchTo = 0)
      begun == ApplyMoveRecord(m, info, info).ms
  IN  [ms |-> [begun EXCEPT !.gs = gamestate[id.gs + 1], !.fMove = id.fMove, !.fTurn = id.fTurn,
                            !.fResigned = id.fResigned, !.fJacoby = id.fJacoby],
       games |-> <<<<info>>>>, cur |-> 1, last |-> 1]

(* Each of the commands that SetMatchID gives may be refused.                *)
Given(s, wanted, r) == IF wanted THEN AddMoveRecord(s, r) ELSE s

LoadID(m, given) ==
  LET id == StepBack(MatchFromID(given))
      game == IDGame(m, id)
      rolled == Given(game, id.dice /\ game.ms.gs = "PLAYING", Rec("SETDICE", game.ms.fMove))
      owned == Given(rolled, id.owner # None, SetCubePos(0, id.owner))
      n == 2 ^ id.cube
      cubed == Given(owned, n # 1 /\ CheckCubeAllowed(owned.ms) /\ CubeValue(n),
                     SetCubeVal(owned.ms.fMove, n))
  IN  Given(cubed, m.gs = "PLAYING" /\ cubed.ms.gs = "PLAYING",
            SetBoard(cubed.ms.fMove, m.anBoard))

(* The record of the new game is asserted to have scores below the length    *)
(* of the match, which the id of a match that is over has not.               *)
SetMatchID(id) ==
  /\ Ready /\ LegalID(id)
  /\ id.nMatchTo > 0 => \A p \in Player : id.anScore[p] < id.nMatchTo
  /\ Become(LoadID(ms, id))
  /\ fCrawfordState' = -1
  /\ UNCHANGED fNextTurn

-----------------------------------------------------------------------------
(* One side has borne off, the other not, so that an exchange of the sides   *)
(* shows.                                                                    *)
Boards == {[s \in Player |-> IF s = p THEN Men ELSE 1] : p \in Player}
Scores == [n : {1, -2}, mark : {""}] \cup [n : {-1}, mark : {"crawford", "postcrawford"}]
(* Ids of this position, and of the same with the other player on roll.      *)
IDs == {MatchIDFromState(m) : m \in {ms, [ms EXCEPT !.fMove = Not(@), !.fTurn = Not(@)]}}

EditRecorded == \/ \E b \in Boards : CommandSetBoard(b)
                \/ \E owner \in {None} \cup Player : CommandSetCubeOwner(owner)
                \/ \E n \in {1, 4} : CommandSetCubeValue(n)
EditInPlace == \/ \E p \in Player : CommandSetTurn(p)
               \/ \E on \in BOOLEAN : CommandSetCrawford(on) \/ CommandSetPostCrawford(on)
               \/ CommandSetPostCrawford(BadToggle)
               \/ \E s \in [Player -> Scores] : CommandSetScore(s, ms.nMatchTo)
Load == \E id \in IDs : SetMatchID(id)

-----------------------------------------------------------------------------
(* A position whose match id is copied and loaded comes back.                *)
Shared(m) == <<m.gs, m.anBoard, m.fMove, m.fTurn, m.fCubeOwner, m.nCube, m.dice, m.nMatchTo,
               m.anScore, m.fCrawford, m.fPostCrawford>>
IDLoadsBack ==
  /\ ms.gs = "PLAYING" /\ ms.fResigned = 0 /\ ms.cBeavers = 0
  /\ ms.fCrawford => ms.nCube = 1
  =>
    LET undoubled == IF ms.fDoubled THEN [ms EXCEPT !.fTurn = ms.fMove] ELSE ms
        id == MatchIDFromState(ms)
    IN  LegalID(id) /\ Shared(LoadID(ms, id).ms) = Shared(undoubled)
=============================================================================
