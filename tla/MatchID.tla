------------------------------- MODULE MatchID -------------------------------
(* Match ids: matchid.c packs a match state into nine bytes, a number of     *)
(* bits for each field.  A field is the number in its bits; which byte they  *)
(* lie in and the letters that the bytes are shown as are left out, and dice *)
(* are rolled or not, as in Match.                                           *)
EXTENDS Match

(* log(n)/log(2).                                                            *)
LogCube(n) == CHOOSE k \in 0..15 : 2 ^ k <= n /\ n < 2 ^ (k + 1)

(* Two bits that are neither player's number stand for a centred cube.       *)
GetOwner(bits) == IF bits \in Player THEN bits ELSE None

gamestate == <<"NONE", "PLAYING", "OVER", "RESIGNED", "DROP">>

Bits(n, content) == content % 2 ^ n    \* SetBits: two's complement, cut off

MatchIDFromState(m) ==
  [cube |-> Bits(4, LogCube(m.nCube)), owner |-> Bits(2, m.fCubeOwner),
   fMove |-> Bits(1, m.fMove), fCrawford |-> m.fCrawford,
   gs |-> Bits(3, CHOOSE k \in 0..4 : gamestate[k + 1] = m.gs),
   fTurn |-> Bits(1, m.fTurn), fDoubled |-> m.fDoubled, fResigned |-> Bits(2, m.fResigned),
   dice |-> m.dice, nMatchTo |-> Bits(15, m.nMatchTo),
   anScore |-> [p \in Player |-> Bits(15, m.anScore[p])], fJacoby |-> m.fJacoby]

(* What is refused: a score beyond the length of the match and a Crawford    *)
(* game in a session.                                                        *)
LegalID(id) ==
  /\ id.nMatchTo <= MAXSCORE
  /\ IF id.nMatchTo > 0 THEN \A p \in Player : id.anScore[p] <= id.nMatchTo
     ELSE ~id.fCrawford

MatchFromID(id) == [id EXCEPT !.owner = GetOwner(@)]
=============================================================================
