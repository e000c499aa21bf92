------------------------------ MODULE MCBearoff ------------------------------
EXTENDS BearoffRead

(* Any numbers will do: the longer a man has to go, the more there are.      *)
MCNonZero(id, g) == IF id = 0 THEN 1 ELSE 1 + ((id + g) % 3)

OneSided(nPoints, nHash, header, compress, gammon) ==
  [kind |-> "one", nPoints |-> nPoints, nChequers |-> 15, nHash |-> nHash, fHeader |-> header,
   fCompress |-> compress, fGammon |-> gammon, fCubeful |-> FALSE, nWord |-> 4096]
TwoSided(nPoints, nChequers, nHash, cubeful) ==
  [kind |-> "two", nPoints |-> nPoints, nChequers |-> nChequers, nHash |-> nHash, fHeader |-> TRUE,
   fCompress |-> FALSE, fGammon |-> FALSE, fCubeful |-> cubeful, nWord |-> 4096]
Overflowing(j, nWord) == [j EXCEPT !.nWord = nWord]

(* Of the last four the file or the keys are longer than an unsigned int     *)
(* counts, or an int, as a one-sided file of 13 points is.                   *)
MCJobs ==
  {OneSided(1, 1, header, c, g) : header \in BOOLEAN, c \in BOOLEAN, g \in BOOLEAN}
    \cup {OneSided(1, 5, TRUE, c, TRUE) : c \in BOOLEAN}
    \cup {OneSided(2, 40, TRUE, TRUE, TRUE), OneSided(1, 0, TRUE, TRUE, TRUE)}
    \cup {TwoSided(2, 2, h, c) : h \in {1, 7, 40}, c \in BOOLEAN}
    \cup {TwoSided(1, 3, 2, TRUE), TwoSided(3, 2, 30, TRUE)}
    \cup {[kind |-> "heuristic", nPoints |-> 6, nChequers |-> 4, nHash |-> 0, fHeader |-> FALSE,
           fCompress |-> FALSE, fGammon |-> FALSE, fCubeful |-> FALSE, nWord |-> 4096]}
    \cup {Overflowing(OneSided(1, 3, TRUE, FALSE, TRUE), 1024),
          Overflowing(OneSided(1, 1, TRUE, TRUE, TRUE), 128),
          Overflowing(TwoSided(2, 2, 30, TRUE), 256), Overflowing(TwoSided(2, 2, 40, FALSE), 64)}

(* Positions near both ends of a database.                                   *)
MCAsked(j) ==
  LET last == Count(j) - 1
  IN  IF Two(j) THEN {<<1, last>>, <<last, 1>>, <<last, last>>} ELSE {<<1>>, <<last>>}
=============================================================================
