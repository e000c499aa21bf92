------------------------------- MODULE Bearoff -------------------------------
(* Making a bear-off database: makebearoff.c, and the heuristic database that*)
(* bearoff.c makes in memory.  The positions are numbered, and the record of *)
(* a position is computed from those of the positions its moves lead to;     *)
(* they are looked up in a hash table of the records used last, and if they  *)
(* have left it in the file written so far.                                  *)
(*                                                                           *)
(* A record is modelled by the position it is for: the number of a one-sided *)
(* position, <<us, them>> for a two-sided one.                               *)
EXTENDS Moves

CONSTANTS Jobs,           \* what the program is asked to make
          NonZero(_, _)   \* elements of a distribution (0: all men off, 1: gammon) that are not zero

VARIABLES
  job,     \* the database being made
  at,      \* the loops: i, j and whether the second half of the square is reached
  roll,    \* anRoll, <<0, 0>> before the first
  todo,    \* the numbers of the positions of ml that are still to be compared
  hash,    \* phe: what each element of the hash table holds
  file,    \* pfTmp, or output if the records are written there
  tmp,     \* the elements of the distributions that are kept, if compressed
  npos,    \* where the next of them goes
  got,     \* the last lookup
  output,  \* the finished file without its header
  phase    \* "making", "written", "done", "stopped" by an error

vars == <<job, at, roll, todo, hash, file, tmp, npos, got, output, phase>>

Flag(b) == IF b THEN 1 ELSE 0
None == [none |-> TRUE]

(* What a read yields: a record, bytes that straddle records, an error.      *)
Found(record) == [rc |-> "found", of |-> record]
Garbled == [rc |-> "garbled"]
Exit == [rc |-> "exit"]

-----------------------------------------------------------------------------
(* The heuristic database: one plausible move for each roll.  The points are *)
(* numbered from 1 here, and a side is a tuple of the men on them.           *)

Dice(r) == IF r[1] = r[2] THEN <<r[1], r[1], r[1], r[1]>> ELSE r

(* nMax; the lowest point if there are no men.                               *)
Highest(side) == MaxOf({1} \cup {p \in 1 .. 6 : side[p] > 0})

(* The first of those points that has the most men; of those that have as    *)
(* many, the one that moves to the fewest men.                               *)
Fullest(side, die, points) ==
  LET better(p, q) == \/ side[p] > side[q]
                      \/ side[p] = side[q] /\ side[p - die] < side[q - die]
  IN  CHOOSE p \in points : \A q \in points :
         ~better(q, p) /\ (better(p, q) \/ p <= q)

(* The first of those points that has the most men.                          *)
FirstFullest(side, points) ==
  CHOOSE p \in points : \A q \in points : side[q] < side[p] \/ (side[q] = side[p] /\ p <= q)

(* Mutant: the lowest man is borne off with a number that is too large.      *)
PointToPlayLowest(side, dice, i) ==
  LET die == dice[i]
      lowest == CHOOSE p \in 1 .. 6 : side[p] > 0 /\ \A q \in 1 .. p - 1 : side[q] = 0
  IN  IF side[die] > 0 THEN die ELSE IF die > Highest(side) THEN lowest
      ELSE Fullest(side, die, die + 1 .. Highest(side))

(* Bear off exactly; or the highest man; or prepare to bear off with the     *)
(* other dice; or fill a gap from a point that has two men; or else move     *)
(* from the point with the most men.                                         *)
PointToPlay(side, dice, i) ==
  LET die == dice[i]
      top == Highest(side)
      sum[j \in i .. Len(dice)] == IF j = i THEN die ELSE sum[j - 1] + dice[j]
      later == {j \in i + 1 .. Len(dice) : sum[j] <= 6 /\ side[sum[j]] > 0}
      gaps == {p \in die + 1 .. top : side[p] >= 2 /\ side[p - die] = 0}
  IN  IF side[die] > 0 THEN die
      ELSE IF die > top THEN top
      ELSE IF later # {} THEN sum[CHOOSE j \in later : \A k \in later : j <= k]
      ELSE IF gaps # {} THEN FirstFullest(side, gaps)
      ELSE Fullest(side, die, die + 1 .. top)

HeuristicBearoff(side, r) ==
  LET dice == Dice(r)
      played[i \in 0 .. Len(dice)] ==
        IF i = 0 THEN side
        ELSE LET before == played[i - 1]
                 p == PointToPlay(before, dice, i)
                 lifted == [before EXCEPT ![p] = @ - 1]
             IN  IF before[Highest(before)] = 0 THEN before
                 ELSE IF p > dice[i] THEN [lifted EXCEPT ![p - dice[i]] = @ + 1] ELSE lifted
  IN  played[Len(dice)]

-----------------------------------------------------------------------------
(* The positions of the database, and where the moves of a roll lead.        *)

Ordinal(r) == (r[1] * (r[1] - 1)) \div 2 + r[2]
Nth(k) == CHOOSE r \in (1 .. 6) \X (1 .. 6) : r[2] <= r[1] /\ Ordinal(r) = k
Two(j) == j.kind = "two"
Count(j) == Combination(j.nPoints + j.nChequers, IF Two(j) THEN j.nChequers ELSE j.nPoints)
nPos == Count(job)

(* The sizes are those that the table of combinations is made for, on the    *)
(* points of a board, with at most the men of a side (11 of a two-sided      *)
(* database); a table of records may have none, as the heuristic database    *)
(* has none, and a distribution has an element.  nWord is the number of      *)
(* values of an unsigned int: 2^32, or less, so that the offsets and keys of *)
(* a small database overflow as those of a large one do.                     *)
ASSUME JobsAssumption ==
  \A j \in Jobs : /\ j.kind \in {"one", "two", "heuristic"}
                  /\ j.kind = "heuristic" => j.nHash = 0 /\ j.nPoints = 6
                  /\ j.nPoints \in Nat \ {0} /\ j.nChequers \in Nat \ {0}
                  /\ j.nPoints <= Bar /\ j.nChequers <= AllMen
                  /\ j.nPoints + j.nChequers <= MAX_N /\ j.nHash \in Nat
                  /\ j.nWord \in Nat \ {0} /\ j.nWord % 8 = 0
                  /\ {j.fHeader, j.fCompress, j.fGammon, j.fCubeful} \subseteq BOOLEAN
ASSUME NonZeroAssumption ==
  \A j \in Jobs : j.kind = "one" =>
    \A id \in 0 .. Count(j) - 1 : NonZero(id, 0) \in Nat \ {0} /\ NonZero(id, 1) \in Nat

Pad(side, nPoints) == [p \in Point |-> IF p < nPoints THEN side[p] ELSE 0]
NoMen == [p \in Point |-> 0]
Side1(size, id) == Pad(PositionFromBearoff(id, size[1], size[2]), size[1])

(* The numbers of the positions after GenerateMoves, for each size, position *)
(* that is computed and roll.  (SubSeq makes a tuple of the function, which  *)
(* TLC computes once.)                                                       *)
Size(j) == <<j.nPoints, j.nChequers, Two(j)>>
AllMoves(size) ==
  LET ids == Combination(size[1] + size[2], size[1]) - 1
      others == IF size[3] THEN ids ELSE 1
      sides == SubSeq([id \in 1 .. ids |-> Side1(size, id)], 1, ids)
      After(us, them, r) ==
        {PositionBearoff(PositionFromKey(m.key)[1], size[1], size[2]) :
           m \in GenerateMoves([s \in Side |-> IF s = 1 THEN sides[us]
                                               ELSE IF size[3] THEN sides[them] ELSE NoMen],
                               r[1], r[2], FALSE)}
  IN  SubSeq([us \in 1 .. ids |->
        SubSeq([them \in 1 .. others |->
          SubSeq([k \in 1 .. 21 |-> After(us, them, Nth(k))], 1, 21)], 1, others)], 1, ids)
Moved == {[size |-> size, to |-> AllMoves(size)] : size \in {Size(j) : j \in Jobs}}

Us == IF ~Two(job) THEN at.i ELSE IF at.below THEN at.i + nPos - at.j ELSE at.i - at.j
Them == IF Two(job) THEN at.j ELSE 0

Legal(r) == (CHOOSE m \in Moved : m.size = Size(job)).to[Us][IF Two(job) THEN Them ELSE 1][Ordinal(r)]

(* What BearOff and BearOff2 look at for a roll is every legal move, what    *)
(* GenerateBearoff looks at is the heuristic one.                            *)
HeuristicMove(nChequers, us, r) ==
  LET side == PositionFromBearoff(us, 6, nChequers)
      after == HeuristicBearoff(<<side[0], side[1], side[2], side[3], side[4], side[5]>>, r)
  IN  {PositionBearoff([p \in 0 .. 5 |-> after[p + 1]], 6, nChequers)}
Heuristic ==
  {[nChequers |-> c,
    to |-> LET ids == Combination(6 + c, 6) - 1
           IN  SubSeq([us \in 1 .. ids |->
                 SubSeq([k \in 1 .. 21 |-> HeuristicMove(c, us, Nth(k))], 1, 21)], 1, ids)]
      : c \in {j.nChequers : j \in {k \in Jobs : k.kind = "heuristic"}}}

Compared(r) ==
  IF job.kind = "heuristic"
    THEN (CHOOSE m \in Heuristic : m.nChequers = job.nChequers).to[Us][Ordinal(r)]
    ELSE Legal(r)

(* The order in which the square of two-sided positions is computed: by      *)
(* diagonals.                                                                *)
CalcPosition(i, j, size) ==
  IF i + j < size THEN ((i + j) * (i + j + 1)) \div 2 + j
  ELSE LET k == size - 1
       IN  size * size - (((2 * k - i - j) * (2 * k - i - j + 1)) \div 2 + k - j) - 1

(* The loops of generate_os and generate_ts; the last position has no next.  *)
First == [i |-> 0, j |-> 0, below |-> FALSE]
Last == IF Two(job) THEN [i |-> nPos - 2, j |-> nPos - 1, below |-> TRUE]
                    ELSE [First EXCEPT !.i = nPos - 1]
NextPosition ==
  IF ~Two(job) THEN [at EXCEPT !.i = @ + 1]
  ELSE IF at.j < (IF at.below THEN nPos - 1 ELSE at.i) THEN [at EXCEPT !.j = @ + 1]
  ELSE IF at.below THEN [at EXCEPT !.i = @ + 1, !.j = at.i + 2]
  ELSE IF at.i < nPos - 1 THEN [at EXCEPT !.i = @ + 1, !.j = 0]
  ELSE [i |-> 0, j |-> 1, below |-> TRUE]

-----------------------------------------------------------------------------
(* The hash table.  The key is computed as an int, and taken modulo the size *)
(* of the table as one: of a key that overflows the index is negative, and   *)
(* what is before the table is neither found nor entered.                    *)
Half == job.nWord \div 2
Signed(x) == ((x + Half) % job.nWord) - Half

XhashPosition(key) == key % job.nHash

(* Mutant: the key is not compared.                                          *)
XhashLookupAny(key) == IF key >= Half THEN None ELSE hash[XhashPosition(key)]

XhashLookup(key) ==
  IF key >= Half THEN None
  ELSE LET e == hash[XhashPosition(key)]
       IN  IF e # None /\ e.key = key THEN e ELSE None

XhashAdd(key, record) ==
  hash' = IF key >= Half THEN hash
          ELSE [hash EXCEPT ![XhashPosition(key)] = [key |-> key, of |-> record]]

-----------------------------------------------------------------------------
(* The file written so far.                                                  *)

RecordSize(j) ==
  IF Two(j) THEN IF j.fCubeful THEN 8 ELSE 2
  ELSE IF j.fCompress THEN IF j.fGammon THEN 8 ELSE 6
  ELSE IF j.fGammon THEN 128 ELSE 64

(* So many bytes from there, after a header of so many.                      *)
ReadAt(records, header, seek, nBytes) ==
  LET size == RecordSize(job)
  IN  IF seek < 0 \/ seek + nBytes > header + size * Len(records) THEN Exit
      ELSE IF seek < header \/ (seek - header) % size # 0 THEN Garbled
      ELSE Found(records[(seek - header) \div size + 1])

(* The elements that WriteOS keeps of a position's distributions.            *)
Elements(j, id) ==
  LET win == NonZero(id, 0)
  IN  [k \in 1 .. win + (IF j.fGammon THEN NonZero(id, 1) ELSE 0) |-> <<id, k>>]

(* What they are the distributions of, when they are put back.               *)
Decode(units) ==
  LET id == units[1][1]
  IN  IF units # <<>> /\ units = Elements(job, id) THEN Found(id) ELSE Garbled

OSHeader == 40 * Flag(job.fHeader)

(* The offsets of the one-sided file are computed as an unsigned int.        *)
RowSeek(iPos) == (40 + iPos * RecordSize(job)) % job.nWord

(* Mutant: as many elements are read as there can be.                        *)
OSLookupLong(iPos) ==
  LET e == ReadAt(file, OSHeader, RowSeek(iPos), RecordSize(job))
  IN  IF ~job.fCompress \/ e = Exit THEN {e}
      ELSE IF e = Garbled THEN {Garbled, Exit}
      ELSE IF e.of.offset + 64 > Len(tmp) THEN {Exit}
      ELSE {Decode(SubSeq(tmp, e.of.offset + 1, e.of.offset + e.of.count))}

(* OSLookup seeks behind a header whether there is one or not.  An index     *)
(* that is garbled leads anywhere, and its offset is taken as an int.        *)
OSLookup(iPos) ==
  LET e == ReadAt(file, OSHeader, RowSeek(iPos), RecordSize(job))
  IN  IF ~job.fCompress \/ e = Exit THEN {e}
      ELSE IF e = Garbled THEN {Garbled, Exit}
      ELSE IF Signed(e.of.offset) < 0 \/ e.of.offset + e.of.count > Len(tmp) THEN {Exit}
      ELSE {Decode(SubSeq(tmp, e.of.offset + 1, e.of.offset + e.of.count))}

(* TSLookup reads eight bytes, of a record that may have two.  The position  *)
(* and the offset are computed as an int: what comes of an overflow is not   *)
(* defined.                                                                  *)
TSLookup(nUs, nThem) ==
  LET seek == CalcPosition(nUs, nThem, nPos) * RecordSize(job)
  IN  {ReadAt(file, 0, seek, 8)} \cup
      (IF seek < Half /\ nPos * nPos < Half THEN {} ELSE {ReadAt(file, 0, Signed(seek), 8), Garbled})

(* The offsets and keys of the database do not overflow.                     *)
Fits ==
  IF Two(job) THEN 40 + nPos * nPos * RecordSize(job) <= Half
  ELSE 40 + nPos * RecordSize(job) + 2 * Len(tmp) <= job.nWord

(* The heuristic database is an array.                                       *)
InMemory(id) == {IF id < Len(file) THEN Found(file[id + 1]) ELSE Garbled}

-----------------------------------------------------------------------------
Init ==
  /\ job \in Jobs /\ at = First /\ roll = <<0, 0>> /\ todo = {}
  /\ hash = [k \in 0 .. job.nHash - 1 |-> None]
  /\ file = <<>> /\ tmp = <<>> /\ npos = 0 /\ got = None /\ output = <<>>
  /\ phase = "making"

(* No roll is looked at of a position in which a side has no men.            *)
Over == Us = 0 \/ (Two(job) /\ Them = 0)
NextRoll == IF roll[2] < roll[1] THEN <<roll[1], roll[2] + 1>> ELSE <<roll[1] + 1, 1>>

(* GenerateMoves, or the heuristic move.                                     *)
Roll ==
  /\ phase = "making" /\ ~Over /\ todo = {} /\ roll # <<6, 6>>
  /\ roll' = NextRoll /\ todo' = Compared(NextRoll) /\ got' = None
  /\ UNCHANGED <<job, at, hash, file, tmp, npos, output, phase>>

(* The record of the position that one of the moves leads to.                *)
Wanted(j) == IF Two(job) THEN <<Them, j>> ELSE j
KeyOf(j) == IF Two(job) THEN nPos * Them + j ELSE j
NoLookup(j) == job.kind = "one" /\ j = 0

Looked(j, record) ==
  /\ got' = [want |-> Wanted(j), of |-> record] /\ todo' = todo \ {j}
  /\ UNCHANGED <<job, at, roll, file, tmp, npos, output, phase>>

Stop == /\ phase' = "stopped"
        /\ UNCHANGED <<job, at, roll, todo, hash, file, tmp, npos, got, output>>

LookupKnown(j) ==
  /\ phase = "making" /\ j \in todo
  /\ NoLookup(j) \/ job.kind = "heuristic"
  /\ \E record \in IF NoLookup(j) THEN {Found(j)} ELSE InMemory(j) : Looked(j, record)
  /\ UNCHANGED hash

LookupHit(j) ==
  /\ phase = "making" /\ j \in todo /\ ~NoLookup(j)
  /\ job.nHash > 0 /\ XhashLookup(KeyOf(j)) # None
  /\ Looked(j, XhashLookup(KeyOf(j)).of)
  /\ UNCHANGED hash

LookupMiss(j) ==
  /\ phase = "making" /\ j \in todo /\ ~NoLookup(j)
  /\ job.nHash > 0 /\ XhashLookup(KeyOf(j)) = None
  /\ \E record \in (IF Two(job) THEN TSLookup(Them, j) ELSE OSLookup(j))
                      \cup (IF KeyOf(j) >= Half THEN {Exit} ELSE {}) :
       IF record = Exit THEN Stop ELSE Looked(j, record) /\ XhashAdd(KeyOf(j), record)

-----------------------------------------------------------------------------
(* The record is written and put into the hash table.                        *)
Record == IF Two(job) THEN <<Us, Them>> ELSE Us

WriteIndex ==
  /\ file' = Append(file, [offset |-> npos % job.nWord, count |-> Len(Elements(job, Us))])
  /\ npos' = npos + Len(Elements(job, Us))

WriteRecord ==
  IF job.kind = "one" /\ job.fCompress
    THEN tmp' = tmp \o Elements(job, Us) /\ WriteIndex
    ELSE file' = Append(file, Record) /\ UNCHANGED <<tmp, npos>>

Ready == Over \/ (roll = <<6, 6>> /\ todo = {})
WriteKey == IF Two(job) THEN Us * nPos + Them ELSE Us

Write ==
  /\ phase = "making" /\ Ready
  /\ WriteRecord
  /\ UNCHANGED <<job, todo, output>>
  /\ roll' = <<0, 0>> /\ got' = None
  /\ IF job.kind = "heuristic" THEN UNCHANGED hash
     ELSE job.nHash > 0 /\ XhashAdd(WriteKey, Found(Record))
  /\ IF at = Last THEN phase' = "written" /\ UNCHANGED at
                  ELSE at' = NextPosition /\ UNCHANGED phase

(* Outside of the table: of a table without elements the index is the        *)
(* remainder of a division by zero.                                          *)
BadIndex ==
  /\ phase = "making" /\ job.kind # "heuristic"
  /\ job.nHash = 0 \/ (Ready /\ WriteKey >= Half)
  /\ Stop

(* The two-sided file is sorted by the position of the player on roll, from  *)
(* offsets that are computed as an unsigned int; the elements of compressed  *)
(* distributions are put behind the index.  The hash table is given back.    *)
SortedFrom(k) ==
  LET size == RecordSize(job)
  IN  ((size * CalcPosition((k - 1) \div nPos, (k - 1) % nPos, nPos)) % job.nWord) \div size + 1

Finish ==
  /\ phase = "written" /\ phase' = "done"
  /\ output' = IF Two(job) THEN [k \in 1 .. nPos * nPos |-> file[SortedFrom(k)]] ELSE file
  /\ hash' = <<>> /\ file' = <<>>
  /\ UNCHANGED <<job, at, roll, todo, tmp, npos, got>>

Generate == Roll \/ Write \/ Finish \/ BadIndex
              \/ \E j \in todo : LookupKnown(j) \/ LookupHit(j) \/ LookupMiss(j)
=============================================================================
