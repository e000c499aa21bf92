----------------------------- MODULE BearoffRead -----------------------------
(* Using a bear-off database that was made before: bearoff.c.  Threads that  *)
(* evaluate positions read their records from one open file; ReadBearoffFile *)
(* holds the global lock from the seek to the end of the read.               *)
EXTENDS Bearoff

CONSTANTS Reader,       \* threads that evaluate
          Asked(_),     \* positions of a database they ask for, <<us, them>> or <<us>>
          MaxFailures   \* reads that may fail

VARIABLES
  pbc,       \* the context, once the file has been opened
  pfPos,     \* the position of the open file
  lock,      \* who holds multiLock
  pc, wants, offset, nBytes, index, answer,   \* of the threads
  failures

ASSUME ReaderAssumption == None \notin Reader
ASSUME AskedAssumption ==
  \A j \in Jobs : \A w \in Asked(j) :
    IF Two(j) THEN w \in (0 .. Count(j) - 1) \X (0 .. Count(j) - 1)
              ELSE \E k \in 0 .. Count(j) - 1 : w = <<k>>

file_vars == <<pbc, pfPos, lock, failures>>
readers == <<file_vars, pc, wants, offset, nBytes, index, answer>>
allvars == <<vars, readers>>

InitRead ==
  /\ Init
  /\ pbc = None /\ pfPos = 0 /\ lock = None /\ failures = 0
  /\ pc = [r \in Reader |-> "idle"] /\ wants = [r \in Reader |-> <<>>]
  /\ offset = [r \in Reader |-> 0] /\ nBytes = [r \in Reader |-> 0]
  /\ index = [r \in Reader |-> None] /\ answer = [r \in Reader |-> None]

(* The file begins with the header that says what it holds; without a header *)
(* it is an "Unknown bearoff database".                                      *)
BearoffInit ==
  /\ phase = "done" /\ pbc = None /\ job.kind # "heuristic" /\ job.fHeader
  /\ pbc' = [bt |-> IF Two(job) THEN "TS" ELSE "OS", nPoints |-> job.nPoints,
             nChequers |-> job.nChequers, fCubeful |-> job.fCubeful, fGammon |-> job.fGammon,
             fCompressed |-> job.fCompress]
  /\ UNCHANGED <<vars, pfPos, lock, failures, pc, wants, offset, nBytes, index, answer>>

Reading == <<vars, pbc, failures>>

Number == Combination(pbc.nPoints + pbc.nChequers, pbc.nPoints)
IndexSize == IF pbc.fGammon THEN 8 ELSE 6

(* Where the record begins, as an unsigned int, and how long it is.          *)
Place(w) ==
  LET size == IF pbc.bt = "TS" THEN IF pbc.fCubeful THEN 8 ELSE 2
              ELSE IF pbc.fCompressed THEN IndexSize
              ELSE IF pbc.fGammon THEN 128 ELSE 64
      iPos == IF pbc.bt = "TS" THEN w[1] * Number + w[2] ELSE w[1]
  IN  [from |-> (40 + iPos * size) % job.nWord, bytes |-> size]

(* Where the elements of compressed distributions are, the first of them so  *)
(* many from their beginning.                                                *)
SecondPlace(iOffset) == (40 + Number * IndexSize + 2 * iOffset) % job.nWord

(* ReadTwoSidedBearoff, GetDistUncompressed, GetDistCompressed.              *)
Ask(r, w) ==
  /\ pbc # None /\ pc[r] = "idle"
  /\ pc' = [pc EXCEPT ![r] = "lock"] /\ wants' = [wants EXCEPT ![r] = w]
  /\ offset' = [offset EXCEPT ![r] = Place(w).from]
  /\ nBytes' = [nBytes EXCEPT ![r] = Place(w).bytes]
  /\ UNCHANGED <<Reading, pfPos, lock, index, answer>>

(* Mutant: without the lock.                                                 *)
NoExclusive(r) ==
  /\ pc[r] = "lock"
  /\ pc' = [pc EXCEPT ![r] = "seek"]
  /\ UNCHANGED <<Reading, pfPos, lock, wants, offset, nBytes, index, answer>>

MT_Exclusive(r) ==
  /\ pc[r] = "lock" /\ lock = None
  /\ lock' = r /\ pc' = [pc EXCEPT ![r] = "seek"]
  /\ UNCHANGED <<Reading, pfPos, wants, offset, nBytes, index, answer>>

Seek(r) ==
  /\ pc[r] = "seek"
  /\ pfPos' = offset[r] /\ pc' = [pc EXCEPT ![r] = "read"]
  /\ UNCHANGED <<Reading, lock, wants, offset, nBytes, index, answer>>

(* What the file holds there: a record, elements of distributions, or bytes  *)
(* that are neither.                                                         *)
Contents(from, bytes) ==
  LET behind == 40 + RecordSize(job) * Len(output)
      first == (from - behind) \div 2
  IN  IF from < behind
        THEN IF from + bytes <= behind /\ bytes = RecordSize(job)
               THEN ReadAt(output, 40, from, bytes) ELSE Garbled
      ELSE IF bytes = 0 \/ (from - behind) % 2 # 0 \/ first + bytes \div 2 > Len(tmp) THEN Garbled
      ELSE Decode(SubSeq(tmp, first + 1, first + bytes \div 2))

(* Of a compressed record the index has been read.  One that is garbled      *)
(* leads to an answer that is, or to the assertion that it makes sense.      *)
FirstOfTwo(r) == pbc.fCompressed /\ pbc.bt = "OS" /\ index[r] = None

Got(r, data) ==
  IF FirstOfTwo(r) /\ data # Garbled
    THEN index' = [index EXCEPT ![r] = data] /\ UNCHANGED answer
    ELSE answer' = [answer EXCEPT ![r] = data] /\ UNCHANGED index

Read(r) ==
  /\ pc[r] = "read" /\ Got(r, Contents(pfPos, nBytes[r]))
  /\ pfPos' = pfPos + nBytes[r]
  /\ pc' = [pc EXCEPT ![r] = "release"]
  /\ UNCHANGED <<Reading, lock, wants, offset, nBytes>>

(* The second part of reading a compressed record.                           *)
Continue(r) ==
  IF answer[r] # None THEN UNCHANGED <<offset, nBytes>> /\ pc' = [pc EXCEPT ![r] = "answer"]
  ELSE /\ pc' = [pc EXCEPT ![r] = "lock"]
       /\ offset' = [offset EXCEPT ![r] = SecondPlace(index[r].of.offset)]
       /\ nBytes' = [nBytes EXCEPT ![r] = 2 * index[r].of.count]

(* Mutant: the lock is kept for the second part.                             *)
ReleaseLate(r) ==
  /\ pc[r] = "release"
  /\ lock' = (IF answer[r] = None THEN lock ELSE None)
  /\ Continue(r)
  /\ UNCHANGED <<Reading, pfPos, wants, index, answer>>

MT_Release(r) ==
  /\ pc[r] = "release" /\ lock' = None
  /\ Continue(r)
  /\ UNCHANGED <<Reading, pfPos, wants, index, answer>>

(* A read that fails leaves zeros, and leaves the lock.                      *)
ReadFails(r) ==
  /\ pc[r] \in {"seek", "read"} /\ failures < MaxFailures /\ failures' = failures + 1
  /\ Got(r, IF FirstOfTwo(r) THEN Found([offset |-> 0, count |-> 0]) ELSE Garbled)
  /\ pc' = [pc EXCEPT ![r] = IF FirstOfTwo(r) THEN "lock" ELSE "answer"]
  /\ IF FirstOfTwo(r)
       THEN /\ offset' = [offset EXCEPT ![r] = SecondPlace(0)]
            /\ nBytes' = [nBytes EXCEPT ![r] = 0]
       ELSE UNCHANGED <<offset, nBytes>>
  /\ UNCHANGED <<vars, pbc, pfPos, lock, wants>>

(* The record is used, and the next position is evaluated.                   *)
Answered(r) ==
  /\ pc[r] = "answer"
  /\ pc' = [pc EXCEPT ![r] = "idle"] /\ wants' = [wants EXCEPT ![r] = <<>>]
  /\ index' = [index EXCEPT ![r] = None] /\ answer' = [answer EXCEPT ![r] = None]
  /\ UNCHANGED <<Reading, pfPos, lock, offset, nBytes>>

ReaderStep(r) == MT_Exclusive(r) \/ Seek(r) \/ Read(r) \/ MT_Release(r) \/ Answered(r)

Next == \/ Generate /\ UNCHANGED readers
        \/ BearoffInit
        \/ \E r \in Reader : ReaderStep(r) \/ ReadFails(r) \/ \E w \in Asked(job) : Ask(r, w)

Spec == InitRead /\ [][Next]_allvars

(* The program that makes the database runs; threads that evaluate run, and  *)
(* the lock is not withheld from one of them for ever.                       *)
FairSpec == /\ Spec /\ WF_allvars(Generate /\ UNCHANGED readers)
            /\ \A r \in Reader : WF_allvars(ReaderStep(r)) /\ SF_allvars(MT_Exclusive(r))

-----------------------------------------------------------------------------
(* A record that is looked up while a database is made is that of the        *)
(* position wanted, from the hash table as from the file, "so far" as it has *)
(* been generated; only where OSLookup skips a header that was not written,  *)
(* or an offset has overflowed, is it another one.                           *)
LookupRight ==
  got # None /\ Fits => got.of = Found(got.want) \/ (job.kind = "one" /\ ~job.fHeader)

(* The assertions of BearOff, BearOff2 and GenerateBearoff: a roll has a     *)
(* move, and every move leads to a position with a smaller number; the       *)
(* heuristic move is one of those of the rules; and the number of a position *)
(* gives it back.                                                            *)
Descend == (phase = "making" /\ roll # <<0, 0>>) => Compared(roll) \subseteq 0 .. Us - 1
NumberReturns ==
  phase = "making" =>
    PositionBearoff(Side1(Size(job), Us), job.nPoints, job.nChequers) = Us
MovesDescend ==
  /\ Descend /\ NumberReturns
  /\ (phase = "making" /\ roll # <<0, 0>>) =>
       LET j == Compared(roll)
       IN  j # {} /\ j \subseteq Legal(roll)

(* Making a database ends, and fails only with a table of no elements, with  *)
(* no header to skip, with records shorter than what TSLookup reads, or with *)
(* offsets or keys that overflow.                                            *)
KnownToStop == \/ ~Fits
               \/ job.nHash = 0
               \/ job.kind = "one" /\ ~job.fHeader
               \/ Two(job) /\ ~job.fCubeful
GenerationEnds == phase = "making" ~> phase = "done" \/ (phase = "stopped" /\ KnownToStop)

(* Whatever the others read from the same file, a thread gets the record of  *)
(* the position it evaluates, at the place where the other program put it,   *)
(* if neither of them has had an offset overflow.                            *)
ReadsRight ==
  \A r \in Reader : pc[r] = "answer" /\ failures = 0 /\ Fits =>
    answer[r] = Found(IF Two(job) THEN wants[r] ELSE wants[r][1])

(* A thread that evaluates gets an answer, one whose own read has failed as  *)
(* well: only the lock that a read that failed has kept makes a thread wait  *)
(* for ever.                                                                 *)
ReadersServed ==
  \A r \in Reader :
    pc[r] # "idle" ~> (pc[r] = "idle" \/ (failures > 0 /\ pc[r] = "lock" /\ lock # None))
=============================================================================
