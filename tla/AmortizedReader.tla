--------------------------- MODULE AmortizedReader --------------------------
(***************************************************************************)
(* AmortizedIStreamReader: small reads from the body of a response served  *)
(* out of large ones, through a buffer that is filled, compacted or        *)
(* reallocated.  A byte of the body is its number, from 1; a byte of the   *)
(* buffer that no read has filled is 0.                                    *)
(*                                                                         *)
(* The raw stream is Poco's: read() takes what there is, and sets eofbit   *)
(* and failbit when that is less than asked for; a connection that breaks  *)
(* makes the stream buffer throw inside read(), which sets badbit, leaves  *)
(* gcount() 0 and loses what that read had taken.                          *)
(***************************************************************************)
EXTENDS Integers, Sequences

CONSTANTS
  MaxBody,     \* bound on the bytes of a response body
  MaxCount,    \* bound on the bytes of one read
  MinReadSize, \* min_read_size
  MaxSlack,    \* bound on what an allocation adds to what was asked for
  MaxIndex     \* the largest std::size_t

ASSUME MaxBodyAssumption == MaxBody \in Nat
ASSUME MaxCountAssumption == MaxCount \in Nat \ {0}
ASSUME MinReadSizeAssumption == MinReadSize \in Nat \ {0}
ASSUME MaxSlackAssumption == MaxSlack \in Nat
ASSUME MaxIndexAssumption ==
  MaxIndex \in Nat /\ MaxCount + MinReadSize + MaxSlack <= MaxIndex

VARIABLES
  body,      \* the bytes of the body that arrive
  breaks,    \* the connection breaks after them
  taken,     \* the bytes read from the raw stream
  bad,       \* raw_stream_.eof() || raw_stream_.fail()
  buffer_,
  offset_,
  capacity,  \* buffer_.capacity()
  given,     \* the bytes handed out so far
  out,       \* the bytes handed out by the last call
  asked,     \* the bytes the last call asked for
  phase,     \* "open", in the destructor, or "closed"; past it, undefined
  i,         \* the destructor's loop variable
  returned   \* what the last call returned

streamVars == <<body, breaks, taken, bad>>
bufferVars == <<buffer_, offset_, capacity>>
callVars == <<given, out, asked, returned>>
vars == <<streamVars, bufferVars, callVars, phase, i>>

TypeOK ==
  /\ body \in Nat
  /\ breaks \in BOOLEAN
  /\ taken \in Nat
  /\ bad \in BOOLEAN
  /\ buffer_ \in Seq(Nat)
  /\ offset_ \in Nat
  /\ capacity \in Nat
  /\ given \in Nat
  /\ out \in Seq(Nat)
  /\ asked \in Nat
  /\ phase \in {"open", "putback", "overrun", "closed"}
  /\ i \in 0..MaxIndex
  /\ returned \in {"none", "data", "incomplete", "more", "eof"}

Init ==
  /\ body = 0
  /\ breaks = FALSE
  /\ taken = 0
  /\ bad = FALSE
  /\ buffer_ = <<>>
  /\ offset_ = 0
  /\ capacity = 0
  /\ given = 0
  /\ out = <<>>
  /\ asked = 0
  /\ phase = "closed"
  /\ i = 0
  /\ returned = "none"

-----------------------------------------------------------------------------
(* tryPrepare().                                                           *)

\* available()
Available == IF offset_ < Len(buffer_) THEN Len(buffer_) - offset_ ELSE 0

ToRead(count) ==
  IF count - Available > MinReadSize THEN count - Available ELSE MinReadSize

\* raw_stream_.read(n): the bytes it yields, and whether it fails.
Arrives(n) ==
  IF bad \/ (breaks /\ taken + n > body) THEN 0
  ELSE IF taken + n > body THEN body - taken ELSE n

Fails(n) == bad \/ taken + n > body

Unfilled(n) == [k \in 1..n |-> 0]

\* The tail of the buffer takes what is to be read.
Fits(count) == capacity - Len(buffer_) >= ToRead(count)

\* Where tryPrepare() leaves offset_: compacting and reallocating move the
\* available bytes to the front.
PreparedOffset(count) == IF Fits(count) THEN offset_ ELSE 0

\* The buffer, grown by the bytes to be read.
Grown_KeepPrefix(count) ==
  IF Fits(count)
  THEN buffer_ \o Unfilled(ToRead(count))
  ELSE SubSeq(buffer_, 1, Available) \o Unfilled(ToRead(count))

Grown(count) ==
  IF Fits(count)
  THEN buffer_ \o Unfilled(ToRead(count))
  ELSE SubSeq(buffer_, offset_ + 1, offset_ + Available) \o Unfilled(ToRead(count))

\* The buffer with n bytes read into it after the available ones, and cut to
\* the bytes that came.
Filled(count, n) ==
  LET at == PreparedOffset(count) + Available
      grown == Grown(count)
  IN  [k \in 1..(Len(grown) - (ToRead(count) - n)) |->
         IF k \in (at + 1)..(at + n) THEN taken + k - at ELSE grown[k]]

\* Reallocation is unavoidable when compacting does not make room; it yields
\* what is needed and maybe more.
RoomFor_AlwaysGrow(count, slack) ==
  IF Fits(count) THEN capacity ELSE capacity + Available + ToRead(count) + slack

RoomFor(count, slack) ==
  IF capacity - Len(buffer_) + offset_ >= ToRead(count)
  THEN capacity
  ELSE Available + ToRead(count) + slack

\* tryPrepare(count), except for offset_, which its callers move on.
TryPrepare(count) ==
  IF Available >= count
  THEN UNCHANGED <<buffer_, capacity, taken, bad>>
  ELSE /\ buffer_' = Filled(count, Arrives(ToRead(count)))
       /\ \E slack \in 0..MaxSlack : capacity' = RoomFor(count, slack)
       /\ taken' = taken + Arrives(ToRead(count))
       /\ bad' = Fails(ToRead(count))

OffsetAfter(count) == IF Available >= count THEN offset_ ELSE PreparedOffset(count)

\* available() >= count, after tryPrepare(count).
Enough_OneMore(count) == Len(buffer_') - OffsetAfter(count) > count

Enough(count) == Len(buffer_') - OffsetAfter(count) >= count

-----------------------------------------------------------------------------
(* The operations.                                                         *)

\* A reader over the body of another response; where the destructor ran past
\* the buffer the process does not last, and another one opens it.
Open(n, broken) ==
  /\ phase \in {"closed", "overrun"}
  /\ body' = n
  /\ breaks' = broken
  /\ taken' = 0
  /\ bad' = FALSE
  /\ buffer_' = <<>>
  /\ offset_' = 0
  /\ capacity' = 0
  /\ given' = 0
  /\ out' = <<>>
  /\ asked' = 0
  /\ phase' = "open"
  /\ i' = 0
  /\ returned' = "none"

Eof_RawOnly ==
  /\ phase = "open"
  /\ out' = <<>>
  /\ asked' = 1
  /\ IF bad
     THEN returned' = "eof" /\ UNCHANGED <<taken, bad, bufferVars>>
     ELSE /\ TryPrepare(1)
          /\ offset_' = OffsetAfter(1)
          /\ returned' = IF bad' THEN "eof" ELSE "more"
  /\ UNCHANGED <<body, breaks, given, phase, i>>

\* eof()
Eof ==
  /\ phase = "open"
  /\ out' = <<>>
  /\ asked' = 1
  /\ IF Available > 0 \/ bad
     THEN /\ returned' = IF Available > 0 THEN "more" ELSE "eof"
          /\ UNCHANGED <<taken, bad, bufferVars>>
     ELSE /\ TryPrepare(1)
          /\ offset_' = OffsetAfter(1)
          /\ returned' = IF Enough(1) \/ ~bad' THEN "more" ELSE "eof"
  /\ UNCHANGED <<body, breaks, given, phase, i>>

\* read(str, count), and get() with a count of 1.  A read of more than is left
\* throws, and what is left stays.
Read(count) ==
  /\ phase = "open"
  /\ asked' = count
  /\ TryPrepare(count)
  /\ IF Enough(count)
     THEN /\ out' = SubSeq(buffer_', OffsetAfter(count) + 1, OffsetAfter(count) + count)
          /\ offset_' = OffsetAfter(count) + count
          /\ given' = given + count
          /\ returned' = "data"
     ELSE /\ out' = <<>>
          /\ offset_' = OffsetAfter(count)
          /\ UNCHANGED given
          /\ returned' = "incomplete"
  /\ UNCHANGED <<body, breaks, phase, i>>

Destroy_NoGuard ==
  /\ phase = "open"
  /\ phase' = "putback"
  /\ i' = Len(buffer_) - 1
  /\ UNCHANGED <<streamVars, bufferVars, callVars>>

\* ~AmortizedIStreamReader(): the loop starts at the last byte of the buffer.
Destroy ==
  /\ phase = "open"
  /\ IF Available > 0
     THEN phase' = "putback" /\ i' = Len(buffer_) - 1
     ELSE phase' = "closed" /\ UNCHANGED i
  /\ UNCHANGED <<streamVars, bufferVars, callVars>>

\* One turn of it.  i is unsigned: before 0 comes the largest index, and no
\* index is less than an offset of 0.
PutBack ==
  /\ phase = "putback"
  /\ IF i >= offset_
     THEN IF i < Len(buffer_)
          THEN i' = (IF i = 0 THEN MaxIndex ELSE i - 1) /\ UNCHANGED phase
          ELSE phase' = "overrun" /\ UNCHANGED i
     ELSE phase' = "closed" /\ UNCHANGED i
  /\ UNCHANGED <<streamVars, bufferVars, callVars>>

Next ==
  \/ \E n \in 0..MaxBody, broken \in BOOLEAN : Open(n, broken)
  \/ Eof
  \/ \E count \in 0..MaxCount : Read(count)
  \/ Destroy
  \/ PutBack

Spec == Init /\ [][Next]_vars

-----------------------------------------------------------------------------
(* What must hold.                                                         *)

\* The bytes of the body are handed out each once and in order, whatever mix
\* of tail reads, compactions and reallocations the buffer goes through.
Stream == INSTANCE ByteStream

BytesInOrder == Stream!Spec

\* eof() says so only when every byte was handed out, unless the connection
\* broke.
EofMeansEnd ==
  returned = "eof" /\ ~breaks => given = body

\* A read that throws asked for more than was left, unless the connection
\* broke: no byte is held back.
IncompleteMeansShort ==
  returned = "incomplete" /\ ~breaks => given + asked > body

\* The buffer grows with the longest read, not with the response.
BufferBounded ==
  /\ Len(buffer_) <= capacity
  /\ capacity <= MaxCount + MinReadSize + MaxSlack

-----------------------------------------------------------------------------
(* The invariant that the properties follow from.                          *)

\* The bytes from offset_ on are those that come next in the body, and nothing
\* else was read from the stream.
BufferInPlace ==
  /\ offset_ <= Len(buffer_)
  /\ \A k \in (offset_ + 1)..Len(buffer_) : buffer_[k] = given + k - offset_
  /\ taken = given + Len(buffer_) - offset_
  /\ taken <= body

\* A stream that failed without a break gave all it had.
FailedMeansTaken == bad /\ ~breaks => taken = body

IInv ==
  /\ TypeOK
  /\ BufferInPlace
  /\ FailedMeansTaken
  /\ EofMeansEnd
  /\ IncompleteMeansShort
  /\ BufferBounded
=============================================================================
