----------------------- MODULE AmortizedReader_proofs -----------------------
(***************************************************************************)
(* What holds of AmortizedReader for every body, every size of reads and   *)
(* every growth of the buffer.                                             *)
(***************************************************************************)
EXTENDS AmortizedReader, TLAPS

\* A tail of a sequence.
LEMMA TailFacts ==
  ASSUME NEW S, NEW q \in Seq(S), NEW a \in 0..Len(q), NEW n \in Nat, a + n <= Len(q)
  PROVE  /\ SubSeq(q, a + 1, a + n) \in Seq(S)
         /\ Len(SubSeq(q, a + 1, a + n)) = n
         /\ \A k \in 1..n : SubSeq(q, a + 1, a + n)[k] = q[a + k]
<1>1. a \in Nat /\ Len(q) \in Nat
  OBVIOUS
<1>2. Len(SubSeq(q, a + 1, a + n)) = n
  BY <1>1
<1>3. \A k \in 1..n : SubSeq(q, a + 1, a + n)[k] = q[a + k]
  BY <1>1
<1>4. SubSeq(q, a + 1, a + n) \in Seq(S)
  BY <1>1
<1> QED
  BY <1>2, <1>3, <1>4

\* A sequence of blanks put after another.
LEMMA BlankFacts ==
  ASSUME NEW q \in Seq(Nat), NEW n \in Nat
  PROVE  /\ q \o Unfilled(n) \in Seq(Nat)
         /\ Len(q \o Unfilled(n)) = Len(q) + n
         /\ \A k \in 1..Len(q) : (q \o Unfilled(n))[k] = q[k]
<1>1. Unfilled(n) \in Seq(Nat) /\ Len(Unfilled(n)) = n
  BY DEF Unfilled
<1> QED
  BY <1>1

\* The raw stream gives what there is, at most what is asked for; short of a
\* break, it gives less only when that was all.
LEMMA ArrivesFacts ==
  ASSUME TypeOK, taken <= body, NEW n \in Nat \ {0}
  PROVE  /\ Arrives(n) \in 0..n
         /\ taken + Arrives(n) <= body
         /\ ~bad /\ ~breaks /\ Fails(n) => taken + Arrives(n) = body
         /\ Arrives(n) < n => Fails(n)
         /\ bad => Fails(n)
  BY DEF TypeOK, Arrives, Fails

\* What is read is at least the shortage.
LEMMA ToReadFacts ==
  ASSUME TypeOK, NEW count \in Nat, Available < count
  PROVE  /\ Available \in Nat
         /\ ToRead(count) \in Nat \ {0}
         /\ Available + ToRead(count) >= count
         /\ Available + ToRead(count) <= count + MinReadSize
<1>1. Available \in Nat
  BY DEF TypeOK, Available
<1> QED
  BY <1>1, MinReadSizeAssumption DEF ToRead

\* Filling n of the t blanks that follow the first m places of g, with values
\* counted from c, and cutting the rest.
LEMMA FillFacts ==
  ASSUME NEW g \in Seq(Nat), NEW m \in Nat, NEW t \in Nat, NEW n \in 0..t, NEW c \in Nat,
         Len(g) = m + t,
         NEW f, f = [k \in 1..(Len(g) - (t - n)) |->
                       IF k \in (m + 1)..(m + n) THEN c + k - m ELSE g[k]]
  PROVE  /\ f \in Seq(Nat)
         /\ Len(f) = m + n
         /\ \A k \in 1..m : f[k] = g[k]
         /\ \A k \in (m + 1)..(m + n) : f[k] = c + k - m
<1>1. n \in Nat /\ n <= t /\ Len(g) - (t - n) = m + n
  OBVIOUS
<1>2. f = [k \in 1..(m + n) |-> IF k \in (m + 1)..(m + n) THEN c + k - m ELSE g[k]]
  BY <1>1
<1>3. \A k \in 1..(m + n) : g[k] \in Nat
  <2> TAKE k \in 1..(m + n)
  <2>1. k \in 1..Len(g)
    BY <1>1
  <2> QED
    BY <2>1
<1>4. \A k \in (m + 1)..(m + n) : c + k - m \in Nat
  OBVIOUS
<1>5. f \in [1..(m + n) -> Nat]
  BY <1>2, <1>3, <1>4
<1>6. f \in Seq(Nat) /\ Len(f) = m + n
  BY <1>1, <1>5
<1>7. \A k \in 1..m : k \in 1..(m + n) /\ k \notin (m + 1)..(m + n)
  BY <1>1
<1> QED
  BY <1>1, <1>2, <1>6, <1>7

\* tryPrepare() keeps the available bytes, adds those that arrive, and leaves
\* nothing else behind offset_.
LEMMA PreparedFacts ==
  ASSUME IInv, NEW count \in Nat, Available < count,
         NEW n \in 0..ToRead(count)
  PROVE  /\ Filled(count, n) \in Seq(Nat)
         /\ PreparedOffset(count) \in Nat
         /\ Len(Filled(count, n)) = PreparedOffset(count) + Available + n
         /\ \A k \in (PreparedOffset(count) + 1)..Len(Filled(count, n)) :
              Filled(count, n)[k] = given + k - PreparedOffset(count)
<1>1. /\ offset_ \in Nat /\ given \in Nat /\ taken \in Nat
      /\ Len(buffer_) \in Nat /\ buffer_ \in Seq(Nat)
      /\ offset_ \in 0..Len(buffer_)
      /\ offset_ + Available = Len(buffer_)
      /\ Available \in Nat
      /\ taken = given + Available
      /\ \A k \in (offset_ + 1)..Len(buffer_) : buffer_[k] = given + k - offset_
  BY DEF IInv, TypeOK, BufferInPlace, Available
<1>2. ToRead(count) \in Nat
  BY ToReadFacts DEF IInv
<1>3. PICK o, a, t \in Nat : /\ o = PreparedOffset(count) /\ a = Available
                             /\ t = ToRead(count)
  BY <1>1, <1>2 DEF PreparedOffset
<1>4. PICK g : g = Grown(count)
  OBVIOUS
<1>5. /\ g \in Seq(Nat)
      /\ Len(g) = o + a + t
      /\ \A k \in 1..a : g[o + k] = buffer_[offset_ + k]
  <2>1. CASE Fits(count)
    <3>1. o = offset_ /\ g = buffer_ \o Unfilled(t)
      BY <1>3, <1>4, <2>1 DEF PreparedOffset, Grown
    <3>2. /\ g \in Seq(Nat) /\ Len(g) = Len(buffer_) + t
          /\ \A k \in 1..Len(buffer_) : g[k] = buffer_[k]
      BY <1>1, <3>1, BlankFacts
    <3>3. Len(buffer_) = o + a
      BY <1>1, <1>3, <3>1
    <3>4. \A k \in 1..a : o + k \in 1..Len(buffer_)
      BY <3>3
    <3> QED
      BY <3>1, <3>2, <3>3, <3>4
  <2>2. CASE ~Fits(count)
    <3>1. PICK kept : kept = SubSeq(buffer_, offset_ + 1, offset_ + a)
      OBVIOUS
    <3>2. o = 0 /\ g = kept \o Unfilled(t)
      BY <1>3, <1>4, <2>2, <3>1 DEF PreparedOffset, Grown
    <3>3. /\ kept \in Seq(Nat) /\ Len(kept) = a
          /\ \A k \in 1..a : kept[k] = buffer_[offset_ + k]
      BY <1>1, <1>3, <3>1, TailFacts
    <3>4. /\ g \in Seq(Nat) /\ Len(g) = a + t
          /\ \A k \in 1..a : g[k] = kept[k]
      BY <3>2, <3>3, BlankFacts
    <3> QED
      BY <3>2, <3>3, <3>4
  <2> QED
    BY <2>1, <2>2
<1>6. PICK f : f = Filled(count, n)
  OBVIOUS
<1>7. f = [k \in 1..(Len(g) - (t - n)) |->
             IF k \in (o + a + 1)..(o + a + n) THEN taken + k - (o + a) ELSE g[k]]
  BY <1>3, <1>4, <1>6 DEF Filled
<1>8. /\ f \in Seq(Nat)
      /\ Len(f) = o + a + n
      /\ \A k \in 1..(o + a) : f[k] = g[k]
      /\ \A k \in (o + a + 1)..(o + a + n) : f[k] = taken + k - (o + a)
  <2>1. o + a \in Nat /\ n \in 0..t
    BY <1>3
  <2> QED
    BY ONLY <1>1, <1>5, <1>7, <2>1, FillFacts
<1>9. ASSUME NEW k \in (o + 1)..Len(f) PROVE f[k] = given + k - o
  <2>0. n \in Nat /\ k \in Nat
    BY <1>2
  <2>1. CASE k > o + a
    <3>1. k \in (o + a + 1)..(o + a + n)
      BY <1>8, <2>0, <2>1
    <3>2. f[k] = taken + k - (o + a)
      BY <1>8, <3>1
    <3> QED
      BY <1>1, <1>3, <2>0, <3>2
  <2>2. CASE ~(k > o + a)
    <3>1. k \in 1..(o + a) /\ k - o \in 1..a /\ k = o + (k - o)
      BY <2>0, <2>2
    <3>2. PICK j \in 1..a : k = o + j
      BY <3>1
    <3>3. f[o + j] = g[o + j] /\ f[k] = f[o + j]
      BY <1>8, <3>1, <3>2
    <3>4. g[o + j] = buffer_[offset_ + j]
      BY <1>5
    <3>5. j \in Nat /\ j >= 1 /\ j <= a /\ offset_ + a = Len(buffer_)
      BY <1>1, <1>3
    <3>6. offset_ + j \in (offset_ + 1)..Len(buffer_)
      BY <1>1, <3>5
    <3>7. buffer_[offset_ + j] = given + (offset_ + j) - offset_
      BY <1>1, <3>6
    <3>8. given + (offset_ + j) - offset_ = given + k - o
      BY <1>1, <1>3, <3>2, <3>5
    <3> QED
      BY <3>3, <3>4, <3>7, <3>8
  <2> QED
    BY <2>1, <2>2
<1> QED
  BY <1>3, <1>6, <1>8, <1>9

\* What tryPrepare() establishes: the invariant, with offset_ moved to where
\* the available bytes are now, and all of them unless the stream failed.
LEMMA TryPrepareFacts ==
  ASSUME IInv, NEW count \in 0..MaxCount, TryPrepare(count)
  PROVE  /\ buffer_' \in Seq(Nat) /\ capacity' \in Nat /\ taken' \in Nat /\ bad' \in BOOLEAN
         /\ OffsetAfter(count) \in 0..Len(buffer_')
         /\ \A k \in (OffsetAfter(count) + 1)..Len(buffer_') :
              buffer_'[k] = given + k - OffsetAfter(count)
         /\ taken' = given + Len(buffer_') - OffsetAfter(count)
         /\ taken' <= body
         /\ bad' /\ ~breaks => taken' = body
         /\ ~Enough(count) => bad'
         /\ Len(buffer_') <= capacity'
         /\ capacity' <= MaxCount + MinReadSize + MaxSlack
<1> USE MaxCountAssumption, MinReadSizeAssumption, MaxSlackAssumption
<1>0. /\ offset_ \in Nat /\ given \in Nat /\ taken \in Nat /\ body \in Nat /\ capacity \in Nat
      /\ Len(buffer_) \in Nat /\ buffer_ \in Seq(Nat) /\ bad \in BOOLEAN
      /\ offset_ <= Len(buffer_)
      /\ Available = Len(buffer_) - offset_ /\ Available \in Nat
      /\ taken = given + Available /\ taken <= body
      /\ Len(buffer_) <= capacity /\ capacity <= MaxCount + MinReadSize + MaxSlack
      /\ bad /\ ~breaks => taken = body
      /\ \A k \in (offset_ + 1)..Len(buffer_) : buffer_[k] = given + k - offset_
  <2>1. /\ offset_ \in Nat /\ given \in Nat /\ taken \in Nat /\ body \in Nat /\ capacity \in Nat
        /\ buffer_ \in Seq(Nat) /\ bad \in BOOLEAN
    BY DEF IInv, TypeOK
  <2>2. Len(buffer_) \in Nat
    BY <2>1
  <2>3. /\ offset_ <= Len(buffer_)
        /\ taken = given + Len(buffer_) - offset_ /\ taken <= body
        /\ Len(buffer_) <= capacity /\ capacity <= MaxCount + MinReadSize + MaxSlack
        /\ bad /\ ~breaks => taken = body
        /\ \A k \in (offset_ + 1)..Len(buffer_) : buffer_[k] = given + k - offset_
    BY DEF IInv, BufferInPlace, BufferBounded, FailedMeansTaken
  <2>4. Available = Len(buffer_) - offset_
    BY <2>1, <2>2, <2>3 DEF Available
  <2>5. Available \in Nat /\ taken = given + Available
    BY <2>1, <2>2, <2>3, <2>4
  <2> QED
    BY <2>1, <2>2, <2>3, <2>4, <2>5
<1>1. CASE Available >= count
  <2>1. UNCHANGED <<buffer_, capacity, taken, bad>> /\ OffsetAfter(count) = offset_
    BY <1>1 DEF TryPrepare, OffsetAfter
  <2>2. Enough(count)
    BY <1>0, <1>1, <2>1 DEF Enough
  <2> QED
    BY <1>0, <2>1, <2>2
<1>2. CASE ~(Available >= count)
  <2>1. PICK t, n, o, f : /\ t = ToRead(count) /\ n = Arrives(t)
                          /\ o = PreparedOffset(count) /\ f = Filled(count, n)
    OBVIOUS
  <2>2. PICK slack \in 0..MaxSlack : /\ buffer_' = f
                                     /\ capacity' = RoomFor(count, slack)
                                     /\ taken' = taken + n
                                     /\ bad' = Fails(t)
    BY <1>2, <2>1 DEF TryPrepare
  <2>3. OffsetAfter(count) = o
    BY <1>2, <2>1 DEF OffsetAfter
  <2>4. /\ t \in Nat \ {0} /\ Available + t >= count /\ Available + t <= count + MinReadSize
    BY <1>0, <1>2, <2>1, ToReadFacts DEF IInv
  <2>5. /\ n \in 0..t /\ taken + n <= body
        /\ ~bad /\ ~breaks /\ Fails(t) => taken + n = body
        /\ n < t => Fails(t)
        /\ n \in Nat
    BY <1>0, <2>1, <2>4, ArrivesFacts DEF IInv
  <2>6. /\ f \in Seq(Nat) /\ o \in Nat /\ Len(f) = o + Available + n
        /\ \A k \in (o + 1)..Len(f) : f[k] = given + k - o
    <3>1. Available < count /\ count \in Nat
      BY <1>0, <1>2
    <3>2. n \in 0..ToRead(count)
      BY <2>1, <2>5
    <3> QED
      BY <2>1, <3>1, <3>2, PreparedFacts
  <2>7. bad' /\ ~breaks => taken' = body
    <3>1. CASE bad
      <4>1. n = 0
        BY <2>1, <3>1 DEF Arrives
      <4> QED
        BY <1>0, <2>2, <3>1, <4>1
    <3>2. CASE ~bad
      BY <2>2, <2>5, <3>2
    <3> QED
      BY <3>1, <3>2
  <2>8. ~Enough(count) => bad'
    <3>1. ~Enough(count) => n < t
      BY <1>0, <2>2, <2>3, <2>4, <2>5, <2>6 DEF Enough
    <3> QED
      BY <2>2, <2>5, <3>1
  <2>9. /\ capacity' \in Nat
        /\ Len(f) <= capacity'
        /\ capacity' <= MaxCount + MinReadSize + MaxSlack
    <3>1. slack \in Nat /\ slack <= MaxSlack /\ count \in Nat /\ count <= MaxCount
      OBVIOUS
    <3>2. capacity' = IF capacity - Len(buffer_) + offset_ >= t THEN capacity
                      ELSE Available + t + slack
      BY <2>1, <2>2 DEF RoomFor
    <3>3. o = IF capacity - Len(buffer_) >= t THEN offset_ ELSE 0
      BY <2>1 DEF PreparedOffset, Fits
    <3>4. /\ Available \in Nat /\ capacity \in Nat /\ offset_ \in Nat /\ Len(buffer_) \in Nat
          /\ Available = Len(buffer_) - offset_
          /\ Len(buffer_) <= capacity /\ capacity <= MaxCount + MinReadSize + MaxSlack
          /\ t \in Nat /\ Available + t <= count + MinReadSize
          /\ n \in Nat /\ n <= t /\ Len(f) = o + Available + n
          /\ MaxCount \in Nat /\ MinReadSize \in Nat /\ MaxSlack \in Nat
      BY <1>0, <2>4, <2>5, <2>6
    <3> QED
      BY ONLY <3>1, <3>2, <3>3, <3>4
  <2>10. bad' \in BOOLEAN
    BY <2>2, Zenon DEF Fails
  <2>11. o \in 0..Len(f) /\ taken' = given + Len(f) - o
    BY <1>0, <2>2, <2>5, <2>6
  <2> QED
    BY <1>0, <2>2, <2>3, <2>5, <2>6, <2>7, <2>8, <2>9, <2>10, <2>11
<1> QED
  BY <1>1, <1>2

\* No step breaks the invariant.
LEMMA InvStep == IInv /\ [Next]_vars => IInv'
<1> SUFFICES ASSUME IInv, [Next]_vars PROVE IInv'
  OBVIOUS
<1> USE MaxBodyAssumption, MaxCountAssumption, MinReadSizeAssumption, MaxSlackAssumption,
        MaxIndexAssumption
<1>1. ASSUME UNCHANGED vars PROVE IInv'
  BY <1>1 DEF vars, streamVars, bufferVars, callVars, IInv, TypeOK, BufferInPlace,
              FailedMeansTaken, EofMeansEnd, IncompleteMeansShort, BufferBounded
<1>2. ASSUME NEW n \in 0..MaxBody, NEW broken \in BOOLEAN, Open(n, broken) PROVE IInv'
  <2>1. bad' \in BOOLEAN /\ breaks' \in BOOLEAN
    BY <1>2, Zenon DEF Open
  <2>2. buffer_' \in Seq(Nat) /\ out' \in Seq(Nat) /\ Len(buffer_') = 0
    BY <1>2 DEF Open
  <2>3. TypeOK'
    BY <1>2, <2>1, <2>2 DEF Open, TypeOK
  <2>4. BufferInPlace' /\ FailedMeansTaken' /\ EofMeansEnd' /\ IncompleteMeansShort' /\ BufferBounded'
    BY <1>2, <2>2 DEF Open, BufferInPlace, FailedMeansTaken, EofMeansEnd,
                      IncompleteMeansShort, BufferBounded
  <2> QED
    BY <2>3, <2>4 DEF IInv
<1>3. ASSUME Eof PROVE IInv'
  <2>1. CASE Available > 0 \/ bad
    <3>1. /\ UNCHANGED <<streamVars, bufferVars, given, phase, i>>
          /\ out' = <<>> /\ asked' = 1
          /\ returned' = IF Available > 0 THEN "more" ELSE "eof"
      BY <1>3, <2>1 DEF Eof, streamVars
    <3>2. TypeOK' /\ BufferInPlace' /\ FailedMeansTaken' /\ BufferBounded'
      BY <3>1 DEF streamVars, bufferVars, IInv, TypeOK, BufferInPlace, FailedMeansTaken,
                  BufferBounded
    <3>3. IncompleteMeansShort'
      BY <3>1 DEF IncompleteMeansShort
    <3>4. EofMeansEnd'
      <4> SUFFICES ASSUME ~(Available > 0), ~breaks PROVE given = body
        BY <3>1 DEF EofMeansEnd, streamVars
      <4>1. taken = body
        BY <2>1 DEF IInv, FailedMeansTaken
      <4>2. offset_ = Len(buffer_)
        BY DEF IInv, TypeOK, BufferInPlace, Available
      <4> QED
        BY <4>1, <4>2 DEF IInv, TypeOK, BufferInPlace
    <3> QED
      BY <3>2, <3>3, <3>4 DEF IInv
  <2>2. CASE ~(Available > 0 \/ bad)
    <3>1. /\ TryPrepare(1) /\ offset_' = OffsetAfter(1)
          /\ returned' = IF Enough(1) \/ ~bad' THEN "more" ELSE "eof"
          /\ out' = <<>> /\ asked' = 1
          /\ UNCHANGED <<body, breaks, given, phase, i>>
      BY <1>3, <2>2 DEF Eof
    <3>2. 1 \in 0..MaxCount
      OBVIOUS
    <3>3. /\ buffer_' \in Seq(Nat) /\ capacity' \in Nat /\ taken' \in Nat /\ bad' \in BOOLEAN
          /\ offset_' \in 0..Len(buffer_')
          /\ \A k \in (offset_' + 1)..Len(buffer_') : buffer_'[k] = given + k - offset_'
          /\ taken' = given + Len(buffer_') - offset_'
          /\ taken' <= body
          /\ bad' /\ ~breaks => taken' = body
          /\ Len(buffer_') <= capacity'
          /\ capacity' <= MaxCount + MinReadSize + MaxSlack
      BY <3>1, <3>2, TryPrepareFacts
    <3>4. ~Enough(1) => Len(buffer_') = offset_'
      BY <3>1, <3>3 DEF Enough
    <3>5. TypeOK' /\ BufferInPlace' /\ FailedMeansTaken' /\ BufferBounded'
      BY <3>1, <3>3 DEF IInv, TypeOK, BufferInPlace, FailedMeansTaken, BufferBounded
    <3>6. EofMeansEnd' /\ IncompleteMeansShort'
      <4>1. given \in Nat /\ body \in Nat
        BY DEF IInv, TypeOK
      <4> QED
        BY <3>1, <3>3, <3>4, <4>1 DEF EofMeansEnd, IncompleteMeansShort
    <3> QED
      BY <3>5, <3>6 DEF IInv
  <2> QED
    BY <2>1, <2>2
<1>4. ASSUME NEW count \in 0..MaxCount, Read(count) PROVE IInv'
  <2>1. /\ TryPrepare(count) /\ asked' = count
        /\ UNCHANGED <<body, breaks, phase, i>>
    BY <1>4 DEF Read
  <2>2. PICK o : o = OffsetAfter(count)
    OBVIOUS
  <2>3. /\ buffer_' \in Seq(Nat) /\ capacity' \in Nat /\ taken' \in Nat /\ bad' \in BOOLEAN
        /\ o \in 0..Len(buffer_')
        /\ \A k \in (o + 1)..Len(buffer_') : buffer_'[k] = given + k - o
        /\ taken' = given + Len(buffer_') - o
        /\ taken' <= body
        /\ bad' /\ ~breaks => taken' = body
        /\ ~Enough(count) => bad'
        /\ Len(buffer_') <= capacity'
        /\ capacity' <= MaxCount + MinReadSize + MaxSlack
    BY <2>1, <2>2, TryPrepareFacts
  <2>4. given \in Nat /\ body \in Nat /\ breaks \in BOOLEAN /\ count \in Nat
    BY DEF IInv, TypeOK
  <2>5. CASE Enough(count)
    <3>1. /\ out' = SubSeq(buffer_', o + 1, o + count)
          /\ offset_' = o + count /\ given' = given + count /\ returned' = "data"
      BY <1>4, <2>2, <2>5 DEF Read
    <3>2. o + count <= Len(buffer_')
      BY <2>2, <2>3, <2>4, <2>5 DEF Enough
    <3>3. out' \in Seq(Nat)
      BY <2>3, <2>4, <3>1, <3>2, TailFacts
    <3>4. TypeOK' /\ FailedMeansTaken' /\ BufferBounded'
      BY <2>1, <2>3, <2>4, <3>1, <3>3 DEF IInv, TypeOK, FailedMeansTaken, BufferBounded
    <3>5. BufferInPlace'
      BY <2>1, <2>3, <2>4, <3>1, <3>2 DEF BufferInPlace
    <3> QED
      BY <3>1, <3>4, <3>5 DEF IInv, EofMeansEnd, IncompleteMeansShort
  <2>6. CASE ~Enough(count)
    <3>1. /\ out' = <<>> /\ offset_' = o /\ given' = given /\ returned' = "incomplete"
      BY <1>4, <2>2, <2>6 DEF Read
    <3>2. Len(buffer_') - o < count
      BY <2>2, <2>3, <2>4, <2>6 DEF Enough
    <3>3. TypeOK' /\ BufferInPlace' /\ FailedMeansTaken' /\ BufferBounded'
      BY <2>1, <2>3, <2>4, <3>1 DEF IInv, TypeOK, BufferInPlace, FailedMeansTaken, BufferBounded
    <3>4. IncompleteMeansShort'
      <4> SUFFICES ASSUME ~breaks PROVE given + count > body
        BY <2>1, <3>1 DEF IncompleteMeansShort
      <4>1. taken' = body
        BY <2>3, <2>6
      <4> QED
        BY <2>3, <2>4, <3>2, <4>1
    <3> QED
      BY <3>1, <3>3, <3>4 DEF IInv, EofMeansEnd
  <2> QED
    BY <2>5, <2>6
<1>5. ASSUME Destroy PROVE IInv'
  <2>1. /\ i' \in 0..MaxIndex
        /\ phase' \in {"open", "putback", "overrun", "closed"}
        /\ UNCHANGED <<streamVars, bufferVars, callVars>>
    <3>1. CASE Available > 0
      <4>1. Len(buffer_) \in Nat \ {0} /\ Len(buffer_) <= MaxIndex
        BY <3>1 DEF IInv, TypeOK, Available, BufferBounded
      <4> QED
        BY <1>5, <3>1, <4>1 DEF Destroy
    <3>2. CASE ~(Available > 0)
      BY <1>5, <3>2 DEF Destroy, IInv, TypeOK
    <3> QED
      BY <3>1, <3>2
  <2> QED
    BY <2>1 DEF streamVars, bufferVars, callVars, IInv, TypeOK, BufferInPlace,
         FailedMeansTaken, EofMeansEnd, IncompleteMeansShort, BufferBounded
<1>6. ASSUME PutBack PROVE IInv'
  <2>1. /\ i' \in 0..MaxIndex
        /\ phase' \in {"open", "putback", "overrun", "closed"}
        /\ UNCHANGED <<streamVars, bufferVars, callVars>>
    BY <1>6 DEF PutBack, IInv, TypeOK
  <2> QED
    BY <2>1 DEF streamVars, bufferVars, callVars, IInv, TypeOK, BufferInPlace,
         FailedMeansTaken, EofMeansEnd, IncompleteMeansShort, BufferBounded
<1> QED
  BY ONLY [Next]_vars, <1>1, <1>2, <1>3, <1>4, <1>5, <1>6 DEF Next

\* The invariant holds of every behaviour.
LEMMA Invariant == Spec => []IInv
<1>1. Init => IInv
  <2> SUFFICES ASSUME Init PROVE IInv
    OBVIOUS
  <2>1. breaks \in BOOLEAN /\ bad \in BOOLEAN
    BY Zenon DEF Init
  <2>2. buffer_ \in Seq(Nat) /\ out \in Seq(Nat) /\ Len(buffer_) = 0
    BY DEF Init
  <2>3. TypeOK
    BY <2>1, <2>2, MaxIndexAssumption DEF Init, TypeOK
  <2>4. BufferInPlace /\ FailedMeansTaken /\ EofMeansEnd /\ IncompleteMeansShort /\ BufferBounded
    BY <2>2, MaxCountAssumption, MinReadSizeAssumption, MaxSlackAssumption
       DEF Init, BufferInPlace, FailedMeansTaken, EofMeansEnd, IncompleteMeansShort, BufferBounded
  <2> QED
    BY <2>3, <2>4 DEF IInv
<1> QED
  BY <1>1, InvStep, PTL DEF Spec

\* The variables keep their types.
THEOREM TypeCorrect == Spec => []TypeOK
  BY Invariant, PTL DEF IInv

\* eof() on a response that did not break comes after its last byte
\* (AmortizedIStreamReader::eof).
THEOREM EofIsTheEnd == Spec => []EofMeansEnd
  BY Invariant, PTL DEF IInv

\* A read throws only when the response, unless it broke, is too short for it
\* (AmortizedIStreamReader::read).
THEOREM IncompleteIsShort == Spec => []IncompleteMeansShort
  BY Invariant, PTL DEF IInv

\* The buffer holds at most one longest read beyond min_read_size, however long
\* the response (AmortizedIStreamReader::tryPrepare).
THEOREM BufferStaysBounded == Spec => []BufferBounded
  BY Invariant, PTL DEF IInv

\* Through every compaction and reallocation the reader hands out the bytes of
\* the body once each and in order: it implements ByteStream.
THEOREM Implements == Spec => BytesInOrder
<1>1. Init => Stream!Init
  BY DEF Init, Stream!Init
<1>2. IInv /\ [Next]_vars => [Stream!Next]_(Stream!vars)
  <2> SUFFICES ASSUME IInv, [Next]_vars PROVE [Stream!Next]_(Stream!vars)
    OBVIOUS
  <2> USE DEF Stream!Next, Stream!Open, Stream!Take, Stream!vars
  <2>1. ASSUME UNCHANGED vars PROVE [Stream!Next]_(Stream!vars)
    BY <2>1 DEF vars, callVars
  <2>2. ASSUME NEW n \in 0..MaxBody, NEW broken \in BOOLEAN, Open(n, broken)
        PROVE  [Stream!Next]_(Stream!vars)
    BY <2>2 DEF Open
  <2>3. ASSUME out' = <<>>, given' = given PROVE [Stream!Next]_(Stream!vars)
    <3>1. given \in Nat
      BY DEF IInv, TypeOK
    <3> QED
      BY <2>3, <3>1
  <2>4. ASSUME Eof PROVE [Stream!Next]_(Stream!vars)
    BY <2>3, <2>4 DEF Eof
  <2>5. ASSUME NEW count \in 0..MaxCount, Read(count) PROVE [Stream!Next]_(Stream!vars)
    <3>1. CASE Enough(count)
      <4>1. PICK o : o = OffsetAfter(count)
        OBVIOUS
      <4>2. /\ out' = SubSeq(buffer_', o + 1, o + count) /\ given' = given + count
        BY <2>5, <3>1, <4>1 DEF Read
      <4>3. /\ buffer_' \in Seq(Nat) /\ o \in 0..Len(buffer_')
            /\ \A k \in (o + 1)..Len(buffer_') : buffer_'[k] = given + k - o
        BY <2>5, <4>1, TryPrepareFacts DEF Read
      <4>4. count \in Nat /\ o \in Nat /\ o + count <= Len(buffer_') /\ given \in Nat
        BY <3>1, <4>1, <4>3, MaxCountAssumption DEF Enough, IInv, TypeOK
      <4>5. /\ out' \in Seq(Nat) /\ Len(out') = count
            /\ \A k \in 1..count : out'[k] = buffer_'[o + k]
        BY <4>2, <4>3, <4>4, TailFacts
      <4>6. \A k \in 1..count : out'[k] = given + k
        <5> TAKE k \in 1..count
        <5>1. o + k \in (o + 1)..Len(buffer_')
          BY <4>4
        <5>2. buffer_'[o + k] = given + (o + k) - o
          BY <4>3, <5>1
        <5> QED
          BY <4>4, <4>5, <5>2
      <4>7. DOMAIN out' = 1..count
        BY <4>5
      <4> QED
        BY <4>2, <4>5, <4>6, <4>7
    <3>2. CASE ~Enough(count)
      BY <2>3, <2>5, <3>2 DEF Read
    <3> QED
      BY <3>1, <3>2
  <2>6. ASSUME Destroy \/ PutBack PROVE [Stream!Next]_(Stream!vars)
    BY <2>6 DEF Destroy, PutBack, callVars
  <2> QED
    BY ONLY [Next]_vars, <2>1, <2>2, <2>4, <2>5, <2>6 DEF Next
<1> QED
  BY <1>1, <1>2, Invariant, PTL DEF Spec, BytesInOrder, Stream!Spec
=============================================================================
