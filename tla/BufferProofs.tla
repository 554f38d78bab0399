---------------------------- MODULE BufferProofs ----------------------------
(***************************************************************************)
(* Theorems about Buffer, for every set of bytes and every choice of the   *)
(* sizes: the asserts of the code hold, and the readable bytes are those   *)
(* of a plain queue.                                                       *)
(***************************************************************************)
EXTENDS Buffer, SequenceTheorems, TLAPS

\* A function on 1 .. n is a sequence of length n.
LEMMA FunctionIsSeq ==
  ASSUME NEW S, NEW n \in Nat, NEW f \in [1 .. n -> S]
  PROVE  f \in Seq(S) /\ Len(f) = n
<1>1. f \in Seq(S) BY SeqDef
<1>2. 1 .. Len(f) = 1 .. n /\ Len(f) \in Nat BY <1>1, LenProperties
<1> QED BY <1>1, <1>2

\* std::copy into the vector: the length stays, the copied range is the data.
LEMMA OverwriteProperties ==
  ASSUME NEW bytes \in Seq(Byte), NEW at \in Nat, NEW data \in Seq(Byte),
         at + Len(data) <= Len(bytes)
  PROVE  /\ Overwrite(bytes, at, data) \in Seq(Byte)
         /\ Len(Overwrite(bytes, at, data)) = Len(bytes)
         /\ \A i \in 1 .. Len(bytes) :
               Overwrite(bytes, at, data)[i] =
                  IF i \in at + 1 .. at + Len(data) THEN data[i - at] ELSE bytes[i]
<1>1. Len(bytes) \in Nat /\ Len(data) \in Nat BY LenProperties
<1>2. ASSUME NEW i \in 1 .. Len(bytes)
      PROVE  (IF i \in at + 1 .. at + Len(data) THEN data[i - at] ELSE bytes[i]) \in Byte
  <2>1. CASE i \in at + 1 .. at + Len(data)
    <3>1. i - at \in 1 .. Len(data) BY <2>1, <1>1
    <3> QED BY <2>1, <3>1, ElementOfSeq
  <2>2. CASE i \notin at + 1 .. at + Len(data) BY <2>2, ElementOfSeq
  <2> QED BY <2>1, <2>2
<1>3. Overwrite(bytes, at, data) \in [1 .. Len(bytes) -> Byte]
      BY <1>2 DEF Overwrite
<1>4. \A i \in 1 .. Len(bytes) :
         Overwrite(bytes, at, data)[i] =
            IF i \in at + 1 .. at + Len(data) THEN data[i - at] ELSE bytes[i]
      BY DEF Overwrite
<1> QED BY <1>1, <1>3, <1>4, FunctionIsSeq

\* vector::resize to a larger size keeps every byte.
LEMMA ResizeProperties ==
  ASSUME NEW bytes \in Seq(Byte), NEW n \in Nat
  PROVE  /\ Resize(bytes, n) \in Seq(Byte)
         /\ Len(Resize(bytes, n)) = n
         /\ \A i \in 1 .. n : i <= Len(bytes) => Resize(bytes, n)[i] = bytes[i]
<1>1. Len(bytes) \in Nat BY LenProperties
<1>2. ASSUME NEW i \in 1 .. n
      PROVE  (IF i <= Len(bytes) THEN bytes[i] ELSE Zero) \in Byte
      BY <1>1, ElementOfSeq, SizesAssumption
<1>3. Resize(bytes, n) \in [1 .. n -> Byte] BY <1>2 DEF Resize
<1>4. \A i \in 1 .. n : i <= Len(bytes) => Resize(bytes, n)[i] = bytes[i]
      BY DEF Resize
<1> QED BY <1>3, <1>4, FunctionIsSeq

\* The readable bytes, index by index.
LEMMA ReadableProperties ==
  ASSUME NEW x, WellFormed(x)
  PROVE  /\ readable(x) \in Seq(Byte)
         /\ Len(readable(x)) = readableBytes(x)
         /\ readableBytes(x) \in Nat
         /\ writableBytes(x) \in Nat
         /\ Len(x.buffer_) \in Nat
         /\ \A i \in 1 .. readableBytes(x) : readable(x)[i] = x.buffer_[x.readerIndex_ + i]
<1> DEFINE r == x.readerIndex_  w == x.writerIndex_
<1>1. /\ x.buffer_ \in Seq(Byte) /\ r \in Nat /\ w \in Nat
      /\ r <= w /\ w <= Len(x.buffer_)
      BY DEF WellFormed
<1>2. Len(x.buffer_) \in Nat BY <1>1, LenProperties
<1>3. \A i \in r + 1 .. w : x.buffer_[i] \in Byte BY <1>1, <1>2, ElementOfSeq
<1>4. r + 1 \in Int /\ w \in Int BY <1>1
<1>5. /\ SubSeq(x.buffer_, r + 1, w) \in Seq(Byte)
      /\ Len(SubSeq(x.buffer_, r + 1, w)) = IF r + 1 <= w THEN w - (r + 1) + 1 ELSE 0
      /\ \A i \in 1 .. w - (r + 1) + 1 :
            SubSeq(x.buffer_, r + 1, w)[i] = x.buffer_[(r + 1) + i - 1]
      BY <1>3, <1>4, SubSeqProperties
<1>6. ASSUME NEW i \in 1 .. w - r
      PROVE  SubSeq(x.buffer_, r + 1, w)[i] = x.buffer_[r + i]
  <2>1. i \in 1 .. w - (r + 1) + 1 /\ (r + 1) + i - 1 = r + i BY <1>1
  <2> QED BY <2>1, <1>5
<1>7. Len(SubSeq(x.buffer_, r + 1, w)) = w - r BY <1>1, <1>5
<1> QED BY <1>1, <1>2, <1>5, <1>6, <1>7 DEF readable, readableBytes, writableBytes

\* Two buffers with the same readable bytes, index by index.
LEMMA ReadableEqual ==
  ASSUME NEW x, WellFormed(x), NEW s \in Seq(Byte),
         Len(s) = readableBytes(x),
         \A i \in 1 .. readableBytes(x) : x.buffer_[x.readerIndex_ + i] = s[i]
  PROVE  readable(x) = s
BY ReadableProperties, SeqEqual

-----------------------------------------------------------------------------
\* retrieveAll() leaves no readable byte.
LEMMA RetrieveAllCorrect ==
  ASSUME NEW x, WellFormed(x)
  PROVE  WellFormed(retrieveAll(x)) /\ readable(retrieveAll(x)) = <<>>
<1> DEFINE y == retrieveAll(x)
<1>1. /\ y.buffer_ = x.buffer_
      /\ y.readerIndex_ = kCheapPrepend
      /\ y.writerIndex_ = kCheapPrepend
      /\ y \in [buffer_ : Seq(Byte), readerIndex_ : Nat, writerIndex_ : Nat]
      BY SizesAssumption DEF retrieveAll, WellFormed
<1>2. WellFormed(y) BY <1>1, SizesAssumption DEF WellFormed
<1>3. readableBytes(y) = 0 BY <1>1, SizesAssumption DEF readableBytes
<1>4. <<>> \in Seq(Byte) /\ Len(<<>>) = 0 BY EmptySeq
<1>5. \A i \in 1 .. readableBytes(y) : y.buffer_[y.readerIndex_ + i] = <<>>[i] BY <1>3
<1> HIDE DEF y
<1>6. readable(y) = <<>> BY <1>2, <1>3, <1>4, <1>5, ReadableEqual
<1> QED BY <1>2, <1>6 DEF y

\* retrieve() drops bytes at the front and nothing else.
LEMMA RetrieveCorrect ==
  ASSUME NEW x, WellFormed(x), NEW len \in 0 .. readableBytes(x)
  PROVE  /\ WellFormed(retrieve(x, len))
         /\ readable(retrieve(x, len)) = SubSeq(readable(x), len + 1, Len(readable(x)))
<1> DEFINE y == retrieve(x, len)
           s == SubSeq(readable(x), len + 1, Len(readable(x)))
<1>1. /\ readable(x) \in Seq(Byte)
      /\ Len(readable(x)) = readableBytes(x)
      /\ readableBytes(x) \in Nat
      /\ \A i \in 1 .. readableBytes(x) : readable(x)[i] = x.buffer_[x.readerIndex_ + i]
      BY ReadableProperties
<1>2. \A i \in len + 1 .. readableBytes(x) : readable(x)[i] \in Byte BY <1>1, ElementOfSeq
<1>3. len + 1 \in Int /\ readableBytes(x) \in Int BY <1>1
<1>4. /\ s \in Seq(Byte)
      /\ Len(s) = IF len + 1 <= readableBytes(x) THEN readableBytes(x) - (len + 1) + 1 ELSE 0
      /\ \A i \in 1 .. readableBytes(x) - (len + 1) + 1 : s[i] = readable(x)[(len + 1) + i - 1]
      BY <1>1, <1>2, <1>3, SubSeqProperties
<1>5. CASE len < readableBytes(x)
  <2>1. /\ y.buffer_ = x.buffer_ /\ y.readerIndex_ = x.readerIndex_ + len
        /\ y.writerIndex_ = x.writerIndex_ /\ WellFormed(y)
        BY <1>5, <1>1 DEF retrieve, WellFormed, readableBytes
  <2>2. readableBytes(y) = readableBytes(x) - len BY <2>1, <1>1 DEF readableBytes, WellFormed
  <2>3. ASSUME NEW i \in 1 .. readableBytes(y)
        PROVE  y.buffer_[y.readerIndex_ + i] = s[i]
    <3>1. i \in 1 .. readableBytes(x) - (len + 1) + 1 /\ (len + 1) + i - 1 = len + i
          BY <2>2, <1>1
    <3>2. s[i] = readable(x)[len + i] BY <3>1, <1>4
    <3>3. len + i \in 1 .. readableBytes(x) BY <2>2, <1>1
    <3>4. readable(x)[len + i] = x.buffer_[x.readerIndex_ + (len + i)] BY <3>3, <1>1
    <3>5. y.readerIndex_ + i = x.readerIndex_ + (len + i) BY <2>1, <1>1 DEF WellFormed
    <3> QED BY <2>1, <3>2, <3>4, <3>5
  <2>4. Len(s) = readableBytes(y) BY <1>4, <1>5, <1>1, <2>2
  <2> QED BY <2>1, <2>3, <2>4, <1>4, ReadableEqual
<1>6. CASE ~(len < readableBytes(x))
  <2>1. y = retrieveAll(x) BY <1>6 DEF retrieve
  <2>2. s = <<>> BY <1>1, <1>3, <1>6, SubSeqEmpty
  <2> QED BY <2>1, <2>2, RetrieveAllCorrect
<1> QED BY <1>5, <1>6

\* makeSpace() is called only when the bytes behind the writer do not suffice;
\* then its assert holds, and it makes the room without touching a readable byte.
LEMMA EnsureCorrect ==
  ASSUME NEW x, WellFormed(x), NEW len \in Nat
  PROVE  /\ WellFormed(ensureWriteableBytes(x, len))
         /\ EnsureAsserts(x, len)
         /\ readable(ensureWriteableBytes(x, len)) = readable(x)
<1> DEFINE y == ensureWriteableBytes(x, len)
<1>0. /\ readable(x) \in Seq(Byte)
      /\ Len(readable(x)) = readableBytes(x)
      /\ readableBytes(x) \in Nat
      /\ writableBytes(x) \in Nat
      /\ Len(x.buffer_) \in Nat
      /\ \A i \in 1 .. readableBytes(x) : readable(x)[i] = x.buffer_[x.readerIndex_ + i]
      BY ReadableProperties
<1>1. /\ x.buffer_ \in Seq(Byte) /\ x.readerIndex_ \in Nat /\ x.writerIndex_ \in Nat
      /\ x.readerIndex_ <= x.writerIndex_ /\ x.writerIndex_ <= Len(x.buffer_)
      /\ kCheapPrepend <= Len(x.buffer_) /\ kCheapPrepend \in Nat
      BY SizesAssumption DEF WellFormed
<1>2. CASE ~(writableBytes(x) < len)
  <2>1. y = x BY <1>2 DEF ensureWriteableBytes
  <2>2. writableBytes(y) >= len BY <2>1, <1>2, <1>0
  <2> QED BY <2>1, <2>2, <1>2 DEF EnsureAsserts
<1>3. CASE writableBytes(x) < len /\ MustGrow(x, len)
  <2>1. x.writerIndex_ + len \in Nat /\ x.writerIndex_ + len >= Len(x.buffer_)
        BY <1>1, <1>3, <1>0 DEF writableBytes
  <2>2. /\ y.buffer_ = Resize(x.buffer_, x.writerIndex_ + len)
        /\ y.readerIndex_ = x.readerIndex_ /\ y.writerIndex_ = x.writerIndex_
        /\ y \in [buffer_ : {y.buffer_}, readerIndex_ : Nat, writerIndex_ : Nat]
        BY <1>3, <1>1 DEF ensureWriteableBytes, makeSpace, WellFormed
  <2>3. /\ y.buffer_ \in Seq(Byte)
        /\ Len(y.buffer_) = x.writerIndex_ + len
        /\ \A i \in 1 .. x.writerIndex_ + len : i <= Len(x.buffer_) => y.buffer_[i] = x.buffer_[i]
    <3> DEFINE big == x.writerIndex_ + len
    <3>1. big \in Nat BY <2>1
    <3> HIDE DEF big
    <3>2. /\ Resize(x.buffer_, big) \in Seq(Byte)
          /\ Len(Resize(x.buffer_, big)) = big
          /\ \A i \in 1 .. big : i <= Len(x.buffer_) => Resize(x.buffer_, big)[i] = x.buffer_[i]
          BY <3>1, <1>1, ResizeProperties
    <3> QED BY <3>2, <2>2 DEF big
  <2>4. WellFormed(y) BY <2>1, <2>2, <2>3, <1>0, <1>1 DEF WellFormed
  <2>5. readableBytes(y) = readableBytes(x) BY <2>2 DEF readableBytes
  <2>6. ASSUME NEW i \in 1 .. readableBytes(y)
        PROVE  y.buffer_[y.readerIndex_ + i] = readable(x)[i]
    <3>1. /\ x.readerIndex_ + i \in 1 .. x.writerIndex_ + len
          /\ x.readerIndex_ + i <= Len(x.buffer_)
      <4> DEFINE r == x.readerIndex_
                 w == x.writerIndex_
                 size == Len(x.buffer_)
      <4>1. i \in 1 .. w - r BY <2>5 DEF readableBytes
      <4>2. /\ r \in Nat /\ w \in Nat /\ size \in Nat /\ w <= size BY <1>0, <1>1
      <4> HIDE DEF r, w, size
      <4>3. r + i \in 1 .. w + len /\ r + i <= size BY <4>1, <4>2
      <4> QED BY <4>3 DEF r, w, size
    <3> QED BY <3>1, <2>2, <2>3, <2>5, <1>0
  <2>7. readable(y) = readable(x) BY <2>4, <2>5, <2>6, <1>0, ReadableEqual
  <2>8. writableBytes(y) >= len BY <2>2, <2>3, <1>1 DEF writableBytes
  <2> QED BY <2>4, <2>7, <2>8, <1>3 DEF EnsureAsserts, MakeSpaceAssert
<1>4. CASE writableBytes(x) < len /\ ~MustGrow(x, len)
  <2>1. kCheapPrepend < x.readerIndex_
        BY <1>4, <1>0, <1>1 DEF MustGrow, prependableBytes
  <2>2. /\ y.buffer_ = Overwrite(x.buffer_, kCheapPrepend, readable(x))
        /\ y.readerIndex_ = kCheapPrepend
        /\ y.writerIndex_ = kCheapPrepend + readableBytes(x)
        /\ y = [buffer_ |-> y.buffer_, readerIndex_ |-> y.readerIndex_, writerIndex_ |-> y.writerIndex_]
        BY <1>4 DEF ensureWriteableBytes, makeSpace, Compact
  <2>3. kCheapPrepend + Len(readable(x)) <= Len(x.buffer_)
        BY <2>1, <1>0, <1>1 DEF readableBytes
  <2>4. /\ y.buffer_ \in Seq(Byte)
        /\ Len(y.buffer_) = Len(x.buffer_)
        /\ \A i \in 1 .. Len(x.buffer_) :
              y.buffer_[i] = IF i \in kCheapPrepend + 1 .. kCheapPrepend + Len(readable(x))
                             THEN readable(x)[i - kCheapPrepend] ELSE x.buffer_[i]
    <3> DEFINE p == readable(x)
    <3>1. p \in Seq(Byte) /\ kCheapPrepend + Len(p) <= Len(x.buffer_) BY <2>3, <1>0
    <3> HIDE DEF p, y
    <3>2. /\ Overwrite(x.buffer_, kCheapPrepend, p) \in Seq(Byte)
          /\ Len(Overwrite(x.buffer_, kCheapPrepend, p)) = Len(x.buffer_)
          /\ \A i \in 1 .. Len(x.buffer_) :
                Overwrite(x.buffer_, kCheapPrepend, p)[i] =
                   IF i \in kCheapPrepend + 1 .. kCheapPrepend + Len(p)
                   THEN p[i - kCheapPrepend] ELSE x.buffer_[i]
          BY <3>1, <1>1, OverwriteProperties
    <3> QED BY <3>2, <2>2 DEF p
  <2>5. WellFormed(y)
    <3>1. y.readerIndex_ \in Nat /\ y.writerIndex_ \in Nat BY <2>2, <1>0, <1>1
    <3>2. y \in [buffer_ : Seq(Byte), readerIndex_ : Nat, writerIndex_ : Nat]
          BY <2>2, <2>4, <3>1
    <3> QED BY <2>2, <2>3, <2>4, <3>2, <1>0, <1>1 DEF WellFormed
  <2>6. readableBytes(y) = readableBytes(x) BY <2>2, <1>0, <1>1 DEF readableBytes
  <2>7. ASSUME NEW i \in 1 .. readableBytes(y)
        PROVE  y.buffer_[y.readerIndex_ + i] = readable(x)[i]
    <3>1. /\ kCheapPrepend + i \in 1 .. Len(x.buffer_)
          /\ kCheapPrepend + i \in kCheapPrepend + 1 .. kCheapPrepend + Len(readable(x))
          /\ (kCheapPrepend + i) - kCheapPrepend = i
          BY <2>3, <2>6, <1>0, <1>1
    <3> HIDE DEF y
    <3>2. y.buffer_[kCheapPrepend + i] = readable(x)[(kCheapPrepend + i) - kCheapPrepend]
          BY <3>1, <2>4
    <3> QED BY <3>1, <3>2, <2>2
  <2>8. readable(y) = readable(x) BY <2>5, <2>6, <2>7, <1>0, ReadableEqual
  <2>9. writableBytes(y) >= len
    <3> DEFINE size == Len(x.buffer_)
               r == x.readerIndex_
               w == x.writerIndex_
    <3>1. writableBytes(y) = size - (kCheapPrepend + (w - r))
          BY <2>2, <2>4 DEF writableBytes, readableBytes
    <3>2. ~((size - w) + r < len + kCheapPrepend)
          BY <1>4 DEF MustGrow, writableBytes, prependableBytes
    <3>3. size \in Nat /\ r \in Nat /\ w \in Nat /\ kCheapPrepend \in Nat BY <1>0, <1>1
    <3> HIDE DEF size, r, w, y
    <3>4. size - (kCheapPrepend + (w - r)) >= len BY <3>2, <3>3
    <3> QED BY <3>1, <3>4
  <2> QED BY <2>1, <2>5, <2>8, <2>9, <1>4 DEF EnsureAsserts, MakeSpaceAssert
<1> QED BY <1>2, <1>3, <1>4

\* Bytes written behind the writer, with room for them, extend the readable bytes.
LEMMA WriteCorrect ==
  ASSUME NEW x, WellFormed(x), NEW data \in Seq(Byte), Len(data) <= writableBytes(x)
  PROVE  /\ WellFormed(WriteAtEnd(x, data))
         /\ readable(WriteAtEnd(x, data)) = readable(x) \o data
         /\ writableBytes(WriteAtEnd(x, data)) = writableBytes(x) - Len(data)
<1> DEFINE y == WriteAtEnd(x, data)
<1>0. /\ readable(x) \in Seq(Byte)
      /\ Len(readable(x)) = readableBytes(x)
      /\ readableBytes(x) \in Nat
      /\ writableBytes(x) \in Nat
      /\ Len(x.buffer_) \in Nat
      /\ \A i \in 1 .. readableBytes(x) : readable(x)[i] = x.buffer_[x.readerIndex_ + i]
      BY ReadableProperties
<1>1. /\ x.buffer_ \in Seq(Byte) /\ x.readerIndex_ \in Nat /\ x.writerIndex_ \in Nat
      /\ x.readerIndex_ <= x.writerIndex_ /\ x.writerIndex_ <= Len(x.buffer_)
      /\ kCheapPrepend <= Len(x.buffer_) /\ Len(data) \in Nat
      BY LenProperties DEF WellFormed
<1>2. x.writerIndex_ + Len(data) <= Len(x.buffer_) BY <1>0, <1>1 DEF writableBytes
<1>3. /\ y.buffer_ = Overwrite(x.buffer_, x.writerIndex_, data)
      /\ y.readerIndex_ = x.readerIndex_
      /\ y.writerIndex_ = x.writerIndex_ + Len(data)
      /\ y \in [buffer_ : {y.buffer_}, readerIndex_ : Nat, writerIndex_ : Nat]
  <2> DEFINE z == [x EXCEPT !.buffer_ = Overwrite(x.buffer_, x.writerIndex_, data)]
  <2>1. /\ z.buffer_ = Overwrite(x.buffer_, x.writerIndex_, data)
        /\ z.readerIndex_ = x.readerIndex_
        /\ z.writerIndex_ = x.writerIndex_
        /\ z \in [buffer_ : {z.buffer_}, readerIndex_ : Nat, writerIndex_ : Nat]
        BY <1>1 DEF WellFormed
  <2>2. y = [z EXCEPT !.writerIndex_ = z.writerIndex_ + Len(data)]
        BY DEF WriteAtEnd, hasWritten
  <2>3. z.writerIndex_ + Len(data) \in Nat BY <2>1, <1>1
  <2> HIDE DEF z
  <2> QED BY <2>1, <2>2, <2>3
<1>4. /\ y.buffer_ \in Seq(Byte)
      /\ Len(y.buffer_) = Len(x.buffer_)
      /\ \A i \in 1 .. Len(x.buffer_) :
            y.buffer_[i] = IF i \in x.writerIndex_ + 1 .. x.writerIndex_ + Len(data)
                           THEN data[i - x.writerIndex_] ELSE x.buffer_[i]
      BY <1>1, <1>2, <1>3, OverwriteProperties
<1>5. WellFormed(y) BY <1>1, <1>2, <1>3, <1>4 DEF WellFormed
<1>6. readableBytes(y) = readableBytes(x) + Len(data) BY <1>1, <1>3 DEF readableBytes
<1>7. /\ readable(x) \o data \in Seq(Byte)
      /\ Len(readable(x) \o data) = readableBytes(x) + Len(data)
      /\ \A i \in 1 .. readableBytes(x) + Len(data) :
            (readable(x) \o data)[i] =
               IF i <= readableBytes(x) THEN readable(x)[i] ELSE data[i - readableBytes(x)]
  <2> DEFINE p == readable(x)
  <2>1. p \in Seq(Byte) /\ Len(p) = readableBytes(x) BY <1>0
  <2> HIDE DEF p
  <2>2. /\ p \o data \in Seq(Byte)
        /\ Len(p \o data) = Len(p) + Len(data)
        /\ \A i \in 1 .. Len(p) + Len(data) :
              (p \o data)[i] = IF i <= Len(p) THEN p[i] ELSE data[i - Len(p)]
        BY <2>1, ConcatProperties
  <2> QED BY <2>1, <2>2 DEF p
<1>8. ASSUME NEW i \in 1 .. readableBytes(y)
      PROVE  y.buffer_[y.readerIndex_ + i] = (readable(x) \o data)[i]
  <2>1. i \in 1 .. readableBytes(x) + Len(data) /\ x.readerIndex_ + i \in 1 .. Len(x.buffer_)
    <3> DEFINE r == x.readerIndex_
               w == x.writerIndex_
               n == Len(data)
               size == Len(x.buffer_)
    <3>1. i \in 1 .. (w - r) + n BY <1>6 DEF readableBytes
    <3>2. /\ r \in Nat /\ w \in Nat /\ n \in Nat /\ size \in Nat
          /\ r <= w /\ w + n <= size
          BY <1>0, <1>1, <1>2
    <3> HIDE DEF r, w, n, size
    <3>3. r + i \in 1 .. size BY <3>1, <3>2
    <3> QED BY <3>1, <3>3 DEF r, w, n, size, readableBytes
  <2>2. CASE i <= readableBytes(x)
    <3>1. x.readerIndex_ + i \notin x.writerIndex_ + 1 .. x.writerIndex_ + Len(data)
          BY <2>2, <1>0, <1>1 DEF readableBytes
    <3>2. i \in 1 .. readableBytes(x) BY <2>1, <2>2, <1>0, <1>1
    <3> HIDE DEF y
    <3>3. y.buffer_[x.readerIndex_ + i] = x.buffer_[x.readerIndex_ + i] BY <2>1, <3>1, <1>4
    <3>4. (readable(x) \o data)[i] = readable(x)[i] BY <2>1, <2>2, <1>7
    <3>5. readable(x)[i] = x.buffer_[x.readerIndex_ + i] BY <3>2, <1>0
    <3> QED BY <3>3, <3>4, <3>5, <1>3
  <2>3. CASE ~(i <= readableBytes(x))
    <3>1. /\ x.readerIndex_ + i \in x.writerIndex_ + 1 .. x.writerIndex_ + Len(data)
          /\ (x.readerIndex_ + i) - x.writerIndex_ = i - readableBytes(x)
      <4> DEFINE r == x.readerIndex_
                 w == x.writerIndex_
                 n == Len(data)
      <4>1. i \in 1 .. (w - r) + n /\ ~(i <= w - r) BY <2>1, <2>3 DEF readableBytes
      <4>2. r \in Nat /\ w \in Nat /\ n \in Nat BY <1>1
      <4> HIDE DEF r, w, n
      <4>3. r + i \in w + 1 .. w + n /\ (r + i) - w = i - (w - r) BY <4>1, <4>2
      <4> QED BY <4>3 DEF r, w, n, readableBytes
    <3> HIDE DEF y
    <3>2. y.buffer_[x.readerIndex_ + i] = data[(x.readerIndex_ + i) - x.writerIndex_]
          BY <2>1, <3>1, <1>4
    <3>3. (readable(x) \o data)[i] = data[i - readableBytes(x)] BY <2>1, <2>3, <1>7
    <3> QED BY <3>1, <3>2, <3>3, <1>3
  <2> QED BY <2>2, <2>3
<1>9. readable(y) = readable(x) \o data BY <1>5, <1>6, <1>7, <1>8, ReadableEqual
<1>10. writableBytes(y) = writableBytes(x) - Len(data)
       BY <1>1, <1>3, <1>4 DEF writableBytes
<1> QED BY <1>5, <1>9, <1>10

\* append() adds the data at the end, whichever way the room is made.
LEMMA AppendCorrect ==
  ASSUME NEW x, WellFormed(x), NEW data \in Seq(Byte)
  PROVE  /\ WellFormed(append(x, data))
         /\ readable(append(x, data)) = readable(x) \o data
<1> DEFINE y == ensureWriteableBytes(x, Len(data))
<1>1. Len(data) \in Nat BY LenProperties
<1>2. WellFormed(y) /\ EnsureAsserts(x, Len(data)) /\ readable(y) = readable(x)
      BY <1>1, EnsureCorrect
<1>3. Len(data) <= writableBytes(y)
      BY <1>1, <1>2, ReadableProperties DEF EnsureAsserts
<1> QED BY <1>2, <1>3, WriteCorrect DEF append

\* prepend() puts the data in front when the caller keeps its assert.
LEMMA PrependCorrect ==
  ASSUME NEW x, WellFormed(x), NEW data \in Seq(Byte), Len(data) <= prependableBytes(x)
  PROVE  /\ WellFormed(prepend(x, data))
         /\ readable(prepend(x, data)) = data \o readable(x)
<1> DEFINE y == prepend(x, data)
           r == x.readerIndex_ - Len(data)
<1>0. /\ readable(x) \in Seq(Byte)
      /\ Len(readable(x)) = readableBytes(x)
      /\ readableBytes(x) \in Nat
      /\ Len(x.buffer_) \in Nat
      /\ \A i \in 1 .. readableBytes(x) : readable(x)[i] = x.buffer_[x.readerIndex_ + i]
      BY ReadableProperties
<1>1. /\ x.buffer_ \in Seq(Byte) /\ x.readerIndex_ \in Nat /\ x.writerIndex_ \in Nat
      /\ x.readerIndex_ <= x.writerIndex_ /\ x.writerIndex_ <= Len(x.buffer_)
      /\ kCheapPrepend <= Len(x.buffer_) /\ Len(data) \in Nat
      BY LenProperties DEF WellFormed
<1>2. r \in Nat /\ r + Len(data) = x.readerIndex_ BY <1>1 DEF prependableBytes
<1>3. /\ y.buffer_ = Overwrite(x.buffer_, r, data)
      /\ y.readerIndex_ = r
      /\ y.writerIndex_ = x.writerIndex_
      /\ y \in [buffer_ : {y.buffer_}, readerIndex_ : Nat, writerIndex_ : Nat]
      BY <1>1, <1>2 DEF prepend, WellFormed
<1>4. r + Len(data) <= Len(x.buffer_) BY <1>0, <1>1, <1>2
<1>5. /\ y.buffer_ \in Seq(Byte)
      /\ Len(y.buffer_) = Len(x.buffer_)
      /\ \A i \in 1 .. Len(x.buffer_) :
            y.buffer_[i] = IF i \in r + 1 .. r + Len(data) THEN data[i - r] ELSE x.buffer_[i]
      BY <1>1, <1>2, <1>3, <1>4, OverwriteProperties
<1>6. WellFormed(y) BY <1>0, <1>1, <1>2, <1>3, <1>5 DEF WellFormed
<1>7. readableBytes(y) = Len(data) + readableBytes(x) BY <1>1, <1>2, <1>3 DEF readableBytes
<1>8. /\ data \o readable(x) \in Seq(Byte)
      /\ Len(data \o readable(x)) = Len(data) + readableBytes(x)
      /\ \A i \in 1 .. Len(data) + readableBytes(x) :
            (data \o readable(x))[i] =
               IF i <= Len(data) THEN data[i] ELSE readable(x)[i - Len(data)]
  <2> DEFINE p == readable(x)
  <2>1. p \in Seq(Byte) /\ Len(p) = readableBytes(x) BY <1>0
  <2> HIDE DEF p
  <2>2. /\ data \o p \in Seq(Byte)
        /\ Len(data \o p) = Len(data) + Len(p)
        /\ \A i \in 1 .. Len(data) + Len(p) :
              (data \o p)[i] = IF i <= Len(data) THEN data[i] ELSE p[i - Len(data)]
        BY <2>1, ConcatProperties
  <2> QED BY <2>1, <2>2 DEF p
<1>9. ASSUME NEW i \in 1 .. readableBytes(y)
      PROVE  y.buffer_[y.readerIndex_ + i] = (data \o readable(x))[i]
  <2>0. i \in 1 .. Len(data) + readableBytes(x) BY <1>7
  <2>1. i \in 1 .. Len(data) + readableBytes(x) /\ r + i \in 1 .. Len(x.buffer_)
    <3>0. i \in Int /\ i <= Len(data) + (x.writerIndex_ - x.readerIndex_)
          BY <2>0, <1>1 DEF readableBytes
    <3>2. r + i <= x.writerIndex_
      <4> DEFINE q == x.readerIndex_
                 w == x.writerIndex_
                 n == Len(data)
      <4>1. i \in Int /\ i <= n + (w - q) /\ r + n = q BY <3>0, <1>2
      <4>2. r \in Nat /\ q \in Nat /\ w \in Nat /\ n \in Nat BY <1>1, <1>2
      <4> HIDE DEF r, q, w, n
      <4> QED BY <4>1, <4>2 DEF w
    <3>3. i \in Nat /\ i >= 1 BY <2>0, <1>0, <1>1
    <3>4. r + i \in Nat /\ r + i >= 1 BY <3>3, <1>2
    <3> QED BY <2>0, <3>2, <3>4, <1>0, <1>1
  <2>2. CASE i <= Len(data)
    <3>1. r + i \in r + 1 .. r + Len(data) /\ (r + i) - r = i
      <4> DEFINE n == Len(data)
      <4>1. r \in Nat /\ n \in Nat /\ i \in Nat /\ i >= 1 /\ i <= n
            BY <2>1, <2>2, <1>0, <1>1, <1>2
      <4> HIDE DEF r, n
      <4> QED BY <4>1 DEF n
    <3> HIDE DEF y
    <3>2. y.buffer_[r + i] = data[(r + i) - r] BY <2>1, <3>1, <1>5
    <3>3. (data \o readable(x))[i] = data[i] BY <2>1, <2>2, <1>8
    <3> QED BY <3>1, <3>2, <3>3, <1>3
  <2>3. CASE ~(i <= Len(data))
    <3>1. r + i \notin r + 1 .. r + Len(data) BY <2>1, <2>3, <1>0, <1>1, <1>2
    <3>2. /\ i - Len(data) \in 1 .. readableBytes(x)
          /\ x.readerIndex_ + (i - Len(data)) = r + i
          BY <2>1, <2>3, <1>0, <1>1, <1>2
    <3>3. readable(x)[i - Len(data)] = x.buffer_[r + i] BY <3>2, <1>0
    <3> QED BY <2>1, <2>3, <3>1, <3>3, <1>3, <1>5, <1>8
  <2> QED BY <2>2, <2>3
<1> QED BY <1>6, <1>7, <1>8, <1>9, ReadableEqual

\* readFd() appends what readv delivered, split over the vector and extrabuf.
LEMMA ReadFdCorrect ==
  ASSUME NEW x, WellFormed(x), NEW data \in Seq(Byte)
  PROVE  /\ WellFormed(readFd(x, data))
         /\ readable(readFd(x, data)) = readable(x) \o data
         /\ \/ Len(data) <= writableBytes(x)
            \/ EnsureAsserts(WriteAtEnd(x, SubSeq(data, 1, writableBytes(x))),
                             Len(data) - writableBytes(x))
<1> DEFINE room == writableBytes(x)
           head == SubSeq(data, 1, room)
           rest == SubSeq(data, room + 1, Len(data))
<1>0. readable(x) \in Seq(Byte) /\ room \in Nat /\ Len(data) \in Nat
      BY ReadableProperties, LenProperties
<1>1. CASE Len(data) <= room
      BY <1>1, WriteCorrect DEF readFd
<1>2. CASE ~(Len(data) <= room)
  <2>1. \A i \in 1 .. room : data[i] \in Byte BY <1>0, <1>2, ElementOfSeq
  <2>2. \A i \in room + 1 .. Len(data) : data[i] \in Byte BY <1>0, <1>2, ElementOfSeq
  <2>3. head \in Seq(Byte) /\ Len(head) = room
    <3>1. 1 \in Int /\ room \in Int BY <1>0
    <3>2. head \in Seq(Byte) /\ Len(head) = IF 1 <= room THEN room - 1 + 1 ELSE 0
          BY <2>1, <3>1, SubSeqProperties
    <3> QED BY <3>2, <1>0
  <2>4. rest \in Seq(Byte)
    <3>1. room + 1 \in Int /\ Len(data) \in Int BY <1>0
    <3> QED BY <2>2, <3>1, SubSeqProperties
  <2>5. head \o rest = data
    <3>1. /\ 1 \in 1 .. Len(data) + 1 /\ room \in 1 - 1 .. Len(data)
          /\ Len(data) \in room .. Len(data)
          BY <1>0, <1>2
    <3>2. head \o rest = SubSeq(data, 1, Len(data)) BY <3>1, ConcatAdjacentSubSeq
    <3> QED BY <3>2, SubSeqFull
  <2>6. /\ WellFormed(WriteAtEnd(x, head))
        /\ readable(WriteAtEnd(x, head)) = readable(x) \o head
    <3>1. head \in Seq(Byte) /\ Len(head) <= writableBytes(x) BY <2>3, <1>0
    <3> HIDE DEF head
    <3> QED BY <3>1, WriteCorrect
  <2>7. /\ WellFormed(append(WriteAtEnd(x, head), rest))
        /\ readable(append(WriteAtEnd(x, head), rest)) = (readable(x) \o head) \o rest
        BY <2>4, <2>6, AppendCorrect
  <2>8. readFd(x, data) = append(WriteAtEnd(x, head), rest) BY <1>2 DEF readFd
  <2>9. EnsureAsserts(WriteAtEnd(x, head), Len(data) - room)
    <3>1. Len(data) - room \in Nat BY <1>0, <1>2
    <3> QED BY <2>6, <3>1, EnsureCorrect
  <2>10. (readable(x) \o head) \o rest = readable(x) \o data
    <3> DEFINE p == readable(x)
    <3>1. p \in Seq(Byte) /\ head \in Seq(Byte) /\ rest \in Seq(Byte) BY <1>0, <2>3, <2>4
    <3> HIDE DEF p, head, rest
    <3>2. (p \o head) \o rest = p \o (head \o rest) BY <3>1, ConcatAssociative
    <3> QED BY <3>2, <2>5 DEF p
  <2> QED BY <2>7, <2>8, <2>9, <2>10
<1> QED BY <1>1, <1>2

\* As many bytes become readable as are appended.
LEMMA AppendedBytes ==
  ASSUME NEW x, WellFormed(x), NEW y, WellFormed(y), NEW data \in Seq(Byte),
         readable(y) = readable(x) \o data
  PROVE  readableBytes(y) = readableBytes(x) + Len(data)
<1> DEFINE p == readable(x)
<1>1. p \in Seq(Byte) /\ Len(p) = readableBytes(x) BY ReadableProperties
<1>2. Len(readable(y)) = readableBytes(y) BY ReadableProperties
<1> HIDE DEF p
<1>3. Len(p \o data) = Len(p) + Len(data) BY <1>1, ConcatProperties
<1> QED BY <1>1, <1>2, <1>3 DEF p

-----------------------------------------------------------------------------
\* The vector grows by ensureWriteableBytes() only when the header's bytes, the
\* readable bytes and the bytes asked for exceed it.
LEMMA EnsureGrowth ==
  ASSUME NEW x, WellFormed(x), NEW len \in Nat,
         Len(ensureWriteableBytes(x, len).buffer_) > Len(x.buffer_)
  PROVE  kCheapPrepend + readableBytes(x) + len > Len(x.buffer_)
<1> DEFINE y == ensureWriteableBytes(x, len)
<1>0. /\ readable(x) \in Seq(Byte) /\ Len(readable(x)) = readableBytes(x)
      /\ Len(x.buffer_) \in Nat
      BY ReadableProperties
<1>1. /\ x.buffer_ \in Seq(Byte) /\ x.readerIndex_ \in Nat /\ x.writerIndex_ \in Nat
      /\ x.readerIndex_ <= x.writerIndex_ /\ x.writerIndex_ <= Len(x.buffer_)
      /\ kCheapPrepend \in Nat
      BY SizesAssumption DEF WellFormed
<1>2. writableBytes(x) < len
  <2> SUFFICES ASSUME ~(writableBytes(x) < len) PROVE FALSE OBVIOUS
  <2>1. y = x BY DEF ensureWriteableBytes
  <2> QED BY <2>1, <1>0
<1>3. MustGrow(x, len)
  <2> SUFFICES ASSUME ~MustGrow(x, len) PROVE FALSE OBVIOUS
  <2>1. kCheapPrepend < x.readerIndex_
        BY <1>0, <1>1, <1>2 DEF MustGrow, prependableBytes, writableBytes
  <2>2. kCheapPrepend + Len(readable(x)) <= Len(x.buffer_)
        BY <2>1, <1>0, <1>1 DEF readableBytes
  <2> DEFINE p == readable(x)
             z == Overwrite(x.buffer_, kCheapPrepend, p)
  <2>3. y.buffer_ = z BY <1>2 DEF ensureWriteableBytes, makeSpace, Compact
  <2>4. p \in Seq(Byte) /\ kCheapPrepend + Len(p) <= Len(x.buffer_) BY <2>2, <1>0
  <2> HIDE DEF p
  <2>5. Len(z) = Len(x.buffer_) BY <2>4, <1>1, OverwriteProperties
  <2> QED BY <2>3, <2>5, <1>0
<1> QED BY <1>0, <1>1, <1>3 DEF MustGrow, writableBytes, prependableBytes, readableBytes

\* Writing behind the writer leaves the vector's size.
LEMMA WriteKeepsSize ==
  ASSUME NEW x, WellFormed(x), NEW data \in Seq(Byte), Len(data) <= writableBytes(x)
  PROVE  Len(WriteAtEnd(x, data).buffer_) = Len(x.buffer_)
<1>1. /\ x \in [buffer_ : Seq(Byte), readerIndex_ : Nat, writerIndex_ : Nat]
      /\ x.buffer_ \in Seq(Byte) /\ x.writerIndex_ \in Nat
      /\ Len(x.buffer_) \in Nat /\ Len(data) \in Nat
      BY LenProperties DEF WellFormed
<1>2. x.writerIndex_ + Len(data) <= Len(x.buffer_) BY <1>1 DEF writableBytes
<1>3. WriteAtEnd(x, data).buffer_ = Overwrite(x.buffer_, x.writerIndex_, data)
      BY <1>1 DEF WriteAtEnd, hasWritten
<1> QED BY <1>1, <1>2, <1>3, OverwriteProperties

\* append() grows the vector only when the header's bytes and all that is then
\* readable exceed it.
LEMMA AppendGrowth ==
  ASSUME NEW x, WellFormed(x), NEW data \in Seq(Byte),
         Len(append(x, data).buffer_) > Len(x.buffer_)
  PROVE  kCheapPrepend + readableBytes(append(x, data)) > Len(x.buffer_)
<1> DEFINE y == ensureWriteableBytes(x, Len(data))
<1>1. Len(data) \in Nat BY LenProperties
<1>2. WellFormed(y) /\ EnsureAsserts(x, Len(data)) BY <1>1, EnsureCorrect
<1>3. Len(data) <= writableBytes(y)
      BY <1>1, <1>2, ReadableProperties DEF EnsureAsserts
<1>4. Len(append(x, data).buffer_) = Len(y.buffer_)
      BY <1>2, <1>3, WriteKeepsSize DEF append
<1>5. kCheapPrepend + readableBytes(x) + Len(data) > Len(x.buffer_)
      BY <1>1, <1>4, EnsureGrowth
<1>6. readableBytes(append(x, data)) = readableBytes(x) + Len(data)
      BY AppendCorrect, AppendedBytes
<1>7. readableBytes(x) \in Nat /\ kCheapPrepend \in Nat BY ReadableProperties, SizesAssumption
<1> HIDE DEF y
<1> QED BY <1>1, <1>5, <1>6, <1>7

\* readFd() grows the vector only when the header's bytes and all that is then
\* readable exceed it.
LEMMA ReadFdGrowth ==
  ASSUME NEW x, WellFormed(x), NEW data \in Seq(Byte),
         Len(readFd(x, data).buffer_) > Len(x.buffer_)
  PROVE  kCheapPrepend + readableBytes(readFd(x, data)) > Len(x.buffer_)
<1> DEFINE room == writableBytes(x)
           head == SubSeq(data, 1, room)
           rest == SubSeq(data, room + 1, Len(data))
           full == WriteAtEnd(x, head)
<1>0. room \in Nat /\ Len(data) \in Nat /\ Len(x.buffer_) \in Nat
      BY ReadableProperties, LenProperties
<1>1. ~(Len(data) <= room)
  <2> SUFFICES ASSUME Len(data) <= room PROVE FALSE OBVIOUS
  <2>1. readFd(x, data) = WriteAtEnd(x, data) BY DEF readFd
  <2>2. Len(WriteAtEnd(x, data).buffer_) = Len(x.buffer_) BY WriteKeepsSize
  <2> QED BY <2>1, <2>2, <1>0
<1>2. readFd(x, data) = append(full, rest) BY <1>1 DEF readFd
<1>3. head \in Seq(Byte) /\ Len(head) = room
  <2>1. \A i \in 1 .. room : data[i] \in Byte BY <1>0, <1>1, ElementOfSeq
  <2>2. 1 \in Int /\ room \in Int BY <1>0
  <2>3. head \in Seq(Byte) /\ Len(head) = IF 1 <= room THEN room - 1 + 1 ELSE 0
        BY <2>1, <2>2, SubSeqProperties
  <2> QED BY <2>3, <1>0
<1>4. rest \in Seq(Byte)
  <2>1. \A i \in room + 1 .. Len(data) : data[i] \in Byte BY <1>0, ElementOfSeq
  <2>2. room + 1 \in Int /\ Len(data) \in Int BY <1>0
  <2> QED BY <2>1, <2>2, SubSeqProperties
<1>5. WellFormed(full) /\ Len(full.buffer_) = Len(x.buffer_)
  <2>1. head \in Seq(Byte) /\ Len(head) <= writableBytes(x) BY <1>0, <1>3
  <2> HIDE DEF head
  <2> QED BY <2>1, WriteCorrect, WriteKeepsSize
<1> HIDE DEF full, rest
<1> QED BY <1>2, <1>4, <1>5, AppendGrowth

-----------------------------------------------------------------------------
\* The three properties hold together: the asserts need the order of the indices.
BufferInv == TypeOK /\ failed = "no" /\ ReadableIsContent

\* What the calls are given is a sequence of bytes.
LEMMA DataIsSeq == \A data \in Data : data \in Seq(Byte) /\ Len(data) \in Nat
BY SeqDef, LenProperties, SizesAssumption DEF Data

\* A new buffer holds nothing behind the header's bytes.
LEMMA BufferInit == Init => BufferInv
<1> SUFFICES ASSUME Init PROVE BufferInv OBVIOUS
<1> DEFINE n == kCheapPrepend + kInitialSize
           zeros == [i \in 1 .. n |-> Zero]
<1>1. n \in Nat /\ zeros \in [1 .. n -> Byte] BY SizesAssumption
<1>2. zeros \in Seq(Byte) /\ Len(zeros) = n BY <1>1, FunctionIsSeq
<1>3. WellFormed(b) /\ readableBytes(b) = 0
      BY <1>2, SizesAssumption DEF Init, WellFormed, readableBytes
<1>4. content \in Seq(Byte) /\ Len(content) = 0 /\ failed = "no" BY EmptySeq DEF Init
<1>5. \A i \in 1 .. readableBytes(b) : b.buffer_[b.readerIndex_ + i] = content[i] BY <1>3
<1>6. readable(b) = content BY <1>3, <1>4, <1>5, ReadableEqual
<1> QED BY <1>3, <1>4, <1>6 DEF BufferInv, TypeOK, ReadableIsContent

\* Each call keeps the invariant, by the lemma on its method.
LEMMA BufferStep == BufferInv /\ [Next]_vars => BufferInv'
<1> SUFFICES ASSUME BufferInv, [Next]_vars PROVE BufferInv' OBVIOUS
<1>0. WellFormed(b) /\ content = readable(b) /\ failed = "no" /\ content \in Seq(Byte)
      BY DEF BufferInv, TypeOK, ReadableIsContent
<1>i. ASSUME WellFormed(b'), readable(b)' = content', failed' = "no" PROVE BufferInv'
  <2>1. readable(b') \in Seq(Byte) BY <1>i, ReadableProperties
  <2>2. readable(b)' = readable(b') BY DEF readable
  <2> QED BY <1>i, <2>1, <2>2 DEF BufferInv, TypeOK, ReadableIsContent, WellFormed
<1>1. CASE Append_
  <2>1. PICK data \in Data : /\ b' = append(b, data) /\ content' = content \o data
                             /\ failed' = IF EnsureAsserts(b, Len(data)) THEN failed ELSE "assert"
        BY <1>1 DEF Append_
  <2>2. data \in Seq(Byte) /\ Len(data) \in Nat BY DataIsSeq
  <2>3. WellFormed(b') /\ readable(b') = content \o data BY <2>1, <2>2, <1>0, AppendCorrect
  <2>4. EnsureAsserts(b, Len(data)) BY <2>2, <1>0, EnsureCorrect
  <2> QED BY <2>1, <2>3, <2>4, <1>0, <1>i DEF readable
<1>2. CASE EnsureWriteable
  <2>1. PICK len \in 0 .. MaxData :
             /\ b' = ensureWriteableBytes(b, len) /\ content' = content
             /\ failed' = IF EnsureAsserts(b, len) THEN failed ELSE "assert"
        BY <1>2 DEF EnsureWriteable
  <2>2. len \in Nat BY SizesAssumption
  <2>3. WellFormed(b') /\ EnsureAsserts(b, len) /\ readable(b') = readable(b)
        BY <2>1, <2>2, <1>0, EnsureCorrect
  <2> QED BY <2>1, <2>3, <1>0, <1>i DEF readable
<1>3. CASE Prepend
  <2>1. PICK data \in Data : /\ Len(data) <= prependableBytes(b)
                             /\ b' = prepend(b, data) /\ content' = data \o content
                             /\ failed' = failed
        BY <1>3 DEF Prepend
  <2>2. data \in Seq(Byte) BY DataIsSeq
  <2>3. WellFormed(b') /\ readable(b') = data \o content BY <2>1, <2>2, <1>0, PrependCorrect
  <2> QED BY <2>1, <2>3, <1>0, <1>i DEF readable
<1>4. CASE Retrieve
  <2>1. PICK len \in 0 .. readableBytes(b) :
             /\ b' = retrieve(b, len)
             /\ content' = SubSeq(content, len + 1, Len(content)) /\ failed' = failed
        BY <1>4 DEF Retrieve
  <2>2. WellFormed(b') /\ readable(b') = SubSeq(content, len + 1, Len(content))
        BY <2>1, <1>0, RetrieveCorrect
  <2> QED BY <2>1, <2>2, <1>0, <1>i DEF readable
<1>5. CASE RetrieveAll
  <2>1. b' = retrieveAll(b) /\ content' = <<>> /\ failed' = failed BY <1>5 DEF RetrieveAll
  <2>2. WellFormed(b') /\ readable(b') = content' BY <2>1, <1>0, RetrieveAllCorrect
  <2> QED BY <2>1, <2>2, <1>0, <1>i DEF readable
<1>6. CASE ReadFd
  <2>1. PICK data \in Data :
             /\ b' = readFd(b, data) /\ content' = content \o data
             /\ failed' = IF \/ Len(data) <= writableBytes(b)
                             \/ EnsureAsserts(WriteAtEnd(b, SubSeq(data, 1, writableBytes(b))),
                                              Len(data) - writableBytes(b))
                          THEN failed ELSE "assert"
        BY <1>6 DEF ReadFd
  <2>2. data \in Seq(Byte) BY DataIsSeq
  <2>3. /\ WellFormed(b') /\ readable(b') = content \o data
        /\ \/ Len(data) <= writableBytes(b)
           \/ EnsureAsserts(WriteAtEnd(b, SubSeq(data, 1, writableBytes(b))),
                            Len(data) - writableBytes(b))
        BY <2>1, <2>2, <1>0, ReadFdCorrect
  <2> QED BY <2>1, <2>3, <1>0, <1>i DEF readable
<1>7. CASE UNCHANGED vars
      BY <1>7 DEF vars, BufferInv, TypeOK, WellFormed, ReadableIsContent, readable
<1> QED BY <1>1, <1>2, <1>3, <1>4, <1>5, <1>6, <1>7 DEF Next

\* The invariant of the buffer, in every state legal calls reach.
THEOREM BufferInvariant == Spec => []BufferInv
BY BufferInit, BufferStep, PTL DEF Spec

\* Indices in order, inside the vector.
THEOREM BufferTypeCorrect == Spec => []TypeOK
<1>1. BufferInv => TypeOK BY DEF BufferInv
<1> QED BY <1>1, BufferInvariant, PTL

\* The asserts of ensureWriteableBytes, hasWritten and makeSpace never fail, for
\* every vector size and every length.
THEOREM BufferAssertsHold == Spec => []AssertsHold
<1>1. BufferInv => AssertsHold BY DEF BufferInv, AssertsHold
<1> QED BY <1>1, BufferInvariant, PTL

\* The buffer is a byte queue: nothing is lost, duplicated or reordered by the
\* moves, the growth and the two-part read.
THEOREM BufferIsQueue == Spec => []ReadableIsContent
<1>1. BufferInv => ReadableIsContent BY DEF BufferInv
<1> QED BY <1>1, BufferInvariant, PTL

\* No other call changes the size, and the calls that grow the vector had to.
LEMMA GrowthStep ==
  ASSUME BufferInv, Next, Len(b'.buffer_) > Len(b.buffer_)
  PROVE  \/ kCheapPrepend + readableBytes(b') > Len(b.buffer_)
         \/ content' = content
            /\ kCheapPrepend + readableBytes(b') + writableBytes(b') > Len(b.buffer_)
<1>0. WellFormed(b) /\ Len(b.buffer_) \in Nat /\ b.buffer_ \in Seq(Byte)
      BY LenProperties DEF BufferInv, TypeOK, WellFormed
<1>1. CASE Append_
  <2>1. PICK data \in Data : b' = append(b, data) BY <1>1 DEF Append_
  <2> QED BY <2>1, <1>0, DataIsSeq, AppendGrowth
<1>2. CASE EnsureWriteable
  <2>1. PICK len \in 0 .. MaxData : b' = ensureWriteableBytes(b, len) /\ content' = content
        BY <1>2 DEF EnsureWriteable
  <2>2. len \in Nat BY SizesAssumption
  <2>3. WellFormed(b') /\ EnsureAsserts(b, len) /\ readable(b') = readable(b)
        BY <2>1, <2>2, <1>0, EnsureCorrect
  <2>4. readableBytes(b') = readableBytes(b) /\ writableBytes(b') >= len
        BY <2>1, <2>3, <1>0, ReadableProperties DEF EnsureAsserts
  <2>5. kCheapPrepend + readableBytes(b) + len > Len(b.buffer_)
        BY <2>1, <2>2, <1>0, EnsureGrowth
  <2>6. /\ readableBytes(b) \in Nat /\ writableBytes(b') \in Nat /\ kCheapPrepend \in Nat
        BY <2>3, <1>0, ReadableProperties, SizesAssumption
  <2> QED BY <2>1, <2>2, <2>4, <2>5, <2>6, <1>0
<1>3. CASE Prepend
  <2>1. PICK data \in Data : Len(data) <= prependableBytes(b) /\ b' = prepend(b, data)
        BY <1>3 DEF Prepend
  <2>2. data \in Seq(Byte) /\ Len(data) \in Nat BY DataIsSeq
  <2> DEFINE r == b.readerIndex_ - Len(data)
  <2>3. /\ b.readerIndex_ \in Nat /\ b.writerIndex_ \in Nat
        /\ b.readerIndex_ <= b.writerIndex_ /\ b.writerIndex_ <= Len(b.buffer_)
        BY <1>0 DEF WellFormed
  <2>4. r \in Nat /\ r + Len(data) <= Len(b.buffer_)
        BY <2>1, <2>2, <2>3, <1>0 DEF prependableBytes
  <2>5. b'.buffer_ = Overwrite(b.buffer_, r, data)
        BY <2>1, <1>0 DEF prepend, WellFormed
  <2> HIDE DEF r
  <2>6. Len(Overwrite(b.buffer_, r, data)) = Len(b.buffer_)
        BY <2>2, <2>4, <1>0, OverwriteProperties
  <2> QED BY <2>5, <2>6, <1>0
<1>4. CASE Retrieve
  <2>1. PICK len \in 0 .. readableBytes(b) : b' = retrieve(b, len) BY <1>4 DEF Retrieve
  <2>2. b'.buffer_ = b.buffer_ BY <2>1, <1>0 DEF retrieve, retrieveAll, WellFormed
  <2> QED BY <2>2, <1>0
<1>5. CASE RetrieveAll
  <2>1. b'.buffer_ = b.buffer_ BY <1>5, <1>0 DEF RetrieveAll, retrieveAll, WellFormed
  <2> QED BY <2>1, <1>0
<1>6. CASE ReadFd
  <2>1. PICK data \in Data : b' = readFd(b, data) BY <1>6 DEF ReadFd
  <2> QED BY <2>1, <1>0, DataIsSeq, ReadFdGrowth
<1> QED BY <1>1, <1>2, <1>3, <1>4, <1>5, <1>6 DEF Next

\* The vector grows only when moving the readable bytes to the front would not
\* have made the room (makeSpace, Buffer.h:274).
THEOREM BufferGrowsWhenFull == Spec => GrowsOnlyWhenFull
<1>1. BufferInv /\ [Next]_vars =>
        [Len(b'.buffer_) > Len(b.buffer_) =>
           \/ kCheapPrepend + readableBytes(b') > Len(b.buffer_)
           \/ content' = content
              /\ kCheapPrepend + readableBytes(b') + writableBytes(b') > Len(b.buffer_)]_vars
      BY GrowthStep
<1> QED BY <1>1, BufferInvariant, PTL DEF Spec, GrowsOnlyWhenFull
=============================================================================
