-------------------------------- MODULE Buffer --------------------------------
(***************************************************************************)
(* net::Buffer: a vector of bytes with a reader and a writer index.  The   *)
(* readable bytes lie between them; the kCheapPrepend bytes in front are   *)
(* kept for a header.  append() first makes room, by moving the readable   *)
(* bytes to the front when that is enough and by growing the vector        *)
(* otherwise; readFd() reads into the vector and a stack buffer at once.   *)
(*                                                                         *)
(* The buffer is one value b = [buffer_, readerIndex_, writerIndex_] and   *)
(* every method is an operator on it.  size_t arithmetic is exact on the   *)
(* normal paths (sizes stay under MaxSize); the failing readv, where it    *)
(* wraps, is modelled with its width in readFdFails.                       *)
(***************************************************************************)
EXTENDS Integers, Sequences

CONSTANTS Byte,           \* the byte values told apart
          Zero,           \* the byte vector::resize fills with
          kCheapPrepend,  \* 8 in the code
          kInitialSize,   \* 1024 in the code
          ExtraBuf,       \* sizeof(extrabuf) in readFd, 65536 in the code
          MaxData,        \* bound: the longest data of one call
          MaxSize,        \* bound: the readable bytes stay under it
          SizeMax         \* 2^w, the modulus of size_t

ASSUME SizesAssumption ==
    /\ Zero \in Byte
    /\ kCheapPrepend \in Nat
    /\ kInitialSize \in Nat
    /\ ExtraBuf \in Nat
    /\ MaxData \in Nat
    /\ MaxSize \in Nat
    /\ SizeMax \in Nat

VARIABLES b,       \* the buffer
          content, \* ghost: the byte queue a user of the buffer has in mind
          failed   \* "no", "assert" (a failed assert), "overrun" (a copy out of bounds)

vars == <<b, content, failed>>

-----------------------------------------------------------------------------
(* Methods. *)

readableBytes(x) == x.writerIndex_ - x.readerIndex_

writableBytes(x) == Len(x.buffer_) - x.writerIndex_

prependableBytes(x) == x.readerIndex_

\* peek() .. beginWrite(): the readable bytes.
readable(x) == SubSeq(x.buffer_, x.readerIndex_ + 1, x.writerIndex_)

\* std::copy(data, data + len, begin() + at)
Overwrite(bytes, at, data) ==
    [i \in 1 .. Len(bytes) |->
        IF i \in at + 1 .. at + Len(data) THEN data[i - at] ELSE bytes[i]]

\* vector::resize(n): value-initialised bytes at the end, or the end cut off.
Resize(bytes, n) == [i \in 1 .. n |-> IF i <= Len(bytes) THEN bytes[i] ELSE Zero]

retrieveAll(x) ==
    [x EXCEPT !.readerIndex_ = kCheapPrepend, !.writerIndex_ = kCheapPrepend]

\* retrieve(len): consuming everything resets both indices.
retrieve(x, len) ==
    IF len < readableBytes(x)
    THEN [x EXCEPT !.readerIndex_ = x.readerIndex_ + len]
    ELSE retrieveAll(x)

\* The move to the front: readerIndex_ becomes kCheapPrepend.
Compact(x) ==
    [buffer_      |-> Overwrite(x.buffer_, kCheapPrepend, readable(x)),
     readerIndex_ |-> kCheapPrepend,
     writerIndex_ |-> kCheapPrepend + readableBytes(x)]

\* Mutant of MustGrow: the bytes kept for a header are not counted.
MustGrowNoHeader(x, len) == writableBytes(x) + prependableBytes(x) < len

\* makeSpace's test: even with the free bytes in front there is no room.
MustGrow(x, len) ==
    writableBytes(x) + prependableBytes(x) < len + kCheapPrepend

\* Mutant of makeSpace: the new size forgets the bytes in front of the reader.
makeSpaceTooSmall(x, len) ==
    IF MustGrow(x, len)
    THEN [x EXCEPT !.buffer_ = Resize(x.buffer_, readableBytes(x) + len)]
    ELSE Compact(x)

\* Mutant of makeSpace: it never moves the bytes to the front.
makeSpaceAlwaysGrows(x, len) ==
    [x EXCEPT !.buffer_ = Resize(x.buffer_, x.writerIndex_ + len)]

makeSpace(x, len) ==
    IF MustGrow(x, len)
    THEN [x EXCEPT !.buffer_ = Resize(x.buffer_, x.writerIndex_ + len)]
    ELSE Compact(x)

\* makeSpace's assert(kCheapPrepend < readerIndex_) before the move.
MakeSpaceAssert(x, len) == MustGrow(x, len) \/ kCheapPrepend < x.readerIndex_

ensureWriteableBytes(x, len) ==
    IF writableBytes(x) < len THEN makeSpace(x, len) ELSE x

\* The asserts ensureWriteableBytes and what it calls run.
EnsureAsserts(x, len) ==
    /\ writableBytes(x) < len => MakeSpaceAssert(x, len)
    /\ writableBytes(ensureWriteableBytes(x, len)) >= len

hasWritten(x, len) == [x EXCEPT !.writerIndex_ = x.writerIndex_ + len]

\* Bytes written at beginWrite(), then hasWritten().
WriteAtEnd(x, data) ==
    hasWritten([x EXCEPT !.buffer_ = Overwrite(x.buffer_, x.writerIndex_, data)],
               Len(data))

append(x, data) == WriteAtEnd(ensureWriteableBytes(x, Len(data)), data)

prepend(x, data) ==
    LET r == x.readerIndex_ - Len(data)
    IN  [x EXCEPT !.readerIndex_ = r, !.buffer_ = Overwrite(x.buffer_, r, data)]

\* readv's capacity: extrabuf is offered only while the vector has less room.
ReadvRoom(x) ==
    IF writableBytes(x) < ExtraBuf THEN writableBytes(x) + ExtraBuf ELSE writableBytes(x)

\* Mutant of readFd: what went to extrabuf is copied from its start again after
\* the writer index was advanced by the whole length.
readFdLosesRest(x, data) ==
    LET room == writableBytes(x)
    IN  IF Len(data) <= room
        THEN WriteAtEnd(x, data)
        ELSE append(WriteAtEnd(x, SubSeq(data, 1, room)), SubSeq(data, 1, Len(data) - room))

\* readFd() when readv delivers data: what fits goes to the vector, the rest
\* is appended from extrabuf.
readFd(x, data) ==
    LET room == writableBytes(x)
        full == WriteAtEnd(x, SubSeq(data, 1, room))
    IN  IF Len(data) <= room
        THEN WriteAtEnd(x, data)
        ELSE append(full, SubSeq(data, room + 1, Len(data)))

-----------------------------------------------------------------------------
(* The calls. *)

Data == UNION {[1 .. n -> Byte] : n \in 0 .. MaxData}

Init ==
    /\ b = [buffer_      |-> [i \in 1 .. kCheapPrepend + kInitialSize |-> Zero],
            readerIndex_ |-> kCheapPrepend,
            writerIndex_ |-> kCheapPrepend]
    /\ content = <<>>
    /\ failed = "no"

\* append(data, len), appendInt8 .. appendInt64, and a write at beginWrite()
\* after ensureWriteableBytes(): all end as bytes behind the writer index.
Append_ ==
    \E data \in Data :
        /\ readableBytes(b) + Len(data) <= MaxSize
        /\ b' = append(b, data)
        /\ content' = content \o data
        /\ failed' = IF EnsureAsserts(b, Len(data)) THEN failed ELSE "assert"

\* ensureWriteableBytes(len) on its own.
EnsureWriteable ==
    \E len \in 0 .. MaxData :
        /\ readableBytes(b) + len <= MaxSize
        /\ b' = ensureWriteableBytes(b, len)
        /\ UNCHANGED content
        /\ failed' = IF EnsureAsserts(b, len) THEN failed ELSE "assert"

\* prepend(data, len); the assert is the caller's obligation.
Prepend ==
    \E data \in Data :
        /\ Len(data) <= prependableBytes(b)
        /\ readableBytes(b) + Len(data) <= MaxSize
        /\ b' = prepend(b, data)
        /\ content' = data \o content
        /\ UNCHANGED failed

\* retrieve(len) and everything that ends in it: retrieveUtil, retrieveInt*,
\* readInt*, retrieveAsString; the assert is the caller's obligation.
Retrieve ==
    \E len \in 0 .. readableBytes(b) :
        /\ b' = retrieve(b, len)
        /\ content' = SubSeq(content, len + 1, Len(content))
        /\ UNCHANGED failed

RetrieveAll ==
    /\ b' = retrieveAll(b)
    /\ content' = <<>>
    /\ UNCHANGED failed

\* readFd(fd, &err) with a readv that delivers 0 or more bytes.
ReadFd ==
    \E data \in Data :
        /\ Len(data) <= ReadvRoom(b)
        /\ readableBytes(b) + Len(data) <= MaxSize
        /\ b' = readFd(b, data)
        /\ content' = content \o data
        /\ failed' =
             LET room == writableBytes(b)
                 full == WriteAtEnd(b, SubSeq(data, 1, room))
             IN  IF Len(data) <= room \/ EnsureAsserts(full, Len(data) - room)
                 THEN failed ELSE "assert"

Next == \/ Append_ \/ EnsureWriteable \/ Prepend
        \/ Retrieve \/ RetrieveAll \/ ReadFd

Spec == Init /\ [][Next]_vars

-----------------------------------------------------------------------------
\* readFd() when readv returns -1 (EAGAIN, ECONNRESET, ...).  n is a size_t, so
\* n < 0 is false and n is SizeMax - 1: writerIndex_ becomes buffer_.size() and
\* append() is called with a length that does not exist.  Every sum below
\* wraps as the code's does.
readFdFails ==
    LET len  == (SizeMax - 1 - writableBytes(b)) % SizeMax
        size == Len(b.buffer_)
        grow == b.readerIndex_ < (len + kCheapPrepend) % SizeMax
        newSize == (size + len) % SizeMax
        room == IF grow THEN (newSize - size) % SizeMax
                        ELSE b.readerIndex_ - kCheapPrepend
    IN  /\ failed' = IF \/ ~grow /\ ~(kCheapPrepend < b.readerIndex_)
                        \/ room < len
                     THEN "assert"     \* Buffer.h:279 or Buffer.h:139
                     ELSE "overrun"    \* std::copy of len bytes out of extrabuf
        /\ UNCHANGED <<b, content>>

\* The calls with a socket that may report an error.
SpecWithReadErrors == Init /\ [][failed = "no" /\ (Next \/ readFdFails)]_vars

-----------------------------------------------------------------------------
\* A buffer as the methods keep it.
WellFormed(x) ==
    /\ x \in [buffer_ : Seq(Byte), readerIndex_ : Nat, writerIndex_ : Nat]
    /\ x.readerIndex_ <= x.writerIndex_
    /\ x.writerIndex_ <= Len(x.buffer_)
    /\ kCheapPrepend <= Len(x.buffer_)

\* The indices stay in order inside the vector, and the vector never loses the
\* kCheapPrepend bytes in front.
TypeOK ==
    /\ WellFormed(b)
    /\ content \in Seq(Byte)
    /\ failed \in {"no", "assert", "overrun"}

\* No sequence of legal calls makes an assert of append, ensureWriteableBytes
\* or makeSpace fail (Buffer.h:139, 150, 279).
AssertsHold == failed # "assert"

\* The vector grows only when moving the readable bytes to the front would not
\* have made room: kCheapPrepend and the bytes now readable (or the room now
\* asked for) did not fit the old vector.
GrowsOnlyWhenFull ==
    [][Len(b'.buffer_) > Len(b.buffer_) =>
         \/ kCheapPrepend + readableBytes(b') > Len(b.buffer_)
         \/ content' = content
            /\ kCheapPrepend + readableBytes(b') + writableBytes(b') > Len(b.buffer_)]_vars

\* Whatever is moved, grown or overwritten, the readable bytes are those of a
\* plain queue: appended at the end, consumed and prepended at the front.
ReadableIsContent == readable(b) = content

\* TcpConnection::handleRead (TcpConnection.cpp:244) handles readFd() == -1 as an
\* ordinary error: a failed readv must neither fail an assert nor copy out of
\* bounds.
ReadErrorIsHandled == failed = "no"
=============================================================================
