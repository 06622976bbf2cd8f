------------------------------- MODULE Buffer -------------------------------
(***************************************************************************)
(* src/include/Buffer.h and src/src/Buffer.cpp: bytes in a vector between  *)
(* a reader and a writer index.  Each operator takes a buffer and gives    *)
(* the buffer the member function leaves behind.  Bytes outside the two    *)
(* indices stay in the vector: code that looks past the writer index sees  *)
(* them.                                                                   *)
(***************************************************************************)
EXTENDS Integers, Sequences

CONSTANTS
    kCheapPrepend,  \* bytes kept free in front
    kInitialSize,   \* bytes a new buffer can take
    Zero            \* what vector::resize fills with

ASSUME BufferSizes == kCheapPrepend \in Nat /\ kInitialSize \in Nat

\* Buffer::Buffer
NewBuffer ==
    [data |-> [i \in 0..(kCheapPrepend + kInitialSize - 1) |-> Zero],
     size |-> kCheapPrepend + kInitialSize,
     readerIndex_ |-> kCheapPrepend,
     writerIndex_ |-> kCheapPrepend]

readableBytes(b) == b.writerIndex_ - b.readerIndex_
writableBytes(b) == b.size - b.writerIndex_
prependableBytes(b) == b.readerIndex_

\* peek(), for readableBytes() bytes
Content(b) == [i \in 1..readableBytes(b) |-> b.data[b.readerIndex_ + i - 1]]

retrieveAll(b) ==
    [b EXCEPT !.readerIndex_ = kCheapPrepend, !.writerIndex_ = kCheapPrepend]

retrieve(b, len) ==
    IF len < readableBytes(b) THEN [b EXCEPT !.readerIndex_ = @ + len] ELSE retrieveAll(b)

\* buffer_.resize(writerIndex_ + len)
Grow(b, len) ==
    [b EXCEPT !.data = [i \in 0..(b.writerIndex_ + len - 1) |->
                            IF i < b.size THEN b.data[i] ELSE Zero],
              !.size = b.writerIndex_ + len]

\* Mutant: the indices move and the bytes do not.
MovesIndicesOnly(b) ==
    [b EXCEPT !.readerIndex_ = kCheapPrepend,
              !.writerIndex_ = kCheapPrepend + readableBytes(b)]

\* The unread bytes move to the front.
Compact(b) ==
    [b EXCEPT !.data = [i \in 0..(b.size - 1) |->
                            IF i \in kCheapPrepend..(kCheapPrepend + readableBytes(b) - 1)
                            THEN b.data[b.readerIndex_ + (i - kCheapPrepend)]
                            ELSE b.data[i]],
              !.readerIndex_ = kCheapPrepend,
              !.writerIndex_ = kCheapPrepend + readableBytes(b)]

makeSpace(b, len) ==
    IF writableBytes(b) + prependableBytes(b) < len + kCheapPrepend
    THEN Grow(b, len) ELSE Compact(b)

ensureWritableBytes(b, len) == IF writableBytes(b) < len THEN makeSpace(b, len) ELSE b

\* Bytes are stored behind the writer index, which moves past them.
Put(b, bytes) ==
    [b EXCEPT !.data = [i \in 0..(b.size - 1) |->
                            IF i \in b.writerIndex_..(b.writerIndex_ + Len(bytes) - 1)
                            THEN bytes[i - b.writerIndex_ + 1]
                            ELSE b.data[i]],
              !.writerIndex_ = @ + Len(bytes)]

append(b, bytes) == Put(ensureWritableBytes(b, Len(bytes)), bytes)

\* readv into the writable part and extrabuf, of which the second is appended.
\* bytes are what the socket gave; a read fills at most both.
readFd(b, bytes) ==
    LET writable == writableBytes(b) IN
    IF Len(bytes) <= writable
    THEN Put(b, bytes)
    ELSE append(Put(b, SubSeq(bytes, 1, writable)), SubSeq(bytes, writable + 1, Len(bytes)))

\* A buffer as the class leaves it.
IsBuffer(b) ==
    /\ kCheapPrepend <= b.readerIndex_
    /\ b.readerIndex_ <= b.writerIndex_
    /\ b.writerIndex_ <= b.size
    /\ DOMAIN b.data = 0..(b.size - 1)
=============================================================================
