-------------------------------- MODULE Buffer --------------------------------
(***************************************************************************)
(* net/buffer.h, buffer.cpp and endian.h: a vector of bytes with a reader  *)
(* and a writer index, shown to implement ByteDeque.  Index i of the code  *)
(* is byte i + 1 of the sequence buffer_.  The asserts on arguments are    *)
(* the guards of the calls.                                                *)
(***************************************************************************)
EXTENDS Integers, Sequences

CONSTANTS kCheapPrepend, kInitialSize,
          ExtraSize,  \* size of ReadFd's extrabuf (65536 in the code)
          Base, Widths, MaxArg, CR, LF,  \* see ByteDeque
          MaxSize     \* bound: size of the vector

ASSUME BufferAssumption ==
  /\ kCheapPrepend \in Nat /\ kInitialSize \in Nat /\ ExtraSize \in Nat
  /\ Base \in Nat \ {0} /\ MaxArg \in Nat /\ MaxSize \in Nat
  /\ Widths \subseteq Nat \ {0}

VARIABLES buf,  \* the members of the Buffer
          io    \* the last call, as in ByteDeque

vars == <<buf, io>>

Byte == 0 .. Base - 1
Strings == UNION {[1 .. n -> Byte] : n \in 0 .. MaxArg}
Ints(w) == [1 .. w -> Byte]
Call(op, arg, ret) == [op |-> op, arg |-> arg, ret |-> ret]
-----------------------------------------------------------------------------
(* The private state and the operations on it, as functions of a Buffer b. *)

Members(v, r, w) == [buffer_ |-> v, reader_index_ |-> r, writer_index_ |-> w]

New(initial_size) ==
  Members([i \in 1 .. kCheapPrepend + initial_size |-> 0], kCheapPrepend, kCheapPrepend)

ReadableBytes(b) == b.writer_index_ - b.reader_index_
WritableBytes(b) == Len(b.buffer_) - b.writer_index_
PrependableBytes(b) == b.reader_index_

\* ToStringPiece(): the bytes from Peek() to BeginWrite().
ToStringPiece(b) == SubSeq(b.buffer_, b.reader_index_ + 1, b.writer_index_)

\* std::copy of s to offset at.
CopyTo(v, at, s) ==
  [i \in 1 .. Len(v) |-> IF i \in at + 1 .. at + Len(s) THEN s[i - at] ELSE v[i]]

RetrieveAll(b) == Members(b.buffer_, kCheapPrepend, kCheapPrepend)

Retrieved(b, len) ==
  IF len < ReadableBytes(b)
  THEN Members(b.buffer_, b.reader_index_ + len, b.writer_index_) ELSE RetrieveAll(b)

MustResizeAlways(b, len) == TRUE
MustResizeTight(b, len) == WritableBytes(b) + PrependableBytes(b) < len
MustResize(b, len) == WritableBytes(b) + PrependableBytes(b) < len + kCheapPrepend

Resized(v, n) == [i \in 1 .. n |-> IF i <= Len(v) THEN v[i] ELSE 0]

MakeSpace(b, len) ==
  IF MustResize(b, len)
  THEN Members(Resized(b.buffer_, b.writer_index_ + len), b.reader_index_, b.writer_index_)
  ELSE Members(CopyTo(b.buffer_, kCheapPrepend, ToStringPiece(b)),
               kCheapPrepend, kCheapPrepend + ReadableBytes(b))

EnsureOneLess(b, len) == IF WritableBytes(b) + 1 < len THEN MakeSpace(b, len) ELSE b
EnsureWritableBytes(b, len) == IF WritableBytes(b) < len THEN MakeSpace(b, len) ELSE b

\* The caller has put s at BeginWrite(); HasWritten(len) makes it readable.
HasWritten(b, s) ==
  Members(CopyTo(b.buffer_, b.writer_index_, s), b.reader_index_, b.writer_index_ + Len(s))

Appended(b, s) == HasWritten(EnsureWritableBytes(b, Len(s)), s)

Prepended(b, s) ==
  LET r == b.reader_index_ - Len(s) IN Members(CopyTo(b.buffer_, r, s), r, b.writer_index_)

Unwritten(b, len) == Members(b.buffer_, b.reader_index_, b.writer_index_ - len)

Shrunk(b, reserve) ==
  Appended(EnsureWritableBytes(New(kInitialSize), ReadableBytes(b) + reserve), ToStringPiece(b))

\* readv() fills the writable bytes and then extrabuf.
ReadFdResult(b, s) ==
  LET writable == WritableBytes(b)
  IN IF Len(s) <= writable
     THEN HasWritten(b, s)
     ELSE Appended(HasWritten(b, SubSeq(s, 1, writable)), SubSeq(s, writable + 1, Len(s)))
ReadFdMax(b) ==
  WritableBytes(b) + (IF WritableBytes(b) < ExtraSize THEN ExtraSize ELSE 0)

\* An integer is its digits, most significant first.  The host is little-endian:
\* its memory holds the digits the other way round.  htobe and betoh reverse the
\* bytes of the integer in memory.
Reversed(s) == [i \in 1 .. Len(s) |-> s[Len(s) + 1 - i]]
InMemory(x) == Reversed(x)
FromMemory(s) == Reversed(s)
HostToNetwork(mem) == Reversed(mem)
NetworkToHost(mem) == Reversed(mem)

PeekedInt(b, w) == FromMemory(NetworkToHost(SubSeq(ToStringPiece(b), 1, w)))

\* Where std::search and memchr over [start, BeginWrite()) match.
SearchedCRLFInVector(b, start) ==
  {i \in start .. Len(b.buffer_) - 2 : b.buffer_[i + 1] = CR /\ b.buffer_[i + 2] = LF}
SearchedCRLF(b, start) ==
  {i \in start .. b.writer_index_ - 2 : b.buffer_[i + 1] = CR /\ b.buffer_[i + 2] = LF}
SearchedEOL(b, start) == {i \in start .. b.writer_index_ - 1 : b.buffer_[i + 1] = LF}
-----------------------------------------------------------------------------
(* The calls. *)

Init == buf = New(kInitialSize) /\ io = Call("new", <<>>, <<>>)

Returns(op, arg, ret) == io' = Call(op, arg, ret)
Becomes(b) == Len(b.buffer_) <= MaxSize /\ buf' = b

AppendBytes(s) == Becomes(Appended(buf, s)) /\ Returns("Append", s, <<>>)

\* EnsureWritableBytes() by itself, a write at BeginWrite() and HasWritten().
Reserve(len) == Becomes(EnsureWritableBytes(buf, len)) /\ Returns("Reserve", <<>>, <<>>)
WriteInPlace(s) ==
  /\ Len(s) <= WritableBytes(buf)
  /\ Becomes(HasWritten(buf, s))
  /\ Returns("Append", s, <<>>)

Prepend(s) ==
  /\ Len(s) <= PrependableBytes(buf)
  /\ Becomes(Prepended(buf, s))
  /\ Returns("Prepend", s, <<>>)

AppendInt(x) ==
  /\ Becomes(Appended(buf, HostToNetwork(InMemory(x))))
  /\ Returns("AppendInt", x, <<>>)

PrependInt(x) ==
  /\ Len(x) <= PrependableBytes(buf)
  /\ Becomes(Prepended(buf, HostToNetwork(InMemory(x))))
  /\ Returns("PrependInt", x, <<>>)

Retrieve(len) ==
  /\ len <= ReadableBytes(buf)
  /\ Becomes(Retrieved(buf, len))
  /\ Returns("Retrieve", <<len>>, <<>>)

RetrieveUntil(end) ==
  /\ PrependableBytes(buf) <= end /\ end <= buf.writer_index_
  /\ Retrieve(end - PrependableBytes(buf))

RetrieveInt(w) == Retrieve(w)

RetrieveAsString(len) ==
  /\ len <= ReadableBytes(buf)
  /\ Becomes(Retrieved(buf, len))
  /\ Returns("RetrieveAsString", <<len>>, SubSeq(ToStringPiece(buf), 1, len))

PeekInt(w) ==
  /\ w <= ReadableBytes(buf)
  /\ Returns("PeekInt", <<w>>, PeekedInt(buf, w))
  /\ UNCHANGED buf

ReadInt(w) ==
  /\ w <= ReadableBytes(buf)
  /\ Becomes(Retrieved(buf, w))
  /\ Returns("ReadInt", <<w>>, PeekedInt(buf, w))

Unwrite(len) ==
  /\ len <= ReadableBytes(buf)
  /\ buf' = Unwritten(buf, len)
  /\ Returns("Unwrite", <<len>>, <<>>)

\* Positions are passed and returned as pointers, here as offsets from Peek();
\* NULL when nothing matches.
Find(op, start, S) ==
  /\ PrependableBytes(buf) <= start /\ start <= buf.writer_index_
  /\ LET arg == <<start - buf.reader_index_>> IN
     \/ S = {} /\ Returns(op, arg, <<>>)
     \/ \E i \in S : (\A j \in S : i <= j) /\ Returns(op, arg, <<i - buf.reader_index_>>)
  /\ UNCHANGED buf
FindCRLF(start) == Find("FindCRLF", start, SearchedCRLF(buf, start))
FindEOL(start) == Find("FindEOL", start, SearchedEOL(buf, start))

Shrink(reserve) == Becomes(Shrunk(buf, reserve)) /\ Returns("Reserve", <<>>, <<>>)

ReadFd(s) ==
  /\ Len(s) <= ReadFdMax(buf)
  /\ Becomes(ReadFdResult(buf, s))
  /\ Returns("ReadFd", s, <<Len(s)>>)
ReadFdFails == Returns("ReadFd", <<>>, <<-1>>) /\ UNCHANGED buf

Next ==
  \/ \E s \in Strings : AppendBytes(s) \/ WriteInPlace(s) \/ Prepend(s) \/ ReadFd(s)
  \/ ReadFdFails
  \/ \E w \in Widths :
       \/ \E x \in Ints(w) : AppendInt(x) \/ PrependInt(x)
       \/ RetrieveInt(w) \/ PeekInt(w) \/ ReadInt(w)
  \/ \E n \in 0 .. MaxSize :
       \/ Reserve(n) \/ Shrink(n) \/ Unwrite(n)
       \/ Retrieve(n) \/ RetrieveUntil(n) \/ RetrieveAsString(n)
       \/ FindCRLF(n) \/ FindEOL(n)

Spec == Init /\ [][Next]_vars
-----------------------------------------------------------------------------
(* Properties *)

IsBuffer(b) ==
  /\ b \in [buffer_ : Seq(Byte), reader_index_ : Nat, writer_index_ : Nat]
  /\ b.reader_index_ <= b.writer_index_
  /\ b.writer_index_ <= Len(b.buffer_) /\ kCheapPrepend <= Len(b.buffer_)

\* The picture above the class: 0 <= reader_index <= writer_index <= size, over
\* a vector of bytes with room for the cheap prepend area, whatever the order of
\* appends, prepends and retrievals.
TypeOK == IsBuffer(buf)

\* The asserts inside EnsureWritableBytes() and MakeSpace() hold for every
\* length a caller may ask for next: the readable bytes are only ever moved
\* towards the front, and the room asked for is there afterwards.
AssertsHold ==
  \A len \in 0 .. MaxSize :
    WritableBytes(buf) < len =>
      /\ ~MustResize(buf, len) => kCheapPrepend < buf.reader_index_
      /\ WritableBytes(MakeSpace(buf, len)) >= len
      /\ ReadableBytes(MakeSpace(buf, len)) = ReadableBytes(buf)

\* The vector grows only when the readable bytes, the room asked for and the
\* cheap prepend area do not fit in it: space freed at the front is used first.
GrowsOnlyWhenFull ==
  [][Len(buf'.buffer_) > Len(buf.buffer_) =>
       Len(buf'.buffer_) - buf'.reader_index_ + kCheapPrepend > Len(buf.buffer_)]_vars

\* The buffer is a double-ended queue of bytes: every call returns and leaves
\* what ByteDeque says, in spite of moved data, stale bytes outside the
\* readable area, the two-part read of ReadFd() and the byte order of integers.
Abstract == INSTANCE ByteDeque WITH content <- ToStringPiece(buf)
ImplementsByteDeque == Abstract!Spec
=============================================================================
