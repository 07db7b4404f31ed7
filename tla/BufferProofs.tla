--------------------------- MODULE BufferProofs ----------------------------
(***************************************************************************)
(* Proofs about Buffer for every size, every prepend area and every bound: *)
(* the indexes stay ordered and inside the vector, the asserts of          *)
(* MakeSpace() hold, the vector grows only when its contents and the room  *)
(* asked for do not fit, and every call is one of ByteDeque.  First what   *)
(* the helpers do to the bytes: making room, appending, prepending and     *)
(* retrieving.                                                             *)
(***************************************************************************)
EXTENDS Buffer, SequenceTheorems, TLAPS

\* Zenon proves the leaves that do not name a prover.
USE ZenonT(30)

USE BufferAssumption

\* std::copy into the vector keeps its size and writes bytes.
LEMMA CopyToType ==
  ASSUME NEW v \in Seq(Byte), NEW at \in Nat, NEW s \in Seq(Byte)
  PROVE  /\ CopyTo(v, at, s) \in Seq(Byte)
         /\ Len(CopyTo(v, at, s)) = Len(v)
<1> DEFINE f == CopyTo(v, at, s)
<1>1. ASSUME NEW i \in 1 .. Len(v)
      PROVE  (IF i \in at + 1 .. at + Len(s) THEN s[i - at] ELSE v[i]) \in Byte
  <2>1. CASE i \in at + 1 .. at + Len(s)
    <3>1. i - at \in 1 .. Len(s)
      BY SMTT(30), <2>1
    <3>2. s[i - at] \in Byte
      BY <3>1, ElementOfSeq
    <3> QED  BY <3>2, <2>1
  <2>2. CASE i \notin at + 1 .. at + Len(s)
    BY <2>2, ElementOfSeq
  <2> QED  BY <2>1, <2>2
<1>2. f \in [1 .. Len(v) -> Byte]
  BY <1>1 DEF CopyTo
<1>3. Len(v) \in Nat
  BY SMTT(30)
<1> QED  BY SMTT(30), <1>2, <1>3, SeqDef, LenProperties

\* The readable bytes are a string, from the reader's index on.
LEMMA ContentType ==
  ASSUME NEW b, IsBuffer(b)
  PROVE  /\ ToStringPiece(b) \in Seq(Byte)
         /\ Len(ToStringPiece(b)) = ReadableBytes(b)
         /\ ReadableBytes(b) \in Nat
         /\ \A i \in 1 .. ReadableBytes(b) : ToStringPiece(b)[i] = b.buffer_[b.reader_index_ + i]
<1> DEFINE m == b.reader_index_ + 1
           n == b.writer_index_
           v == b.buffer_
<1>1. m \in Int /\ n \in Int /\ v \in Seq(Byte) /\ n <= Len(v) /\ m <= n + 1 /\ m >= 1
  BY SMTT(30) DEF IsBuffer
<1>2. \A i \in m .. n : v[i] \in Byte
  BY SMTT(30), <1>1, ElementOfSeq
<1> HIDE DEF v
<1>3. /\ SubSeq(v, m, n) \in Seq(Byte)
      /\ Len(SubSeq(v, m, n)) = IF m <= n THEN n - m + 1 ELSE 0
      /\ \A i \in 1 .. n - m + 1 : SubSeq(v, m, n)[i] = v[m + i - 1]
  BY SMTT(30), <1>1, <1>2, SubSeqProperties
<1>4. ToStringPiece(b) = SubSeq(v, m, n)
  BY DEF ToStringPiece, v
<1>5. ReadableBytes(b) = n - m + 1 /\ ReadableBytes(b) \in Nat
  BY SMTT(30), <1>1 DEF ReadableBytes, IsBuffer
<1>6. ASSUME NEW i \in 1 .. ReadableBytes(b)
      PROVE  ToStringPiece(b)[i] = v[b.reader_index_ + i]
  <2>1. ToStringPiece(b)[i] = v[m + i - 1]
    BY <1>3, <1>4, <1>5
  <2>2. m + i - 1 = b.reader_index_ + i
    BY SMTT(30), <1>1, <1>5 DEF IsBuffer
  <2> QED  BY <2>1, <2>2
<1> QED  BY SMTT(30), <1>1, <1>3, <1>4, <1>5, <1>6 DEF v

\* A buffer whose readable area holds the bytes of c holds c.
LEMMA ContentIs ==
  ASSUME NEW b, IsBuffer(b), NEW c \in Seq(Byte), Len(c) = ReadableBytes(b),
         \A i \in 1 .. Len(c) : b.buffer_[b.reader_index_ + i] = c[i]
  PROVE  ToStringPiece(b) = c
<1>1. /\ ToStringPiece(b) \in Seq(Byte)
      /\ Len(ToStringPiece(b)) = Len(c)
      /\ \A i \in 1 .. Len(c) : ToStringPiece(b)[i] = c[i]
  BY ContentType
<1> QED  BY <1>1, SeqEqual

\* The bytes of v from offset r on are the string c.
HoldsAt(v, r, c) == \A i \in 1 .. Len(c) : v[r + i] = c[i]

\* Members that hold the string c between the two indexes.
LEMMA Holds ==
  ASSUME NEW v \in Seq(Byte), NEW r \in Nat, NEW w \in Nat, r <= w, w <= Len(v),
         kCheapPrepend <= Len(v),
         NEW c \in Seq(Byte), Len(c) = w - r, HoldsAt(v, r, c)
  PROVE  /\ IsBuffer(Members(v, r, w))
         /\ ToStringPiece(Members(v, r, w)) = c
<1> DEFINE b == Members(v, r, w)
<1>1. b.buffer_ = v /\ b.reader_index_ = r /\ b.writer_index_ = w
  BY DEF Members
<1>2. b \in [buffer_ : Seq(Byte), reader_index_ : Nat, writer_index_ : Nat]
  BY DEF Members
<1> HIDE DEF b
<1>3. IsBuffer(b)
  BY <1>1, <1>2 DEF IsBuffer
<1>4. Len(c) = ReadableBytes(b)
  BY <1>1 DEF ReadableBytes
<1>5. \A i \in 1 .. Len(c) : b.buffer_[b.reader_index_ + i] = c[i]
  BY <1>1 DEF HoldsAt
<1>6. ToStringPiece(b) = c
  BY <1>3, <1>4, <1>5, ContentIs
<1> QED  BY <1>3, <1>6 DEF b

\* The constructor makes an empty buffer with the room asked for.
LEMMA NewBuffer ==
  ASSUME NEW k \in Nat
  PROVE  /\ IsBuffer(New(k))
         /\ ToStringPiece(New(k)) = <<>>
         /\ WritableBytes(New(k)) = k
         /\ New(k).reader_index_ = kCheapPrepend
<1> DEFINE v == [i \in 1 .. kCheapPrepend + k |-> 0]
<1>1. v \in [1 .. kCheapPrepend + k -> Byte] /\ kCheapPrepend + k \in Nat
  BY SMTT(30) DEF Byte
<1>2. v \in Seq(Byte) /\ Len(v) = kCheapPrepend + k
  BY SMTT(30), <1>1, SeqDef, LenProperties
<1>3. New(k) = Members(v, kCheapPrepend, kCheapPrepend)
  BY DEF New
<1> HIDE DEF v
<1>4. /\ <<>> \in Seq(Byte)
      /\ Len(<<>>) = kCheapPrepend - kCheapPrepend
      /\ HoldsAt(v, kCheapPrepend, <<>>)
  BY SMTT(30), EmptySeq DEF HoldsAt
<1>5. kCheapPrepend <= kCheapPrepend /\ kCheapPrepend <= Len(v)
  BY SMTT(30), <1>2
<1>6. IsBuffer(New(k)) /\ ToStringPiece(New(k)) = <<>>
  BY <1>2, <1>3, <1>4, <1>5, Holds
<1> QED  BY SMTT(30), <1>2, <1>3, <1>6 DEF WritableBytes, Members

\* What buffer members are, spelled out once.
LEMMA Bounds ==
  ASSUME NEW b, IsBuffer(b)
  PROVE  /\ b.buffer_ \in Seq(Byte) /\ Len(b.buffer_) \in Nat
         /\ b.reader_index_ \in Nat /\ b.writer_index_ \in Nat
         /\ b.reader_index_ <= b.writer_index_ /\ b.writer_index_ <= Len(b.buffer_)
         /\ kCheapPrepend <= Len(b.buffer_)
         /\ ReadableBytes(b) = b.writer_index_ - b.reader_index_
         /\ WritableBytes(b) = Len(b.buffer_) - b.writer_index_
         /\ PrependableBytes(b) = b.reader_index_
         /\ ReadableBytes(b) \in Nat /\ WritableBytes(b) \in Nat
BY SMTT(30) DEF IsBuffer, ReadableBytes, WritableBytes, PrependableBytes

\* Bytes written at BeginWrite() and counted by HasWritten() end up behind the
\* readable ones.
LEMMA HasWrittenAppends ==
  ASSUME NEW b, IsBuffer(b), NEW s \in Seq(Byte), Len(s) <= WritableBytes(b)
  PROVE  /\ IsBuffer(HasWritten(b, s))
         /\ ToStringPiece(HasWritten(b, s)) = ToStringPiece(b) \o s
         /\ Len(HasWritten(b, s).buffer_) = Len(b.buffer_)
         /\ HasWritten(b, s).reader_index_ = b.reader_index_
<1> DEFINE old == b.buffer_
           r == b.reader_index_
           w == b.writer_index_
           v == CopyTo(old, w, s)
           p == ToStringPiece(b)
           c == p \o s
           n == Len(p)
           w2 == w + Len(s)
<1>1. /\ old \in Seq(Byte) /\ r \in Nat /\ w \in Nat /\ r <= w
      /\ Len(s) \in Nat /\ Len(old) \in Nat
      /\ w + Len(s) <= Len(old) /\ kCheapPrepend <= Len(old)
  BY SMTT(30), Bounds
<1>2. v \in Seq(Byte) /\ Len(v) = Len(old)
  BY <1>1, CopyToType
<1>3. /\ p \in Seq(Byte) /\ n = w - r /\ n \in Nat
      /\ \A i \in 1 .. n : p[i] = old[r + i]
  BY ContentType, Bounds
<1>4. ASSUME NEW j \in 1 .. Len(old)
      PROVE  v[j] = IF j \in w + 1 .. w + Len(s) THEN s[j - w] ELSE old[j]
  BY DEF CopyTo
<1>5. HasWritten(b, s) = Members(v, r, w2)
  BY DEF HasWritten
<1> HIDE DEF old, r, w, v, p, n
<1>6. /\ c \in Seq(Byte) /\ Len(c) = n + Len(s)
      /\ \A i \in 1 .. n + Len(s) : c[i] = IF i <= n THEN p[i] ELSE s[i - n]
  BY <1>1, <1>3, ConcatProperties DEF n
<1> HIDE DEF c
<1>7. HoldsAt(v, r, c)
  <2> SUFFICES ASSUME NEW i \in 1 .. Len(c)
               PROVE  v[r + i] = c[i]
    BY DEF HoldsAt
  <2>0. i \in Nat /\ i >= 1 /\ r + i \in 1 .. Len(old) /\ i \in 1 .. n + Len(s)
    BY SMTT(30), <1>1, <1>3, <1>6
  <2>1. CASE i <= n
    <3>1. r + i \notin w + 1 .. w + Len(s) /\ i \in 1 .. n
      BY SMTT(30), <2>0, <2>1, <1>1, <1>3
    <3> QED  BY <3>1, <2>0, <2>1, <1>3, <1>4, <1>6
  <2>2. CASE i > n
    <3>1. PICK j \in 1 .. Len(old) : j = r + i
      BY <2>0
    <3>2. j \in w + 1 .. w + Len(s) /\ j - w = i - n /\ ~(i <= n)
      BY SMTT(30), <3>1, <2>2, <2>0, <1>1, <1>3
    <3>3. v[j] = s[j - w]
      BY <3>2, <1>4
    <3>4. c[i] = s[i - n]
      BY <3>2, <2>0, <1>6
    <3> QED  BY <3>1, <3>2, <3>3, <3>4
  <2> QED  BY SMTT(30), <2>0, <2>1, <2>2, <1>3
<1>8. Len(c) = w2 - r /\ r <= w2 /\ w2 \in Nat /\ w2 <= Len(v) /\ kCheapPrepend <= Len(v)
  BY SMTT(30), <1>1, <1>2, <1>3, <1>6
<1> HIDE DEF w2
<1>9. IsBuffer(Members(v, r, w2)) /\ ToStringPiece(Members(v, r, w2)) = c
  BY <1>1, <1>2, <1>6, <1>7, <1>8, Holds
<1>10. Members(v, r, w2).buffer_ = v /\ Members(v, r, w2).reader_index_ = r
  BY DEF Members
<1> QED  BY <1>2, <1>5, <1>9, <1>10 DEF c, p, old, r

\* MakeSpace() keeps the readable bytes and makes the room it was asked for; it
\* moves bytes only towards the front, and it makes the vector longer only when
\* bytes, room and prepend area do not fit.
LEMMA MakeSpaceMakesSpace ==
  ASSUME NEW b, IsBuffer(b), NEW len \in Nat, WritableBytes(b) < len
  PROVE  /\ IsBuffer(MakeSpace(b, len))
         /\ ToStringPiece(MakeSpace(b, len)) = ToStringPiece(b)
         /\ WritableBytes(MakeSpace(b, len)) >= len
         /\ ~MustResize(b, len) => kCheapPrepend < b.reader_index_
         /\ \/ Len(MakeSpace(b, len).buffer_) = Len(b.buffer_)
            \/ /\ MakeSpace(b, len).reader_index_ = b.reader_index_
               /\ Len(MakeSpace(b, len).buffer_) = b.writer_index_ + len
               /\ ReadableBytes(b) + len + kCheapPrepend > Len(b.buffer_)
<1> DEFINE old == b.buffer_
           r == b.reader_index_
           w == b.writer_index_
           p == ToStringPiece(b)
<1>1. /\ old \in Seq(Byte) /\ r \in Nat /\ w \in Nat /\ r <= w /\ w <= Len(old)
      /\ Len(old) \in Nat /\ Len(old) - w < len /\ ReadableBytes(b) = w - r
      /\ ReadableBytes(b) \in Nat /\ kCheapPrepend <= Len(old)
  BY Bounds
<1>2. /\ p \in Seq(Byte) /\ Len(p) = w - r /\ Len(p) \in Nat
      /\ \A i \in 1 .. Len(p) : p[i] = old[r + i]
  BY ContentType, Bounds
<1>3. MustResize(b, len) <=> Len(old) - w + r < len + kCheapPrepend
  BY DEF MustResize, WritableBytes, PrependableBytes
<1>4. CASE MustResize(b, len)
  <2> DEFINE m == w + len
             v == Resized(old, m)
             d == Members(v, r, w)
  <2>1. m \in Nat /\ w <= m /\ Len(old) < m /\ kCheapPrepend <= m
    BY SMTT(30), <1>1
  <2>2. v \in [1 .. m -> Byte]
    BY SMTT(30), <1>1, ElementOfSeq DEF Resized, Byte
  <2>3. v \in Seq(Byte) /\ Len(v) = m
    BY SMTT(30), <2>1, <2>2, SeqDef, LenProperties
  <2>4. \A i \in 1 .. m : i <= Len(old) => v[i] = old[i]
    BY DEF Resized
  <2>5. MakeSpace(b, len) = d
    BY <1>4 DEF MakeSpace
  <2> HIDE DEF v
  <2>6. HoldsAt(v, r, p)
    <3> SUFFICES ASSUME NEW i \in 1 .. Len(p)
                 PROVE  v[r + i] = p[i]
      BY DEF HoldsAt
    <3>1. r + i \in 1 .. m /\ r + i <= Len(old)
      BY SMTT(30), <1>1, <1>2, <2>1
    <3> QED  BY <3>1, <2>4, <1>2
  <2>11. w <= Len(v) /\ kCheapPrepend <= Len(v)
    BY <2>1, <2>3
  <2>7. IsBuffer(d) /\ ToStringPiece(d) = p
    BY SMTT(30), <1>1, <1>2, <2>3, <2>6, <2>11, Holds
  <2>8. d.buffer_ = v /\ d.reader_index_ = r /\ d.writer_index_ = w
    BY DEF Members
  <2>9. WritableBytes(d) = m - w
    BY <2>3, <2>8 DEF WritableBytes
  <2>10. ReadableBytes(b) + len + kCheapPrepend > Len(old)
    <3>1. Len(old) - w + r < len + kCheapPrepend
      BY <1>3, <1>4
    <3> HIDE DEF old, r, w
    <3> QED  BY SMTT(30), <1>1, <3>1
  <2> QED  BY SMTT(30), <1>1, <1>4, <2>3, <2>5, <2>7, <2>8, <2>9, <2>10
<1>5. CASE ~MustResize(b, len)
  <2> DEFINE k == kCheapPrepend
             v == CopyTo(old, k, p)
             w2 == k + ReadableBytes(b)
             d == Members(v, k, w2)
  <2>1. k < r
    BY SMTT(30), <1>1, <1>3, <1>5
  <2>2. v \in Seq(Byte) /\ Len(v) = Len(old)
    BY <1>1, <1>2, CopyToType
  <2>3. \A j \in 1 .. Len(old) : j \in k + 1 .. k + Len(p) => v[j] = p[j - k]
    BY DEF CopyTo
  <2>4. MakeSpace(b, len) = d
    BY <1>5 DEF MakeSpace
  <2> HIDE DEF v
  <2>5. w2 \in Nat /\ k <= w2 /\ w2 <= Len(v) /\ Len(p) = w2 - k /\ Len(v) - w2 >= len
    <3>1. ReadableBytes(b) = Len(p) /\ w2 = k + Len(p)
      BY <1>1, <1>2
    <3> HIDE DEF old, r, w, p, w2
    <3>2. Len(v) - w + r >= len + k
      BY SMTT(30), <1>1, <1>3, <1>5, <2>2
    <3> QED  BY SMTT(30), <3>1, <3>2, <1>1, <1>2, <2>2
  <2>6. HoldsAt(v, k, p)
    <3> SUFFICES ASSUME NEW i \in 1 .. Len(p)
                 PROVE  v[k + i] = p[i]
      BY DEF HoldsAt
    <3>1. PICK j \in 1 .. Len(old) : j = k + i
      BY SMTT(30), <2>5, <2>2, <1>2
    <3>2. j \in k + 1 .. k + Len(p) /\ j - k = i
      BY SMTT(30), <3>1, <1>2
    <3> QED  BY <3>1, <3>2, <2>3
  <2>7. d.buffer_ = v /\ d.reader_index_ = k /\ d.writer_index_ = w2
    BY DEF Members
  <2>8. WritableBytes(d) = Len(v) - w2
    BY <2>7 DEF WritableBytes
  <2> HIDE DEF w2
  <2> HIDE DEF k
  <2>10. k \in Nat
    BY DEF k
  <2>11. kCheapPrepend <= Len(v)
    BY <1>1, <2>2
  <2>9. IsBuffer(d) /\ ToStringPiece(d) = p
    BY <1>2, <2>2, <2>5, <2>6, <2>10, <2>11, Holds
  <2> QED  BY <2>1, <2>2, <2>4, <2>5, <2>7, <2>8, <2>9 DEF k
<1> QED  BY <1>4, <1>5

\* d is not longer than b, unless what b holds and was asked for did not fit.
Tight(b, d) ==
  Len(d.buffer_) > Len(b.buffer_) =>
    Len(d.buffer_) - d.reader_index_ + kCheapPrepend > Len(b.buffer_)

\* EnsureWritableBytes() changes nothing but the room.
LEMMA EnsureMakesRoom ==
  ASSUME NEW b, IsBuffer(b), NEW len \in Nat
  PROVE  /\ IsBuffer(EnsureWritableBytes(b, len))
         /\ ToStringPiece(EnsureWritableBytes(b, len)) = ToStringPiece(b)
         /\ WritableBytes(EnsureWritableBytes(b, len)) >= len
         /\ Tight(b, EnsureWritableBytes(b, len))
<1> DEFINE d == MakeSpace(b, len)
<1>1. CASE WritableBytes(b) < len
  <2>1. EnsureWritableBytes(b, len) = d
    BY <1>1 DEF EnsureWritableBytes
  <2> HIDE DEF d
  <2>2. /\ IsBuffer(d) /\ ToStringPiece(d) = ToStringPiece(b) /\ WritableBytes(d) >= len
        /\ \/ Len(d.buffer_) = Len(b.buffer_)
           \/ /\ d.reader_index_ = b.reader_index_
              /\ Len(d.buffer_) = b.writer_index_ + len
              /\ ReadableBytes(b) + len + kCheapPrepend > Len(b.buffer_)
    BY <1>1, MakeSpaceMakesSpace DEF d
  <2>3. CASE Len(d.buffer_) = Len(b.buffer_)
    <3>1. Len(b.buffer_) \in Nat
      BY Bounds
    <3> QED  BY SMTT(30), <2>1, <2>2, <2>3, <3>1 DEF Tight
  <2>4. CASE /\ d.reader_index_ = b.reader_index_
             /\ Len(d.buffer_) = b.writer_index_ + len
             /\ ReadableBytes(b) + len + kCheapPrepend > Len(b.buffer_)
    <3>1. Len(d.buffer_) - d.reader_index_ + kCheapPrepend > Len(b.buffer_)
      BY SMTT(30), <2>4, Bounds
    <3> QED  BY <2>1, <2>2, <3>1 DEF Tight
  <2> QED  BY <2>2, <2>3, <2>4
<1>2. CASE ~(WritableBytes(b) < len)
  <2>1. EnsureWritableBytes(b, len) = b
    BY <1>2 DEF EnsureWritableBytes
  <2>2. WritableBytes(b) >= len /\ Len(b.buffer_) \in Nat
    BY SMTT(30), <1>2, Bounds
  <2> QED  BY SMTT(30), <2>1, <2>2 DEF Tight
<1> QED  BY <1>1, <1>2

\* Append() adds its bytes behind the readable ones.
LEMMA AppendedAppends ==
  ASSUME NEW b, IsBuffer(b), NEW s \in Seq(Byte)
  PROVE  /\ IsBuffer(Appended(b, s))
         /\ ToStringPiece(Appended(b, s)) = ToStringPiece(b) \o s
         /\ Tight(b, Appended(b, s))
<1> DEFINE d == EnsureWritableBytes(b, Len(s))
<1>1. Len(s) \in Nat
  BY SMTT(30)
<1>2. /\ IsBuffer(d) /\ ToStringPiece(d) = ToStringPiece(b)
      /\ WritableBytes(d) >= Len(s) /\ Tight(b, d)
  BY <1>1, EnsureMakesRoom
<1>3. Appended(b, s) = HasWritten(d, s)
  BY DEF Appended
<1> HIDE DEF d
<1>4. Len(s) <= WritableBytes(d)
  BY <1>1, <1>2, Bounds
<1> DEFINE e == HasWritten(d, s)
<1>5. /\ IsBuffer(e) /\ ToStringPiece(e) = ToStringPiece(d) \o s
      /\ Len(e.buffer_) = Len(d.buffer_) /\ e.reader_index_ = d.reader_index_
  BY <1>2, <1>4, HasWrittenAppends
<1> HIDE DEF e
<1>6. Tight(b, e)
  BY <1>2, <1>5 DEF Tight
<1> QED  BY <1>2, <1>3, <1>5, <1>6 DEF e

\* Prepend() puts its bytes before the readable ones.
LEMMA PrependedPrepends ==
  ASSUME NEW b, IsBuffer(b), NEW s \in Seq(Byte), Len(s) <= PrependableBytes(b)
  PROVE  /\ IsBuffer(Prepended(b, s))
         /\ ToStringPiece(Prepended(b, s)) = s \o ToStringPiece(b)
         /\ Len(Prepended(b, s).buffer_) = Len(b.buffer_)
<1> DEFINE old == b.buffer_
           r == b.reader_index_
           w == b.writer_index_
           r2 == r - Len(s)
           v == CopyTo(old, r2, s)
           p == ToStringPiece(b)
           c == s \o p
           d == Members(v, r2, w)
<1>1. /\ old \in Seq(Byte) /\ r \in Nat /\ w \in Nat /\ r <= w /\ w <= Len(old)
      /\ Len(s) \in Nat /\ Len(old) \in Nat /\ r2 \in Nat /\ r = r2 + Len(s)
      /\ kCheapPrepend <= Len(old)
  BY SMTT(30), Bounds
<1>2. v \in Seq(Byte) /\ Len(v) = Len(old)
  BY <1>1, CopyToType
<1>3. /\ p \in Seq(Byte) /\ Len(p) = w - r /\ Len(p) \in Nat
      /\ \A i \in 1 .. Len(p) : p[i] = old[r + i]
  BY ContentType, Bounds
<1>4. \A j \in 1 .. Len(old) :
        v[j] = IF j \in r2 + 1 .. r2 + Len(s) THEN s[j - r2] ELSE old[j]
  BY DEF CopyTo
<1>5. Prepended(b, s) = d
  BY DEF Prepended
<1>6. d.buffer_ = v
  BY DEF Members
<1> HIDE DEF old, r, w, r2, v, p
<1>7. /\ c \in Seq(Byte) /\ Len(c) = Len(s) + Len(p)
      /\ \A i \in 1 .. Len(s) + Len(p) : c[i] = IF i <= Len(s) THEN s[i] ELSE p[i - Len(s)]
  BY SMTT(30), <1>1, <1>3, ConcatProperties
<1> HIDE DEF c
<1>8. HoldsAt(v, r2, c)
  <2> SUFFICES ASSUME NEW i \in 1 .. Len(c)
               PROVE  v[r2 + i] = c[i]
    BY DEF HoldsAt
  <2>0. PICK j \in 1 .. Len(old) : j = r2 + i
    BY SMTT(30), <1>1, <1>3, <1>7
  <2>1. i \in Nat /\ i >= 1 /\ i \in 1 .. Len(s) + Len(p)
    BY SMTT(30), <1>1, <1>3, <1>7
  <2>2. CASE i <= Len(s)
    <3>1. j \in r2 + 1 .. r2 + Len(s) /\ j - r2 = i
      BY SMTT(30), <1>1, <2>0, <2>1, <2>2
    <3>2. v[j] = s[j - r2]
      BY <3>1, <1>4
    <3>3. c[i] = s[i]
      BY <2>1, <2>2, <1>7
    <3> QED  BY <2>0, <3>1, <3>2, <3>3
  <2>3. CASE ~(i <= Len(s))
    <3>1. j \notin r2 + 1 .. r2 + Len(s) /\ j = r + (i - Len(s)) /\ i - Len(s) \in 1 .. Len(p)
      BY SMTT(30), <1>1, <1>3, <2>0, <2>1, <2>3
    <3>2. v[j] = old[j]
      BY <3>1, <1>4
    <3>3. c[i] = p[i - Len(s)]
      BY <2>1, <2>3, <1>7
    <3> QED  BY <2>0, <3>1, <3>2, <3>3, <1>3
  <2> QED  BY <2>2, <2>3
<1>9. r2 <= w /\ w <= Len(v) /\ Len(c) = w - r2 /\ kCheapPrepend <= Len(v)
  BY SMTT(30), <1>1, <1>2, <1>3, <1>7
<1>10. IsBuffer(d) /\ ToStringPiece(d) = c
  BY <1>1, <1>2, <1>7, <1>8, <1>9, Holds
<1> QED  BY <1>2, <1>5, <1>6, <1>10 DEF c, p, old

\* Dropping the first n bytes of a string, by its elements.
LEMMA DropFrom ==
  ASSUME NEW p \in Seq(Byte), NEW n \in 0 .. Len(p)
  PROVE  /\ SubSeq(p, n + 1, Len(p)) \in Seq(Byte)
         /\ Len(SubSeq(p, n + 1, Len(p))) = Len(p) - n
         /\ \A i \in 1 .. Len(p) - n : SubSeq(p, n + 1, Len(p))[i] = p[n + i]
<1>1. Len(p) \in Nat /\ n \in Nat /\ n + 1 \in Int
  BY SMTT(30)
<1>2. \A i \in n + 1 .. Len(p) : p[i] \in Byte
  BY SMTT(30), <1>1, ElementOfSeq
<1> DEFINE m == n + 1
           t == SubSeq(p, m, Len(p))
<1>3. /\ t \in Seq(Byte)
      /\ Len(t) = IF m <= Len(p) THEN Len(p) - m + 1 ELSE 0
      /\ \A i \in 1 .. Len(p) - m + 1 : t[i] = p[m + i - 1]
  BY SMTT(30), <1>1, <1>2, SubSeqProperties
<1> HIDE DEF t
<1>4. Len(t) = Len(p) - n
  BY SMTT(30), <1>1, <1>3
<1>5. ASSUME NEW i \in 1 .. Len(p) - n
      PROVE  t[i] = p[n + i]
  <2>1. i \in 1 .. Len(p) - m + 1 /\ m + i - 1 = n + i
    BY SMTT(30), <1>1
  <2> QED  BY <1>3, <2>1
<1> QED  BY <1>3, <1>4, <1>5 DEF t

\* Keeping the first n bytes of a string, by its elements.
LEMMA KeepUpTo ==
  ASSUME NEW p \in Seq(Byte), NEW n \in 0 .. Len(p)
  PROVE  /\ SubSeq(p, 1, n) \in Seq(Byte)
         /\ Len(SubSeq(p, 1, n)) = n
         /\ \A i \in 1 .. n : SubSeq(p, 1, n)[i] = p[i]
<1>1. Len(p) \in Nat /\ n \in Nat /\ n \in Int
  BY SMTT(30)
<1>2. \A i \in 1 .. n : p[i] \in Byte
  BY SMTT(30), <1>1, ElementOfSeq
<1> DEFINE t == SubSeq(p, 1, n)
<1>3. /\ t \in Seq(Byte)
      /\ Len(t) = IF 1 <= n THEN n - 1 + 1 ELSE 0
      /\ \A i \in 1 .. n - 1 + 1 : t[i] = p[1 + i - 1]
  BY SMTT(30), <1>1, <1>2, SubSeqProperties
<1> HIDE DEF t
<1>4. ASSUME NEW i \in 1 .. n
      PROVE  t[i] = p[i]
  <2>1. i \in 1 .. n - 1 + 1 /\ 1 + i - 1 = i
    BY SMTT(30), <1>1
  <2> QED  BY <1>3, <2>1
<1> QED  BY SMTT(30), <1>1, <1>3, <1>4 DEF t

\* Retrieve() drops bytes at the front, also when it drops all and starts over.
LEMMA RetrievedDrops ==
  ASSUME NEW b, IsBuffer(b), NEW n \in 0 .. ReadableBytes(b)
  PROVE  /\ IsBuffer(Retrieved(b, n))
         /\ ToStringPiece(Retrieved(b, n)) =
              SubSeq(ToStringPiece(b), n + 1, Len(ToStringPiece(b)))
         /\ Len(Retrieved(b, n).buffer_) = Len(b.buffer_)
<1> DEFINE old == b.buffer_
           r == b.reader_index_
           w == b.writer_index_
           p == ToStringPiece(b)
           c == SubSeq(p, n + 1, Len(p))
           k == kCheapPrepend
<1>1. /\ old \in Seq(Byte) /\ r \in Nat /\ w \in Nat /\ r <= w /\ w <= Len(old)
      /\ Len(old) \in Nat /\ ReadableBytes(b) = w - r /\ n \in Nat /\ n <= w - r
      /\ kCheapPrepend <= Len(old)
  BY SMTT(30), Bounds
<1>2. /\ p \in Seq(Byte) /\ Len(p) = w - r /\ Len(p) \in Nat
      /\ \A i \in 1 .. Len(p) : p[i] = old[r + i]
  BY ContentType, Bounds
<1>3. n \in 0 .. Len(p)
  BY <1>1, <1>2
<1>4. /\ c \in Seq(Byte) /\ Len(c) = Len(p) - n
      /\ \A i \in 1 .. Len(p) - n : c[i] = p[n + i]
  BY <1>2, <1>3, DropFrom
<1>5. CASE n < ReadableBytes(b)
  <2> DEFINE r2 == r + n
  <2>1. Retrieved(b, n) = Members(old, r2, w)
    BY <1>5 DEF Retrieved
  <2> HIDE DEF old, r, w, p, c
  <2>2. r2 \in Nat /\ r2 <= w /\ Len(c) = w - r2
    BY SMTT(30), <1>1, <1>2, <1>4
  <2>3. HoldsAt(old, r2, c)
    <3> SUFFICES ASSUME NEW i \in 1 .. Len(c)
                 PROVE  old[r2 + i] = c[i]
      BY DEF HoldsAt
    <3>1. i \in 1 .. Len(p) - n /\ n + i \in 1 .. Len(p)
      BY SMTT(30), <1>1, <1>2, <1>4
    <3>2. c[i] = p[n + i] /\ p[n + i] = old[r + (n + i)]
      BY <3>1, <1>2, <1>4
    <3>3. r + (n + i) = r2 + i
      BY SMTT(30), <1>1, <3>1
    <3> QED  BY <3>2, <3>3
  <2> HIDE DEF r2
  <2>4. IsBuffer(Members(old, r2, w)) /\ ToStringPiece(Members(old, r2, w)) = c
    BY <1>1, <1>4, <2>2, <2>3, Holds
  <2>5. Members(old, r2, w).buffer_ = old
    BY DEF Members
  <2> QED  BY <2>1, <2>4, <2>5 DEF c, p, old
<1>6. CASE ~(n < ReadableBytes(b))
  <2>1. Retrieved(b, n) = Members(old, k, k)
    BY <1>6 DEF Retrieved, RetrieveAll
  <2> HIDE DEF old, r, w, p, c
  <2>2. Len(c) = 0
    BY SMTT(30), <1>1, <1>2, <1>4, <1>6
  <2>3. HoldsAt(old, k, c)
    BY SMTT(30), <2>2 DEF HoldsAt
  <2>4. k \in Nat /\ k <= k /\ k <= Len(old) /\ Len(c) = k - k
    BY SMTT(30), <1>1, <2>2
  <2> HIDE DEF k
  <2>5. IsBuffer(Members(old, k, k)) /\ ToStringPiece(Members(old, k, k)) = c
    BY <1>1, <1>4, <2>3, <2>4, Holds
  <2>6. Members(old, k, k).buffer_ = old
    BY DEF Members
  <2> QED  BY <2>1, <2>5, <2>6 DEF c, p, old
<1> QED  BY <1>5, <1>6

\* Unwrite() drops bytes at the back.
LEMMA UnwrittenDrops ==
  ASSUME NEW b, IsBuffer(b), NEW n \in 0 .. ReadableBytes(b)
  PROVE  /\ IsBuffer(Unwritten(b, n))
         /\ ToStringPiece(Unwritten(b, n)) =
              SubSeq(ToStringPiece(b), 1, Len(ToStringPiece(b)) - n)
         /\ Len(Unwritten(b, n).buffer_) = Len(b.buffer_)
<1> DEFINE old == b.buffer_
           r == b.reader_index_
           w == b.writer_index_
           w2 == w - n
           p == ToStringPiece(b)
           m == Len(p) - n
           c == SubSeq(p, 1, m)
<1>1. /\ old \in Seq(Byte) /\ r \in Nat /\ w \in Nat /\ r <= w /\ w <= Len(old)
      /\ Len(old) \in Nat /\ ReadableBytes(b) = w - r /\ n \in Nat /\ n <= w - r
      /\ kCheapPrepend <= Len(old)
  BY SMTT(30), Bounds
<1>2. /\ p \in Seq(Byte) /\ Len(p) = w - r /\ Len(p) \in Nat
      /\ \A i \in 1 .. Len(p) : p[i] = old[r + i]
  BY ContentType, Bounds
<1>3. Unwritten(b, n) = Members(old, r, w2)
  BY DEF Unwritten
<1> HIDE DEF old, r, w, p
<1>4. m \in 0 .. Len(p) /\ m = w2 - r /\ w2 \in Nat /\ r <= w2 /\ w2 <= Len(old)
  BY SMTT(30), <1>1, <1>2
<1> HIDE DEF m, w2
<1>5. c \in Seq(Byte) /\ Len(c) = m /\ \A i \in 1 .. m : c[i] = p[i]
  BY <1>2, <1>4, KeepUpTo
<1> HIDE DEF c
<1>6. HoldsAt(old, r, c)
  BY SMTT(30), <1>2, <1>4, <1>5 DEF HoldsAt
<1>7. IsBuffer(Members(old, r, w2)) /\ ToStringPiece(Members(old, r, w2)) = c
  BY <1>1, <1>4, <1>5, <1>6, Holds
<1>8. Members(old, r, w2).buffer_ = old
  BY DEF Members
<1> QED  BY <1>3, <1>7, <1>8 DEF c, p, old, m

\* Room made in a buffer whose bytes start at the cheap prepend area leaves
\* them there.
LEMMA ReaderStays ==
  ASSUME NEW b, NEW len, b.reader_index_ = kCheapPrepend
  PROVE  EnsureWritableBytes(b, len).reader_index_ = kCheapPrepend
BY DEF EnsureWritableBytes, MakeSpace, Members

\* Shrink() keeps the readable bytes.
LEMMA ShrunkKeeps ==
  ASSUME NEW b, IsBuffer(b), NEW n \in Nat
  PROVE  /\ IsBuffer(Shrunk(b, n))
         /\ ToStringPiece(Shrunk(b, n)) = ToStringPiece(b)
         /\ Tight(b, Shrunk(b, n))
<1> DEFINE fresh == New(kInitialSize)
           len == ReadableBytes(b) + n
           d == EnsureWritableBytes(fresh, len)
           p == ToStringPiece(b)
           e == Appended(d, p)
<1>1. p \in Seq(Byte) /\ Len(p) = ReadableBytes(b) /\ ReadableBytes(b) \in Nat /\ len \in Nat
  BY SMTT(30), ContentType
<1>2. Shrunk(b, n) = e
  BY DEF Shrunk
<1>3. /\ IsBuffer(fresh) /\ ToStringPiece(fresh) = <<>> /\ fresh.reader_index_ = kCheapPrepend
  BY NewBuffer
<1> HIDE DEF fresh
<1>4. IsBuffer(d) /\ ToStringPiece(d) = <<>> /\ WritableBytes(d) >= len
  BY <1>1, <1>3, EnsureMakesRoom
<1> HIDE DEF d, p
<1>5. IsBuffer(e) /\ ToStringPiece(e) = <<>> \o p
  BY <1>1, <1>4, AppendedAppends
<1>6. <<>> \o p = p
  BY SMTT(30), <1>1
<1>7. d.reader_index_ = kCheapPrepend
  BY <1>3, ReaderStays DEF d
<1>8. e.reader_index_ = kCheapPrepend
  <2>1. EnsureWritableBytes(d, Len(p)).reader_index_ = kCheapPrepend
    BY <1>7, ReaderStays
  <2> QED  BY <2>1 DEF Appended, HasWritten, Members
<1> HIDE DEF e
<1>9. Len(e.buffer_) \in Nat /\ Len(b.buffer_) \in Nat
  BY <1>5, Bounds
<1>10. Tight(b, e)
  BY SMTT(30), <1>8, <1>9 DEF Tight
<1> QED  BY <1>2, <1>5, <1>6, <1>10 DEF p

\* Strings are appended in either grouping.
LEMMA ConcatBytes ==
  \A p, q, t \in Seq(Byte) : (p \o q) \o t = p \o (q \o t)
<1> SUFFICES ASSUME NEW p \in Seq(Byte), NEW q \in Seq(Byte), NEW t \in Seq(Byte)
             PROVE  (p \o q) \o t = p \o (q \o t)
  OBVIOUS
<1> DEFINE u == (p \o q) \o t
           v == p \o (q \o t)
<1>0. Len(p) \in Nat /\ Len(q) \in Nat /\ Len(t) \in Nat
  BY SMTT(30)
<1>1. u \in Seq(Byte) /\ v \in Seq(Byte) /\ Len(u) = Len(v) /\ Len(u) = Len(p) + Len(q) + Len(t)
  BY SMTT(30)
<1>2. ASSUME NEW i \in 1 .. Len(u)
      PROVE  u[i] = v[i]
  BY SMTT(30)
<1> HIDE DEF u, v
<1>3. u = v
  BY <1>1, <1>2, SeqEqual
<1> QED  BY <1>3 DEF u, v

\* ReadFd() appends what readv() returned, whether or not it fitted in the
\* writable part.
LEMMA ReadFdAppends ==
  ASSUME NEW b, IsBuffer(b), NEW s \in Seq(Byte)
  PROVE  /\ IsBuffer(ReadFdResult(b, s))
         /\ ToStringPiece(ReadFdResult(b, s)) = ToStringPiece(b) \o s
         /\ Tight(b, ReadFdResult(b, s))
<1> DEFINE n == WritableBytes(b)
           p == ToStringPiece(b)
<1>1. n \in Nat /\ Len(s) \in Nat /\ Len(b.buffer_) \in Nat /\ p \in Seq(Byte)
  BY SMTT(30), Bounds, ContentType
<1>2. CASE Len(s) <= n
  <2> DEFINE d == HasWritten(b, s)
  <2>1. ReadFdResult(b, s) = d
    BY <1>2 DEF ReadFdResult
  <2>2. IsBuffer(d) /\ ToStringPiece(d) = p \o s /\ Len(d.buffer_) = Len(b.buffer_)
    BY <1>2, HasWrittenAppends
  <2> HIDE DEF d, p
  <2>3. Tight(b, d)
    BY SMTT(30), <1>1, <2>2 DEF Tight
  <2> QED  BY <2>1, <2>2, <2>3 DEF p
<1>3. CASE ~(Len(s) <= n)
  <2> DEFINE s1 == SubSeq(s, 1, n)
             s2 == SubSeq(s, n + 1, Len(s))
             d == HasWritten(b, s1)
             e == Appended(d, s2)
  <2>1. ReadFdResult(b, s) = e
    BY <1>3 DEF ReadFdResult
  <2>2. n \in 0 .. Len(s)
    BY SMTT(30), <1>1, <1>3
  <2> HIDE DEF n
  <2>3. /\ s1 \in Seq(Byte) /\ Len(s1) = n /\ \A i \in 1 .. n : s1[i] = s[i]
        /\ s2 \in Seq(Byte) /\ Len(s2) = Len(s) - n
        /\ \A i \in 1 .. Len(s) - n : s2[i] = s[n + i]
    BY <2>2, KeepUpTo, DropFrom
  <2> HIDE DEF s1, s2
  <2>4. s1 \o s2 = s
    <3> DEFINE t == s1 \o s2
    <3>1. /\ t \in Seq(Byte) /\ Len(t) = Len(s1) + Len(s2)
          /\ \A i \in 1 .. Len(s1) + Len(s2) : t[i] = IF i <= Len(s1) THEN s1[i] ELSE s2[i - Len(s1)]
      BY <2>3, ConcatProperties
    <3> HIDE DEF t
    <3>2. Len(t) = Len(s)
      BY SMTT(30), <1>1, <2>3, <3>1
    <3>3. ASSUME NEW i \in 1 .. Len(s)
          PROVE  t[i] = s[i]
      <4>1. CASE i <= n
        BY SMTT(30), <1>1, <2>3, <3>1, <3>2, <4>1
      <4>2. CASE ~(i <= n)
        <5>1. i - n \in 1 .. Len(s) - n /\ n + (i - n) = i
          BY SMTT(30), <1>1, <4>2
        <5>2. t[i] = s2[i - n]
          BY <2>3, <3>1, <3>2, <4>2
        <5>3. s2[i - n] = s[n + (i - n)]
          BY <2>3, <5>1
        <5> QED  BY <5>1, <5>2, <5>3
      <4> QED  BY <4>1, <4>2
    <3>4. t = s
      BY <3>1, <3>2, <3>3, SeqEqual
    <3> QED  BY <3>4 DEF t
  <2>5. Len(s1) <= WritableBytes(b)
    BY SMTT(30), <1>1, <2>3 DEF n
  <2>6. IsBuffer(d) /\ ToStringPiece(d) = p \o s1 /\ Len(d.buffer_) = Len(b.buffer_)
    BY <2>3, <2>5, HasWrittenAppends
  <2> HIDE DEF d, p
  <2>7. IsBuffer(e) /\ ToStringPiece(e) = (p \o s1) \o s2 /\ Tight(d, e)
    BY <2>3, <2>6, AppendedAppends
  <2> HIDE DEF e
  <2>8. (p \o s1) \o s2 = p \o (s1 \o s2)
    <3>1. p \in Seq(Byte) /\ s1 \in Seq(Byte) /\ s2 \in Seq(Byte)
      BY <1>1, <2>3
    <3> QED  BY SMTT(30), <3>1, ConcatBytes, Zenon
  <2>9. Tight(b, e)
    BY <2>6, <2>7 DEF Tight
  <2> QED  BY <2>1, <2>4, <2>7, <2>8, <2>9 DEF p
<1> QED  BY <1>2, <1>3

\* Converting an integer to network order and back gives the integer, and what
\* is stored has the most significant byte first.
LEMMA ReverseTwice ==
  ASSUME NEW x \in Seq(Byte)
  PROVE  Reversed(x) \in Seq(Byte) /\ Reversed(Reversed(x)) = x
<1> DEFINE y == Reversed(x)
           z == Reversed(y)
           n == Len(x)
<1>1. n \in Nat
  BY SMTT(30)
<1>2. ASSUME NEW i \in 1 .. n
      PROVE  n + 1 - i \in 1 .. n /\ n + 1 - (n + 1 - i) = i
  BY SMTT(30), <1>1
<1>3. y \in [1 .. n -> Byte] /\ \A i \in 1 .. n : y[i] = x[n + 1 - i]
  BY <1>2, ElementOfSeq DEF Reversed
<1>4. y \in Seq(Byte) /\ Len(y) = n
  BY SMTT(30), <1>1, <1>3, SeqDef, LenProperties
<1> HIDE DEF y
<1>5. z \in [1 .. n -> Byte] /\ \A i \in 1 .. n : z[i] = y[n + 1 - i]
  BY <1>2, <1>4, ElementOfSeq DEF Reversed
<1>6. z \in Seq(Byte) /\ Len(z) = n
  BY SMTT(30), <1>1, <1>5, SeqDef, LenProperties
<1> HIDE DEF z
<1>7. ASSUME NEW i \in 1 .. n
      PROVE  z[i] = x[i]
  <2>1. PICK j \in 1 .. n : j = n + 1 - i /\ n + 1 - j = i
    BY <1>2
  <2> QED  BY <2>1, <1>3, <1>5
<1>8. z = x
  BY <1>6, <1>7, SeqEqual
<1> QED  BY <1>4, <1>8 DEF y, z

\* The strings and the integers that calls pass are sequences of bytes.
LEMMA ArgumentsAreBytes ==
  /\ \A s \in Strings : s \in Seq(Byte)
  /\ \A w \in Widths : \A x \in Ints(w) : x \in Seq(Byte) /\ Len(x) = w
<1>1. ASSUME NEW n \in Nat, NEW s \in [1 .. n -> Byte]
      PROVE  s \in Seq(Byte) /\ Len(s) = n
  BY SMTT(30), SeqDef, LenProperties
<1>2. \A s \in Strings : s \in Seq(Byte)
  BY SMTT(30), <1>1 DEF Strings
<1>3. \A w \in Widths : \A x \in Ints(w) : x \in Seq(Byte) /\ Len(x) = w
  BY <1>1 DEF Ints
<1> QED  BY <1>2, <1>3

\* A search through the vector between start and BeginWrite() is a search
\* through the readable bytes.
LEMMA FindFinds ==
  ASSUME TypeOK, NEW op, NEW start \in Nat, NEW S, NEW C,
         S \subseteq Int, C \subseteq 0 .. Len(ToStringPiece(buf)),
         \A i \in Int : i \in S <=> (start <= i /\ i - buf.reader_index_ \in C),
         Find(op, start, S)
  PROVE  /\ buf' = buf
         /\ start - buf.reader_index_ \in 0 .. Len(ToStringPiece(buf))
         /\ Abstract!Finds(op, start - buf.reader_index_, C)
<1> DEFINE r == buf.reader_index_
           p == ToStringPiece(buf)
           n == start - r
<1>1. /\ r \in Nat /\ buf.writer_index_ \in Nat /\ Len(p) = buf.writer_index_ - r
      /\ PrependableBytes(buf) = r
  BY Bounds, ContentType DEF TypeOK
<1>2. /\ r <= start /\ start <= buf.writer_index_ /\ buf' = buf
      /\ \/ S = {} /\ io' = Call(op, <<n>>, <<>>)
         \/ \E i \in S : (\A j \in S : i <= j) /\ io' = Call(op, <<n>>, <<i - r>>)
  BY <1>1 DEF Find, Returns
<1>3. n \in 0 .. Len(p) /\ Len(p) \in Nat /\ n \in Nat
  BY SMTT(30), <1>1, <1>2
<1>4. ToStringPiece(buf') = p
  BY <1>2
<1>5. ASSUME NEW j \in C, n <= j
      PROVE  j + r \in S
  <2>1. j \in Nat /\ j + r \in Int /\ start <= j + r /\ (j + r) - r = j
    BY SMTT(30), <1>1, <1>3, <1>5
  <2> QED  BY <2>1
<1>6. CASE S = {} /\ io' = Call(op, <<n>>, <<>>)
  <2>1. C \cap (n .. Len(p)) = {}
    BY SMTT(30), <1>5, <1>6
  <2>2. Abstract!Is(op, <<n>>, <<>>)
    BY <1>6 DEF Abstract!Is, Abstract!Call, Call
  <2> QED  BY <1>2, <1>3, <1>4, <2>1, <2>2 DEF Abstract!Finds
<1>7. ASSUME NEW i \in S, \A j \in S : i <= j, io' = Call(op, <<n>>, <<i - r>>)
      PROVE  Abstract!Finds(op, n, C)
  <2> DEFINE k == i - r
  <2>1. k \in C /\ i \in Int /\ start <= i
    OBVIOUS
  <2>2. k \in n .. Len(p)
    BY SMTT(30), <1>1, <1>3, <2>1
  <2>3. ASSUME NEW j \in C, n <= j
        PROVE  k <= j
    <3>1. j + r \in S
      BY <1>5, <2>3
    <3>2. i <= j + r
      BY <1>7, <3>1
    <3>3. j \in Nat
      BY SMTT(30), <1>3
    <3> QED  BY SMTT(30), <3>2, <3>3, <2>1, <1>1
  <2>4. Abstract!Is(op, <<n>>, <<k>>)
    BY <1>7 DEF Abstract!Is, Abstract!Call, Call
  <2> QED  BY <1>4, <2>1, <2>2, <2>3, <2>4 DEF Abstract!Finds
<1> QED  BY <1>2, <1>3, <1>6, <1>7

\* FindCRLF() does not look at bytes behind the readable ones.
LEMMA FindCRLFFinds ==
  ASSUME TypeOK, NEW start \in Nat, FindCRLF(start)
  PROVE  /\ buf' = buf
         /\ \E n \in 0 .. Len(ToStringPiece(buf)) :
              Abstract!Finds("FindCRLF", n, Abstract!CRLFs)
<1> DEFINE r == buf.reader_index_
           w == buf.writer_index_
           v == buf.buffer_
           p == ToStringPiece(buf)
           S == SearchedCRLF(buf, start)
           C == {i \in 0 .. Len(p) - 2 : p[i + 1] = CR /\ p[i + 2] = LF}
<1>1. /\ r \in Nat /\ w \in Nat /\ r <= w /\ Len(p) = w - r /\ Len(p) \in Nat
      /\ \A i \in 1 .. Len(p) : p[i] = v[r + i]
      /\ PrependableBytes(buf) = r
  BY Bounds, ContentType DEF TypeOK
<1>2. r <= start
  BY <1>1 DEF FindCRLF, Find
<1>3. S = {i \in start .. w - 2 : v[i + 1] = CR /\ v[i + 2] = LF}
  BY DEF SearchedCRLF
<1>4. Find("FindCRLF", start, S)
  BY DEF FindCRLF
<1>5. Abstract!CRLFs = C
  BY DEF Abstract!CRLFs
<1> HIDE DEF r, w, v, p, S
<1>6. S \subseteq Int /\ C \subseteq 0 .. Len(p)
  BY SMTT(30), <1>1, <1>3
<1>7. ASSUME NEW i \in Int
      PROVE  i \in S <=> (start <= i /\ i - r \in C)
  <2>1. CASE start <= i /\ i <= w - 2
    <3>1. /\ i - r \in 0 .. Len(p) - 2
          /\ (i - r) + 1 \in 1 .. Len(p) /\ (i - r) + 2 \in 1 .. Len(p)
          /\ r + ((i - r) + 1) = i + 1 /\ r + ((i - r) + 2) = i + 2
      BY SMTT(30), <1>1, <1>2, <2>1
    <3>2. p[(i - r) + 1] = v[i + 1] /\ p[(i - r) + 2] = v[i + 2]
      BY <1>1, <3>1
    <3> QED  BY SMTT(30), <1>1, <1>3, <2>1, <3>1, <3>2
  <2>2. CASE ~(start <= i /\ i <= w - 2)
    <3>1. i \notin S
      BY SMTT(30), <1>1, <1>3, <2>2
    <3>2. i - r \in 0 .. Len(p) - 2 => i <= w - 2
      BY SMTT(30), <1>1
    <3> QED  BY <2>2, <3>1, <3>2
  <2> QED  BY <2>1, <2>2
<1> HIDE DEF C
<1>8. buf' = buf /\ start - r \in 0 .. Len(p) /\ Abstract!Finds("FindCRLF", start - r, C)
  BY <1>4, <1>6, <1>7, FindFinds DEF r, p
<1> QED  BY <1>5, <1>8 DEF p

\* Nor does FindEOL().
LEMMA FindEOLFinds ==
  ASSUME TypeOK, NEW start \in Nat, FindEOL(start)
  PROVE  /\ buf' = buf
         /\ \E n \in 0 .. Len(ToStringPiece(buf)) :
              Abstract!Finds("FindEOL", n, Abstract!EOLs)
<1> DEFINE r == buf.reader_index_
           w == buf.writer_index_
           v == buf.buffer_
           p == ToStringPiece(buf)
           S == SearchedEOL(buf, start)
           C == {i \in 0 .. Len(p) - 1 : p[i + 1] = LF}
<1>1. /\ r \in Nat /\ w \in Nat /\ r <= w /\ Len(p) = w - r /\ Len(p) \in Nat
      /\ \A i \in 1 .. Len(p) : p[i] = v[r + i]
      /\ PrependableBytes(buf) = r
  BY Bounds, ContentType DEF TypeOK
<1>2. r <= start
  BY <1>1 DEF FindEOL, Find
<1>3. S = {i \in start .. w - 1 : v[i + 1] = LF}
  BY DEF SearchedEOL
<1>4. Find("FindEOL", start, S)
  BY DEF FindEOL
<1>5. Abstract!EOLs = C
  BY DEF Abstract!EOLs
<1> HIDE DEF r, w, v, p, S
<1>6. S \subseteq Int /\ C \subseteq 0 .. Len(p)
  BY SMTT(30), <1>1, <1>3
<1>7. ASSUME NEW i \in Int
      PROVE  i \in S <=> (start <= i /\ i - r \in C)
  <2>1. CASE start <= i /\ i <= w - 1
    <3>1. /\ i - r \in 0 .. Len(p) - 1 /\ (i - r) + 1 \in 1 .. Len(p)
          /\ r + ((i - r) + 1) = i + 1
      BY SMTT(30), <1>1, <1>2, <2>1
    <3>2. p[(i - r) + 1] = v[i + 1]
      BY <1>1, <3>1
    <3> QED  BY SMTT(30), <1>1, <1>3, <2>1, <3>1, <3>2
  <2>2. CASE ~(start <= i /\ i <= w - 1)
    <3>1. i \notin S
      BY SMTT(30), <1>1, <1>3, <2>2
    <3>2. i - r \in 0 .. Len(p) - 1 => i <= w - 1
      BY SMTT(30), <1>1
    <3> QED  BY <2>2, <3>1, <3>2
  <2> QED  BY <2>1, <2>2
<1> HIDE DEF C
<1>8. buf' = buf /\ start - r \in 0 .. Len(p) /\ Abstract!Finds("FindEOL", start - r, C)
  BY <1>4, <1>6, <1>7, FindFinds DEF r, p
<1> QED  BY <1>5, <1>8 DEF p

\* What a step has to show: the members stay a buffer, the abstract deque takes
\* a step, and the vector grows only when full.
Good == IsBuffer(buf') /\ Abstract!Next /\ Tight(buf, buf')

\* A buffer left as it is, or of the same length, did not grow.
LEMMA SameLengthIsTight ==
  ASSUME NEW b, NEW d, IsBuffer(b), Len(d.buffer_) = Len(b.buffer_)
  PROVE  Tight(b, d)
<1>1. Len(b.buffer_) \in Nat
  BY Bounds
<1> QED  BY SMTT(30), <1>1 DEF Tight

\* The calls that pass a string.
LEMMA StringCalls ==
  ASSUME TypeOK, NEW s \in Strings,
         AppendBytes(s) \/ WriteInPlace(s) \/ Prepend(s) \/ ReadFd(s)
  PROVE  Good
<1> DEFINE p == ToStringPiece(buf)
<1>0. IsBuffer(buf) /\ s \in Seq(Byte) /\ s \in Abstract!Strings /\ ToStringPiece(buf') = ToStringPiece(buf)'
  BY ArgumentsAreBytes DEF TypeOK, Strings, Byte, Abstract!Strings, Abstract!Byte
<1>1. CASE AppendBytes(s)
  <2>1. buf' = Appended(buf, s) /\ io' = Call("Append", s, <<>>)
    BY <1>1 DEF AppendBytes, Becomes, Returns
  <2>2. IsBuffer(buf') /\ ToStringPiece(buf') = p \o s /\ Tight(buf, buf')
    BY <1>0, <2>1, AppendedAppends
  <2>3. Abstract!Writes("Append", s, p \o s)
    BY <2>1, <2>2 DEF Abstract!Writes, Abstract!Is, Abstract!Call, Call
  <2> QED  BY <1>0, <2>2, <2>3 DEF Good, Abstract!Next
<1>2. CASE WriteInPlace(s)
  <2>1. buf' = HasWritten(buf, s) /\ io' = Call("Append", s, <<>>) /\ Len(s) <= WritableBytes(buf)
    BY <1>2 DEF WriteInPlace, Becomes, Returns
  <2>2. IsBuffer(buf') /\ ToStringPiece(buf') = p \o s /\ Len(buf'.buffer_) = Len(buf.buffer_)
    BY <1>0, <2>1, HasWrittenAppends
  <2>3. Abstract!Writes("Append", s, p \o s)
    BY <2>1, <2>2 DEF Abstract!Writes, Abstract!Is, Abstract!Call, Call
  <2>4. Tight(buf, buf')
    BY <1>0, <2>2, SameLengthIsTight
  <2> QED  BY <1>0, <2>2, <2>3, <2>4 DEF Good, Abstract!Next
<1>3. CASE Prepend(s)
  <2>1. buf' = Prepended(buf, s) /\ io' = Call("Prepend", s, <<>>) /\ Len(s) <= PrependableBytes(buf)
    BY <1>3 DEF Prepend, Becomes, Returns
  <2>2. IsBuffer(buf') /\ ToStringPiece(buf') = s \o p /\ Len(buf'.buffer_) = Len(buf.buffer_)
    BY <1>0, <2>1, PrependedPrepends
  <2>3. Abstract!Writes("Prepend", s, s \o p)
    BY <2>1, <2>2 DEF Abstract!Writes, Abstract!Is, Abstract!Call, Call
  <2>4. Tight(buf, buf')
    BY <1>0, <2>2, SameLengthIsTight
  <2> QED  BY <1>0, <2>2, <2>3, <2>4 DEF Good, Abstract!Next
<1>4. CASE ReadFd(s)
  <2>1. buf' = ReadFdResult(buf, s) /\ io' = Call("ReadFd", s, <<Len(s)>>)
    BY <1>4 DEF ReadFd, Becomes, Returns
  <2>2. IsBuffer(buf') /\ ToStringPiece(buf') = p \o s /\ Tight(buf, buf')
    BY <1>0, <2>1, ReadFdAppends
  <2>3. Abstract!Is("ReadFd", s, <<Len(s)>>)
    BY <2>1 DEF Abstract!Is, Abstract!Call, Call
  <2> QED  BY <1>0, <2>2, <2>3 DEF Good, Abstract!Next
<1> QED  BY <1>1, <1>2, <1>3, <1>4

\* The calls that pass or return an integer.
LEMMA IntCalls ==
  ASSUME TypeOK, NEW w \in Widths,
         \/ \E x \in Ints(w) : AppendInt(x) \/ PrependInt(x)
         \/ RetrieveInt(w) \/ PeekInt(w) \/ ReadInt(w)
  PROVE  Good
<1> DEFINE p == ToStringPiece(buf)
<1>0. /\ IsBuffer(buf) /\ w \in Nat /\ p \in Seq(Byte) /\ Len(p) = ReadableBytes(buf)
      /\ ReadableBytes(buf) \in Nat
  BY ContentType DEF TypeOK
<1>1. ASSUME NEW x \in Ints(w), AppendInt(x)
      PROVE  Good
  <2>1. x \in Seq(Byte) /\ x \in Abstract!Ints(w)
    BY ArgumentsAreBytes DEF Ints, Byte, Abstract!Ints, Abstract!Byte
  <2>2. HostToNetwork(InMemory(x)) = x
    BY <2>1, ReverseTwice DEF HostToNetwork, InMemory
  <2>3. buf' = Appended(buf, x) /\ io' = Call("AppendInt", x, <<>>)
    BY <1>1, <2>2 DEF AppendInt, Becomes, Returns
  <2>4. IsBuffer(buf') /\ ToStringPiece(buf') = p \o x /\ Tight(buf, buf')
    BY <1>0, <2>1, <2>3, AppendedAppends
  <2>5. Abstract!Writes("AppendInt", x, p \o x)
    BY <2>3, <2>4 DEF Abstract!Writes, Abstract!Is, Abstract!Call, Call
  <2> QED  BY <2>1, <2>4, <2>5 DEF Good, Abstract!Next
<1>2. ASSUME NEW x \in Ints(w), PrependInt(x)
      PROVE  Good
  <2>1. x \in Seq(Byte) /\ x \in Abstract!Ints(w)
    BY ArgumentsAreBytes DEF Ints, Byte, Abstract!Ints, Abstract!Byte
  <2>2. HostToNetwork(InMemory(x)) = x
    BY <2>1, ReverseTwice DEF HostToNetwork, InMemory
  <2>3. buf' = Prepended(buf, x) /\ io' = Call("PrependInt", x, <<>>) /\ Len(x) <= PrependableBytes(buf)
    BY <1>2, <2>2 DEF PrependInt, Becomes, Returns
  <2>4. IsBuffer(buf') /\ ToStringPiece(buf') = x \o p /\ Len(buf'.buffer_) = Len(buf.buffer_)
    BY <1>0, <2>1, <2>3, PrependedPrepends
  <2>5. Abstract!Writes("PrependInt", x, x \o p)
    BY <2>3, <2>4 DEF Abstract!Writes, Abstract!Is, Abstract!Call, Call
  <2>6. Tight(buf, buf')
    BY <1>0, <2>4, SameLengthIsTight
  <2> QED  BY <2>1, <2>4, <2>5, <2>6 DEF Good, Abstract!Next
<1> DEFINE first == SubSeq(p, 1, w)
<1>3. ASSUME w <= ReadableBytes(buf)
      PROVE  w \in 0 .. Len(p) /\ PeekedInt(buf, w) = first
  <2>1. w \in 0 .. Len(p)
    BY SMTT(30), <1>0, <1>3
  <2>2. first \in Seq(Byte)
    BY <1>0, <2>1, KeepUpTo
  <2>3. Reversed(Reversed(first)) = first
    BY <2>2, ReverseTwice
  <2> QED  BY <2>1, <2>3 DEF PeekedInt, FromMemory, NetworkToHost
<1>4. CASE RetrieveInt(w)
  <2>1. buf' = Retrieved(buf, w) /\ io' = Call("Retrieve", <<w>>, <<>>) /\ w \in 0 .. Len(p)
    BY <1>3, <1>4 DEF RetrieveInt, Retrieve, Becomes, Returns
  <2>2. /\ IsBuffer(buf') /\ ToStringPiece(buf') = SubSeq(p, w + 1, Len(p))
        /\ Len(buf'.buffer_) = Len(buf.buffer_)
    BY <1>0, <2>1, RetrievedDrops
  <2>3. Abstract!Drops("Retrieve", w, <<>>)
    BY SMTT(30), <2>1, <2>2, <1>0 DEF Abstract!Drops, Abstract!Is, Abstract!Call, Call
  <2>4. Tight(buf, buf')
    BY <1>0, <2>2, SameLengthIsTight
  <2> QED  BY <2>1, <2>2, <2>3, <2>4 DEF Good, Abstract!Next
<1>5. CASE PeekInt(w)
  <2>1. buf' = buf /\ io' = Call("PeekInt", <<w>>, first) /\ w <= Len(p)
    BY <1>0, <1>3, <1>5 DEF PeekInt, Returns
  <2>2. Abstract!Reads("PeekInt", w, Abstract!Front(w))
    BY <2>1 DEF Abstract!Reads, Abstract!Is, Abstract!Call, Call, Abstract!Front
  <2>3. IsBuffer(buf') /\ Tight(buf, buf')
    BY <1>0, <2>1, SameLengthIsTight
  <2> QED  BY <2>1, <2>2, <2>3 DEF Good, Abstract!Next
<1>6. CASE ReadInt(w)
  <2>1. buf' = Retrieved(buf, w) /\ io' = Call("ReadInt", <<w>>, first) /\ w \in 0 .. Len(p)
    BY <1>3, <1>6 DEF ReadInt, Becomes, Returns
  <2>2. /\ IsBuffer(buf') /\ ToStringPiece(buf') = SubSeq(p, w + 1, Len(p))
        /\ Len(buf'.buffer_) = Len(buf.buffer_)
    BY <1>0, <2>1, RetrievedDrops
  <2>3. Abstract!Drops("ReadInt", w, Abstract!Front(w))
    BY SMTT(30), <2>1, <2>2, <1>0 DEF Abstract!Drops, Abstract!Is, Abstract!Call, Call, Abstract!Front
  <2>4. Tight(buf, buf')
    BY <1>0, <2>2, SameLengthIsTight
  <2> QED  BY <2>2, <2>3, <2>4 DEF Good, Abstract!Next
<1> QED  BY <1>1, <1>2, <1>4, <1>5, <1>6

\* Dropping n readable bytes, with or without returning them.
LEMMA RetrieveCalls ==
  ASSUME TypeOK, NEW n \in 0 .. Len(ToStringPiece(buf)), Retrieve(n) \/ RetrieveAsString(n)
  PROVE  Good
<1> DEFINE p == ToStringPiece(buf)
<1>0. IsBuffer(buf) /\ p \in Seq(Byte) /\ Len(p) = ReadableBytes(buf) /\ Len(p) \in Nat
  BY ContentType DEF TypeOK
<1>1. /\ buf' = Retrieved(buf, n)
      /\ \/ io' = Call("Retrieve", <<n>>, <<>>)
         \/ io' = Call("RetrieveAsString", <<n>>, SubSeq(p, 1, n))
  BY DEF Retrieve, RetrieveAsString, Becomes, Returns
<1>2. /\ IsBuffer(buf') /\ ToStringPiece(buf') = SubSeq(p, n + 1, Len(p))
      /\ Len(buf'.buffer_) = Len(buf.buffer_)
  BY <1>0, <1>1, RetrievedDrops
<1>3. Abstract!Drops("Retrieve", n, <<>>) \/ Abstract!Drops("RetrieveAsString", n, Abstract!Front(n))
  BY SMTT(30), <1>0, <1>1, <1>2 DEF Abstract!Drops, Abstract!Is, Abstract!Call, Call, Abstract!Front
<1>4. Tight(buf, buf')
  BY <1>0, <1>2, SameLengthIsTight
<1> QED  BY <1>2, <1>3, <1>4 DEF Good, Abstract!Next

\* The calls that pass a length or a position.
LEMMA LengthCalls ==
  ASSUME TypeOK, NEW n \in 0 .. MaxSize,
         \/ Reserve(n) \/ Shrink(n) \/ Unwrite(n)
         \/ Retrieve(n) \/ RetrieveUntil(n) \/ RetrieveAsString(n)
         \/ FindCRLF(n) \/ FindEOL(n)
  PROVE  Good
<1> DEFINE p == ToStringPiece(buf)
<1>0. /\ IsBuffer(buf) /\ p \in Seq(Byte) /\ Len(p) = ReadableBytes(buf) /\ Len(p) \in Nat
      /\ n \in Nat
  BY SMTT(30), ContentType DEF TypeOK
<1>1. CASE Reserve(n)
  <2>1. buf' = EnsureWritableBytes(buf, n) /\ io' = Call("Reserve", <<>>, <<>>)
    BY <1>1 DEF Reserve, Becomes, Returns
  <2>2. IsBuffer(buf') /\ ToStringPiece(buf') = p /\ Tight(buf, buf')
    BY <1>0, <2>1, EnsureMakesRoom
  <2>3. Abstract!Writes("Reserve", <<>>, p)
    BY <2>1, <2>2 DEF Abstract!Writes, Abstract!Is, Abstract!Call, Call
  <2> QED  BY <2>2, <2>3 DEF Good, Abstract!Next
<1>2. CASE Shrink(n)
  <2>1. buf' = Shrunk(buf, n) /\ io' = Call("Reserve", <<>>, <<>>)
    BY <1>2 DEF Shrink, Becomes, Returns
  <2>2. IsBuffer(buf') /\ ToStringPiece(buf') = p /\ Tight(buf, buf')
    BY <1>0, <2>1, ShrunkKeeps
  <2>3. Abstract!Writes("Reserve", <<>>, p)
    BY <2>1, <2>2 DEF Abstract!Writes, Abstract!Is, Abstract!Call, Call
  <2> QED  BY <2>2, <2>3 DEF Good, Abstract!Next
<1>3. CASE Unwrite(n)
  <2>1. buf' = Unwritten(buf, n) /\ io' = Call("Unwrite", <<n>>, <<>>) /\ n \in 0 .. Len(p)
    BY SMTT(30), <1>0, <1>3 DEF Unwrite, Returns
  <2>2. /\ IsBuffer(buf') /\ ToStringPiece(buf') = SubSeq(p, 1, Len(p) - n)
        /\ Len(buf'.buffer_) = Len(buf.buffer_)
    BY <1>0, <2>1, UnwrittenDrops
  <2>3. Abstract!Writes("Unwrite", <<n>>, Abstract!Front(Len(p) - n))
    BY <2>1, <2>2 DEF Abstract!Writes, Abstract!Is, Abstract!Call, Call, Abstract!Front
  <2>4. Tight(buf, buf')
    BY <1>0, <2>2, SameLengthIsTight
  <2> QED  BY <2>1, <2>2, <2>3, <2>4 DEF Good, Abstract!Next
<1>4. CASE Retrieve(n) \/ RetrieveAsString(n)
  <2>1. n \in 0 .. Len(p)
    BY SMTT(30), <1>0, <1>4 DEF Retrieve, RetrieveAsString
  <2> QED  BY <1>4, <2>1, RetrieveCalls
<1>5. CASE RetrieveUntil(n)
  <2> DEFINE k == n - PrependableBytes(buf)
  <2>1. Retrieve(k) /\ PrependableBytes(buf) <= n /\ n <= buf.writer_index_
    BY <1>5 DEF RetrieveUntil
  <2>2. k \in 0 .. Len(p)
    BY SMTT(30), <1>0, <2>1, Bounds
  <2> HIDE DEF k
  <2> QED  BY <2>1, <2>2, RetrieveCalls
<1>6. CASE FindCRLF(n) \/ FindEOL(n)
  <2>1. /\ buf' = buf
        /\ \E m \in 0 .. Len(p) :
             \/ Abstract!Finds("FindCRLF", m, Abstract!CRLFs)
             \/ Abstract!Finds("FindEOL", m, Abstract!EOLs)
    BY <1>0, <1>6, FindCRLFFinds, FindEOLFinds
  <2>2. IsBuffer(buf') /\ Tight(buf, buf')
    BY <1>0, <2>1, SameLengthIsTight
  <2> QED  BY <2>1, <2>2 DEF Good, Abstract!Next
<1> QED  BY <1>1, <1>2, <1>3, <1>4, <1>5, <1>6

\* Every call of the public interface is a step of the byte deque.
LEMMA EveryCall ==
  ASSUME TypeOK, Next
  PROVE  Good
<1>1. CASE ReadFdFails
  <2>1. buf' = buf /\ io' = Call("ReadFd", <<>>, <<-1>>)
    BY <1>1 DEF ReadFdFails, Returns
  <2>2. Abstract!Is("ReadFd", <<>>, <<-1>>) /\ ToStringPiece(buf') = ToStringPiece(buf)
    BY <2>1 DEF Abstract!Is, Abstract!Call, Call
  <2>3. IsBuffer(buf') /\ Tight(buf, buf')
    BY <2>1, SameLengthIsTight DEF TypeOK
  <2> QED  BY <2>2, <2>3 DEF Good, Abstract!Next
<1> QED  BY <1>1, StringCalls, IntCalls, LengthCalls DEF Next

\* The indexes of the buffer stay ordered and inside the vector, which always
\* has room for the cheap prepend area: for every size of it, of the vector,
\* of extrabuf and of the arguments.
THEOREM TypeCorrect == Spec => []TypeOK
<1>1. Init => TypeOK
  BY NewBuffer DEF Init, TypeOK
<1>2. TypeOK /\ [Next]_vars => TypeOK'
  <2> SUFFICES ASSUME TypeOK, [Next]_vars
               PROVE  IsBuffer(buf')
    BY DEF TypeOK
  <2>1. CASE Next
    BY <2>1, EveryCall DEF Good
  <2>2. CASE UNCHANGED vars
    BY <2>2 DEF vars, TypeOK
  <2> QED  BY <2>1, <2>2
<1> QED  BY <1>1, <1>2, PTL DEF Spec

\* The asserts of MakeSpace() and EnsureWritableBytes() never fail: bytes are
\* moved towards the front only, and the room asked for is there afterwards.
THEOREM AssertsNeverFail == Spec => []AssertsHold
<1>1. TypeOK => AssertsHold
  <2> SUFFICES ASSUME TypeOK, NEW len \in 0 .. MaxSize, WritableBytes(buf) < len
               PROVE  /\ ~MustResize(buf, len) => kCheapPrepend < buf.reader_index_
                      /\ WritableBytes(MakeSpace(buf, len)) >= len
                      /\ ReadableBytes(MakeSpace(buf, len)) = ReadableBytes(buf)
    BY DEF AssertsHold
  <2>1. IsBuffer(buf) /\ len \in Nat
    BY SMTT(30) DEF TypeOK
  <2>2. /\ IsBuffer(MakeSpace(buf, len))
        /\ ToStringPiece(MakeSpace(buf, len)) = ToStringPiece(buf)
        /\ WritableBytes(MakeSpace(buf, len)) >= len
        /\ ~MustResize(buf, len) => kCheapPrepend < buf.reader_index_
    BY <2>1, MakeSpaceMakesSpace
  <2>3. /\ ReadableBytes(MakeSpace(buf, len)) = Len(ToStringPiece(MakeSpace(buf, len)))
        /\ ReadableBytes(buf) = Len(ToStringPiece(buf))
    BY <2>1, <2>2, ContentType
  <2> QED  BY <2>2, <2>3
<1> QED  BY <1>1, TypeCorrect, PTL

\* The vector grows only when its contents, the room asked for and the prepend
\* area do not fit in it.
THEOREM NeverGrowsInVain == Spec => GrowsOnlyWhenFull
<1>1. ASSUME TypeOK, [Next]_vars
      PROVE  [Len(buf'.buffer_) > Len(buf.buffer_) =>
               Len(buf'.buffer_) - buf'.reader_index_ + kCheapPrepend > Len(buf.buffer_)]_vars
  BY <1>1, EveryCall DEF Good, Tight
<1> QED  BY <1>1, TypeCorrect, PTL DEF Spec, GrowsOnlyWhenFull

\* The buffer implements the double-ended queue of bytes, for all constants.
THEOREM ByteDequeImplemented == Spec => ImplementsByteDeque
<1>1. Init => Abstract!Init
  BY NewBuffer DEF Init, Abstract!Init, Abstract!Call, Call
<1>2. TypeOK /\ [Next]_vars => [Abstract!Next]_<<ToStringPiece(buf), io>>
  <2> SUFFICES ASSUME TypeOK, [Next]_vars
               PROVE  Abstract!Next \/ UNCHANGED <<ToStringPiece(buf), io>>
    OBVIOUS
  <2>1. CASE Next
    BY <2>1, EveryCall DEF Good
  <2>2. CASE UNCHANGED vars
    BY <2>2 DEF vars, ToStringPiece
  <2> QED  BY <2>1, <2>2
<1> QED  BY <1>1, <1>2, TypeCorrect, PTL DEF Spec, ImplementsByteDeque, Abstract!Spec
=============================================================================
