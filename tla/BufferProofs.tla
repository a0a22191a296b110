---------------------------- MODULE BufferProofs ----------------------------
(***************************************************************************)
(* A Buffer is a queue of bytes, for any size of the vector, of extrabuf     *)
(* and of the index type, up to the last index that the type can hold.       *)
(***************************************************************************)
EXTENDS Buffer, SequenceTheorems, TLAPS

\* The provers a step is tried with, and their time limits.
USE SMTT(30), ZenonT(60)

\* The indices are in order and inside the vector, and what is between them
\* was put there.
Good(b) ==
  /\ b \in BufferType
  /\ b.read_index_ <= b.write_index_ /\ b.write_index_ <= Len(b.buffer_)
  /\ Len(b.buffer_) <= MaxIndex
  /\ Readable(b) \in Seq(Bytes)

IInv == buf \in [Buffers -> BufferType] /\ \A o \in Buffers : Good(buf[o])

-----------------------------------------------------------------------------
\* What BufferAssumption says of the sizes and the bytes, in one place.
LEMMA Bounds ==
  /\ InitSize \in Nat \ {0} /\ Extra \in Nat \ {0} /\ Word \in Nat \ {0}
  /\ MaxIndex \in Nat \ {0} /\ InitSize <= MaxIndex /\ MaxIndex < Word
  /\ 0 \notin Bytes /\ Bytes \subseteq Nat
BY BufferAssumption, ZenonT(60)

\* A difference of two indices in order does not wrap.
LEMMA NoWrap ==
  ASSUME NEW a \in Nat, NEW b \in Nat, b <= a, a < Word
  PROVE  (a + Word - b) % Word = a - b /\ a % Word = a
BY Bounds

\* The part of a sequence after m, up to n.
LEMMA Slice ==
  ASSUME NEW S, NEW s \in Seq(S), NEW m \in Nat, NEW n \in Nat, m <= n, n <= Len(s)
  PROVE  /\ SubSeq(s, m + 1, n) \in Seq(S)
         /\ Len(SubSeq(s, m + 1, n)) = n - m
         /\ \A i \in 1..(n - m) : SubSeq(s, m + 1, n)[i] = s[m + i]
<1>1. \A i \in (m + 1)..n : s[i] \in S
  BY ElementOfSeq, LenProperties
<1>2. m + 1 \in Int /\ n \in Int
  OBVIOUS
<1>3. /\ SubSeq(s, m + 1, n) \in Seq(S)
      /\ Len(SubSeq(s, m + 1, n)) = IF m + 1 <= n THEN n - (m + 1) + 1 ELSE 0
      /\ \A i \in 1..(n - (m + 1) + 1) : SubSeq(s, m + 1, n)[i] = s[(m + 1) + i - 1]
  BY <1>1, <1>2, SubSeqProperties
<1>4. n - (m + 1) + 1 = n - m /\ \A i \in 1..(n - m) : (m + 1) + i - 1 = m + i
  OBVIOUS
<1> QED
  BY <1>3, <1>4

\* The readable bytes, one by one.
LEMMA Window ==
  ASSUME NEW b \in BufferType, b.read_index_ <= b.write_index_,
         b.write_index_ <= Len(b.buffer_)
  PROVE  /\ Readable(b) \in Seq(Bytes \cup {0})
         /\ Len(Readable(b)) = b.write_index_ - b.read_index_
         /\ \A i \in 1..(b.write_index_ - b.read_index_) :
              Readable(b)[i] = b.buffer_[b.read_index_ + i]
<1> DEFINE S == Bytes \cup {0}
           v == b.buffer_
           r == b.read_index_
           w == b.write_index_
<1>1. v \in Seq(S) /\ r \in Nat /\ w \in Nat /\ r <= w /\ w <= Len(v)
  BY ZenonT(60) DEF BufferType
<1> HIDE DEF S, v, r, w
<1>2. /\ SubSeq(v, r + 1, w) \in Seq(S) /\ Len(SubSeq(v, r + 1, w)) = w - r
      /\ \A i \in 1..(w - r) : SubSeq(v, r + 1, w)[i] = v[r + i]
  BY <1>1, Slice, ZenonT(60)
<1> QED
  BY <1>2, ZenonT(60) DEF Readable, S, v, r, w

\* What Good says of the numbers: the code's unsigned differences are the
\* true ones.
LEMMA Sizes ==
  ASSUME NEW b, Good(b)
  PROVE  /\ b \in BufferType /\ b.buffer_ \in Seq(Bytes \cup {0})
         /\ b.read_index_ \in Nat /\ b.write_index_ \in Nat /\ Len(b.buffer_) \in Nat
         /\ b.read_index_ <= b.write_index_ /\ b.write_index_ <= Len(b.buffer_)
         /\ Len(b.buffer_) <= MaxIndex
         /\ WritableBytes(b) = Len(b.buffer_) - b.write_index_
         /\ ReadableBytes(b) = b.write_index_ - b.read_index_
         /\ Readable(b) \in Seq(Bytes)
         /\ Len(Readable(b)) = b.write_index_ - b.read_index_
         /\ \A i \in 1..(b.write_index_ - b.read_index_) :
              Readable(b)[i] = b.buffer_[b.read_index_ + i]
<1>1. /\ b \in BufferType /\ b.buffer_ \in Seq(Bytes \cup {0})
      /\ b.read_index_ \in Nat /\ b.write_index_ \in Nat
      /\ b.read_index_ <= b.write_index_ /\ b.write_index_ <= Len(b.buffer_)
      /\ Len(b.buffer_) <= MaxIndex
      /\ Readable(b) \in Seq(Bytes)
  BY ZenonT(60) DEF Good, BufferType
<1>2. Len(b.buffer_) \in Nat
  BY <1>1, LenProperties, ZenonT(60)
<1>3. Len(b.buffer_) < Word /\ b.write_index_ < Word
  BY <1>1, <1>2, Bounds
<1>4. WritableBytes(b) = Len(b.buffer_) - b.write_index_
  BY <1>1, <1>2, <1>3, NoWrap, ZenonT(60) DEF WritableBytes
<1>5. ReadableBytes(b) = b.write_index_ - b.read_index_
  BY <1>1, <1>2, <1>3, NoWrap, ZenonT(60) DEF ReadableBytes
<1>6. /\ Len(Readable(b)) = b.write_index_ - b.read_index_
      /\ \A i \in 1..(b.write_index_ - b.read_index_) :
           Readable(b)[i] = b.buffer_[b.read_index_ + i]
  BY <1>1, Window, ZenonT(60)
<1> QED
  BY <1>1, <1>2, <1>4, <1>5, <1>6, ZenonT(60)

\* Where a position behind the first w - r of a window lies.
LEMMA Behind ==
  ASSUME NEW r \in Nat, NEW w \in Nat, NEW k \in Nat, r <= w,
         NEW i \in 1..((w + k) - r), ~(i <= w - r)
  PROVE  i - (w - r) \in 1..k /\ r + i = w + (i - (w - r))
OBVIOUS

\* A buffer that keeps what it had and has the data behind it.
LEMMA Filled ==
  ASSUME NEW b, Good(b), NEW c \in BufferType, NEW data \in Seq(Bytes),
         c.read_index_ = b.read_index_,
         c.write_index_ = b.write_index_ + Len(data),
         c.write_index_ <= Len(c.buffer_), Len(c.buffer_) <= MaxIndex,
         \A i \in 1..b.write_index_ : c.buffer_[i] = b.buffer_[i],
         \A i \in 1..Len(data) : c.buffer_[b.write_index_ + i] = data[i]
  PROVE  Good(c) /\ Readable(c) = Readable(b) \o data
<1> DEFINE n == b.write_index_ - b.read_index_
           m == c.write_index_ - c.read_index_
           full == Readable(b) \o data
<1>1. /\ b.read_index_ \in Nat /\ b.write_index_ \in Nat
      /\ b.read_index_ <= b.write_index_ /\ Readable(b) \in Seq(Bytes)
      /\ Len(Readable(b)) = n
      /\ \A i \in 1..n : Readable(b)[i] = b.buffer_[b.read_index_ + i]
  BY Sizes, ZenonT(60)
<1>2. /\ c.buffer_ \in Seq(Bytes \cup {0}) /\ c.read_index_ \in Nat
      /\ c.write_index_ \in Nat /\ Len(c.buffer_) \in Nat /\ Len(data) \in Nat
  BY LenProperties, ZenonT(60) DEF BufferType
<1>3. c.read_index_ <= c.write_index_ /\ m = n + Len(data) /\ n \in Nat /\ m \in Nat
  BY <1>1, <1>2
<1>4. /\ Readable(c) \in Seq(Bytes \cup {0}) /\ Len(Readable(c)) = m
      /\ \A i \in 1..m : Readable(c)[i] = c.buffer_[c.read_index_ + i]
  BY <1>2, <1>3, Window, ZenonT(60)
<1>5. /\ full \in Seq(Bytes) /\ Len(full) = m
      /\ \A i \in 1..m : full[i] = IF i <= n THEN Readable(b)[i] ELSE data[i - n]
  BY <1>1, <1>3, ConcatProperties
<1>6. ASSUME NEW i \in 1..m PROVE Readable(c)[i] = full[i]
  <2>1. CASE i <= n
    <3>1. i \in 1..n /\ b.read_index_ + i \in 1..b.write_index_
      BY <2>1, <1>1, <1>3
    <3> QED
      BY <3>1, <2>1, <1>1, <1>4, <1>5, ZenonT(60)
  <2>2. CASE ~(i <= n)
    <3>1. i - n \in 1..Len(data) /\ c.read_index_ + i = b.write_index_ + (i - n)
      <4> DEFINE r == b.read_index_
                 w == b.write_index_
                 k == Len(data)
      <4>1. r \in Nat /\ w \in Nat /\ k \in Nat /\ r <= w
        BY <1>1, <1>2, ZenonT(60)
      <4>2. i \in 1..((w + k) - r) /\ ~(i <= w - r)
        BY <2>2, ZenonT(60)
      <4> HIDE DEF r, w, k
      <4>3. i - (w - r) \in 1..k /\ r + i = w + (i - (w - r))
        BY <4>1, <4>2, Behind, ZenonT(60)
      <4> QED
        BY <4>3, ZenonT(60) DEF r, w, k
    <3>2. c.buffer_[c.read_index_ + i] = data[i - n]
      BY <3>1, ZenonT(60)
    <3> QED
      BY <3>2, <2>2, <1>4, <1>5, ZenonT(60)
  <2> QED
    BY <2>1, <2>2, ZenonT(60)
<1>7. full \in Seq(Bytes \cup {0})
  BY <1>5, SeqMonotonic, ZenonT(60)
<1> HIDE DEF full, m, n
<1>8. Readable(c) = full
  BY <1>4, <1>5, <1>6, <1>7, SeqEqual, ZenonT(60)
<1> QED
  BY <1>2, <1>3, <1>5, <1>8, ZenonT(60) DEF Good, full

-----------------------------------------------------------------------------
\* std::copy into room that exists keeps the length and what is before the
\* destination, and puts the data at it.
LEMMA CopyDoes ==
  ASSUME NEW S, NEW v \in Seq(S), NEW data \in Seq(S), NEW at \in Nat,
         at + Len(data) <= Len(v)
  PROVE  /\ Copy(v, at, data) \in Seq(S) /\ Len(Copy(v, at, data)) = Len(v)
         /\ \A i \in 1..at : Copy(v, at, data)[i] = v[i]
         /\ \A i \in 1..Len(data) : Copy(v, at, data)[at + i] = data[i]
<1> DEFINE E(i) == IF i \in (at + 1)..(at + Len(data)) THEN data[i - at] ELSE v[i]
<1>1. Len(v) \in Nat /\ Len(data) \in Nat
  BY LenProperties, ZenonT(60)
<1>2. \A i \in 1..Len(v) : E(i) \in S
  BY <1>1, ElementOfSeq
<1>3. \A i \in 1..at : E(i) = v[i] /\ i \in 1..Len(v)
  BY <1>1
<1>4. \A i \in 1..Len(data) : E(at + i) = data[i] /\ at + i \in 1..Len(v)
  BY <1>1
<1>5. Copy(v, at, data) = [i \in 1..Len(v) |-> E(i)]
  BY ZenonT(60) DEF Copy
<1> HIDE DEF E
<1>6. [i \in 1..Len(v) |-> E(i)] \in Seq(S) /\ Len([i \in 1..Len(v) |-> E(i)]) = Len(v)
  BY <1>1, <1>2
<1> QED
  BY <1>3, <1>4, <1>5, <1>6, ZenonT(60)

\* vector::resize gives the length asked for and keeps what still fits.
LEMMA ResizeDoes ==
  ASSUME NEW S, NEW v \in Seq(S), NEW n \in Nat, 0 \in S
  PROVE  /\ Resize(v, n) \in Seq(S) /\ Len(Resize(v, n)) = n
         /\ \A i \in 1..n : i <= Len(v) => Resize(v, n)[i] = v[i]
<1> DEFINE E(i) == IF i <= Len(v) THEN v[i] ELSE 0
<1>1. Len(v) \in Nat
  BY LenProperties, ZenonT(60)
<1>2. \A i \in 1..n : E(i) \in S
  BY <1>1, ElementOfSeq
<1>3. \A i \in 1..n : i <= Len(v) => E(i) = v[i]
  OBVIOUS
<1>4. Resize(v, n) = [i \in 1..n |-> E(i)]
  BY ZenonT(60) DEF Resize
<1> HIDE DEF E
<1>5. [i \in 1..n |-> E(i)] \in Seq(S) /\ Len([i \in 1..n |-> E(i)]) = n
  BY <1>2
<1> QED
  BY <1>3, <1>4, <1>5, ZenonT(60)

\* The record after an assignment to the vector and to write_index_.
Stored(e, v, w) == [e EXCEPT !.buffer_ = v, !.write_index_ = w]

\* Writing buffer_ and write_index_ leaves read_index_ alone.
LEMMA StoredFields ==
  ASSUME NEW e \in BufferType, NEW v \in Seq(Bytes \cup {0}), NEW w \in Nat
  PROVE  /\ Stored(e, v, w) \in BufferType
         /\ Stored(e, v, w).buffer_ = v /\ Stored(e, v, w).write_index_ = w
         /\ Stored(e, v, w).read_index_ = e.read_index_
BY ZenonT(60) DEF Stored, BufferType

\* Copying data behind what is there, and moving write_index_ over it.
LEMMA CopyFills ==
  ASSUME NEW b, Good(b), NEW e \in BufferType, NEW data \in Seq(Bytes),
         e.read_index_ = b.read_index_, e.write_index_ = b.write_index_,
         e.write_index_ + Len(data) <= Len(e.buffer_), Len(e.buffer_) <= MaxIndex,
         \A i \in 1..b.write_index_ : e.buffer_[i] = b.buffer_[i]
  PROVE  LET c == Stored(e, Copy(e.buffer_, e.write_index_, data),
                            e.write_index_ + Len(data))
         IN  Good(c) /\ Readable(c) = Readable(b) \o data
<1> DEFINE S == Bytes \cup {0}
           v == e.buffer_
           at == e.write_index_
           u == Copy(v, at, data)
           w == at + Len(data)
           c == Stored(e, u, w)
<1>1. v \in Seq(S) /\ at \in Nat /\ at + Len(data) <= Len(v) /\ e.read_index_ \in Nat
  BY ZenonT(60) DEF BufferType
<1>2. data \in Seq(S)
  BY SeqMonotonic, ZenonT(60)
<1>3. Len(data) \in Nat
  BY LenProperties, ZenonT(60)
<1>4. /\ at = b.write_index_ /\ Len(v) <= MaxIndex
      /\ \A i \in 1..b.write_index_ : v[i] = b.buffer_[i]
  OBVIOUS
<1> HIDE DEF S, v, at
<1>5. /\ u \in Seq(S) /\ Len(u) = Len(v) /\ \A i \in 1..at : u[i] = v[i]
      /\ \A i \in 1..Len(data) : u[at + i] = data[i]
  BY <1>1, <1>2, CopyDoes
<1> HIDE DEF u
<1>6. /\ c \in BufferType /\ c.buffer_ = u /\ c.read_index_ = e.read_index_
      /\ c.write_index_ = w
  <2>1. u \in Seq(Bytes \cup {0}) /\ w \in Nat
    BY <1>1, <1>3, <1>5 DEF S
  <2> HIDE DEF w
  <2> QED
    BY <2>1, StoredFields, ZenonT(60)
<1> HIDE DEF c
<1>7. /\ c.read_index_ = b.read_index_ /\ c.write_index_ = b.write_index_ + Len(data)
      /\ c.write_index_ <= Len(c.buffer_) /\ Len(c.buffer_) <= MaxIndex
  BY <1>1, <1>4, <1>5, <1>6, ZenonT(60)
<1>8. \A i \in 1..b.write_index_ : c.buffer_[i] = b.buffer_[i]
  BY <1>4, <1>5, <1>6, ZenonT(60)
<1>9. \A i \in 1..Len(data) : c.buffer_[b.write_index_ + i] = data[i]
  BY <1>4, <1>5, <1>6, ZenonT(60)
<1>10. Good(c) /\ Readable(c) = Readable(b) \o data
  BY <1>6, <1>7, <1>8, <1>9, Filled, ZenonT(60)
<1> QED
  BY <1>10, ZenonT(60) DEF c, u, v, at

\* Append puts the data behind what is there, with a resize or without.
LEMMA AppendDoes ==
  ASSUME NEW b, Good(b), NEW data \in Seq(Bytes),
         b.write_index_ + Len(data) <= MaxIndex
  PROVE  /\ Good(Append_(b, data))
         /\ Readable(Append_(b, data)) = Readable(b) \o data
<1> DEFINE e == EnsureWritableBytes(b, Len(data))
           S == Bytes \cup {0}
           n == b.write_index_ + Len(data)
<1>1. /\ b \in BufferType /\ b.buffer_ \in Seq(S) /\ b.write_index_ \in Nat
      /\ Len(b.buffer_) \in Nat /\ b.write_index_ <= Len(b.buffer_)
      /\ Len(b.buffer_) <= MaxIndex
      /\ WritableBytes(b) = Len(b.buffer_) - b.write_index_
  BY Sizes, ZenonT(60)
<1>2. Len(data) \in Nat /\ n \in Nat
  BY <1>1, LenProperties
<1>3. /\ e \in BufferType /\ e.read_index_ = b.read_index_
      /\ e.write_index_ = b.write_index_ /\ n <= Len(e.buffer_)
      /\ Len(e.buffer_) <= MaxIndex
      /\ \A i \in 1..b.write_index_ : e.buffer_[i] = b.buffer_[i]
  <2>1. CASE WritableBytes(b) < Len(data)
    <3> DEFINE v == b.buffer_
               u == Resize(v, n)
    <3>1. 0 \in S /\ v \in Seq(S)
      BY <1>1, ZenonT(60)
    <3> HIDE DEF v, S
    <3>2. u \in Seq(S) /\ Len(u) = n /\ \A i \in 1..n : i <= Len(v) => u[i] = v[i]
      BY <1>2, <3>1, ResizeDoes, ZenonT(60)
    <3>3. e = [b EXCEPT !.buffer_ = u]
      BY <2>1, ZenonT(60) DEF EnsureWritableBytes, v
    <3> HIDE DEF u, e
    <3>4. /\ e \in BufferType /\ e.buffer_ = u /\ e.read_index_ = b.read_index_
          /\ e.write_index_ = b.write_index_
      BY <1>1, <3>2, <3>3, ZenonT(60) DEF BufferType, S
    <3>5. \A i \in 1..b.write_index_ : i \in 1..n /\ i <= Len(v)
      BY <1>1, <1>2 DEF v
    <3>6. \A i \in 1..b.write_index_ : u[i] = v[i]
      BY <3>2, <3>5, ZenonT(60)
    <3> QED
      BY <1>2, <3>2, <3>4, <3>6 DEF v
  <2>2. CASE ~(WritableBytes(b) < Len(data))
    <3>1. e = b
      BY <2>2, ZenonT(60) DEF EnsureWritableBytes
    <3>2. n <= Len(b.buffer_)
      BY <1>1, <1>2, <2>2
    <3> HIDE DEF e
    <3> QED
      BY <1>1, <3>1, <3>2, ZenonT(60)
  <2> QED
    BY <2>1, <2>2, ZenonT(60)
<1> HIDE DEF e
<1>4. (e.write_index_ + Len(data)) % Word = e.write_index_ + Len(data)
  <2>1. n \in Nat /\ n < Word /\ e.write_index_ + Len(data) = n
    BY <1>2, <1>3, Bounds
  <2> HIDE DEF n
  <2>2. n % Word = n
    BY <2>1, NoWrap
  <2> QED
    BY <2>1, <2>2, ZenonT(60)
<1>5. Append_(b, data) = Stored(e, Copy(e.buffer_, e.write_index_, data),
                                   e.write_index_ + Len(data))
  BY <1>4, ZenonT(60) DEF Append_, Stored, e
<1> QED
  BY <1>3, <1>5, CopyFills, ZenonT(60)

\* ReadFromFD: what readv puts into the buffer and what it spills into extrabuf,
\* appended one after the other, are the data that was read.
LEMMA Joined ==
  ASSUME NEW s \in Seq(Bytes), NEW data \in Seq(Bytes), NEW k \in 0..Len(data)
  PROVE  /\ SubSeq(data, 1, k) \in Seq(Bytes) /\ Len(SubSeq(data, 1, k)) = k
         /\ SubSeq(data, k + 1, Len(data)) \in Seq(Bytes)
         /\ Len(SubSeq(data, k + 1, Len(data))) = Len(data) - k
         /\ (s \o SubSeq(data, 1, k)) \o SubSeq(data, k + 1, Len(data)) = s \o data
<1> DEFINE x == SubSeq(data, 1, k)
           y == SubSeq(data, k + 1, Len(data))
<1>1. Len(data) \in Nat
  BY LenProperties, ZenonT(60)
<1>2. x \in Seq(Bytes) /\ Len(x) = k /\ y \in Seq(Bytes) /\ Len(y) = Len(data) - k
  <2>1. \A i \in 1..Len(data) : data[i] \in Bytes
    BY ElementOfSeq, ZenonT(60)
  <2>2. /\ SubSeq(data, 0 + 1, k) \in Seq(Bytes) /\ Len(SubSeq(data, 0 + 1, k)) = k - 0
    BY <1>1, Slice
  <2>3. y \in Seq(Bytes) /\ Len(y) = Len(data) - k
    BY <1>1, Slice
  <2> QED
    BY <2>2, <2>3
<1>3. /\ \A i \in 1..k : x[i] = data[i]
      /\ \A i \in 1..(Len(data) - k) : y[i] = data[k + i]
  <2>1. \A i \in 1..(k - 0) : SubSeq(data, 0 + 1, k)[i] = data[0 + i]
    BY <1>1, Slice
  <2>2. \A i \in 1..(Len(data) - k) : y[i] = data[k + i]
    BY <1>1, Slice
  <2> QED
    BY <2>1, <2>2
<1> HIDE DEF x, y
<1> DEFINE p == s \o x
           q == p \o y
           t == s \o data
           n == Len(s)
<1>4. n \in Nat
  BY LenProperties, ZenonT(60)
<1>5. /\ p \in Seq(Bytes) /\ Len(p) = n + k
      /\ \A i \in 1..(n + k) : p[i] = IF i <= n THEN s[i] ELSE x[i - n]
  BY <1>2, ConcatProperties, ZenonT(60)
<1>6. /\ t \in Seq(Bytes) /\ Len(t) = n + Len(data)
      /\ \A i \in 1..(n + Len(data)) : t[i] = IF i <= n THEN s[i] ELSE data[i - n]
  BY ConcatProperties, ZenonT(60)
<1> HIDE DEF p, t
<1>7. /\ q \in Seq(Bytes) /\ Len(q) = Len(p) + Len(y)
      /\ \A i \in 1..(Len(p) + Len(y)) : q[i] = IF i <= Len(p) THEN p[i] ELSE y[i - Len(p)]
  <2>1. p \in Seq(Bytes) /\ y \in Seq(Bytes)
    BY <1>2, <1>5, ZenonT(60)
  <2> QED
    BY <2>1, ConcatProperties, ZenonT(60)
<1> HIDE DEF q, n
<1>8. ASSUME NEW i \in 1..Len(q) PROVE q[i] = t[i]
  <2>0. i \in 1..(n + Len(data)) /\ i \in 1..(Len(p) + Len(y))
    BY <1>1, <1>2, <1>4, <1>5, <1>7
  <2>1. CASE i <= n
    <3>1. i <= n + k /\ i \in 1..(n + k)
      BY <2>0, <2>1, <1>1, <1>4
    <3> QED
      BY <2>0, <2>1, <3>1, <1>5, <1>6, <1>7, ZenonT(60)
  <2>2. CASE ~(i <= n) /\ i <= n + k
    <3>1. i - n \in 1..k /\ i \in 1..(n + k)
      BY <2>0, <2>2, <1>1, <1>4
    <3>2. x[i - n] = data[i - n]
      BY <3>1, <1>3, ZenonT(60)
    <3> QED
      BY <2>0, <2>2, <3>1, <3>2, <1>5, <1>6, <1>7, ZenonT(60)
  <2>3. CASE ~(i <= n + k)
    <3>1. /\ i - (n + k) \in 1..(Len(data) - k) /\ ~(i <= n)
          /\ k + (i - (n + k)) = i - n
      BY <2>0, <2>3, <1>1, <1>4
    <3>2. y[i - (n + k)] = data[i - n]
      BY <3>1, <1>3, ZenonT(60)
    <3> QED
      BY <2>0, <2>3, <3>1, <3>2, <1>5, <1>6, <1>7, ZenonT(60)
  <2> QED
    BY <2>1, <2>2, <2>3, ZenonT(60)
<1>9. Len(q) = Len(t)
  BY <1>1, <1>2, <1>4, <1>5, <1>6, <1>7
<1>10. q = t
  BY <1>6, <1>7, <1>8, <1>9, SeqEqual, ZenonT(60)
<1> QED
  BY <1>2, <1>10, ZenonT(60) DEF x, y, p, q, t

\* ReadFromFD does the same, through extrabuf or not.
LEMMA ReadFromFDDoes ==
  ASSUME NEW b, Good(b), NEW data \in Seq(Bytes),
         b.write_index_ + Len(data) <= MaxIndex
  PROVE  /\ Good(ReadFromFD(b, data))
         /\ Readable(ReadFromFD(b, data)) = Readable(b) \o data
<1> DEFINE room == WritableBytes(b)
           w == b.write_index_
           v == b.buffer_
<1>1. /\ b \in BufferType /\ w \in Nat /\ Len(v) \in Nat /\ w <= Len(v)
      /\ Len(v) <= MaxIndex /\ room = Len(v) - w /\ Readable(b) \in Seq(Bytes)
  BY Sizes, ZenonT(60)
<1>2. Len(data) \in Nat /\ w + Len(data) <= MaxIndex
  BY LenProperties, ZenonT(60)
<1>3. CASE Len(data) <= room
  <2>1. SubSeq(data, 1, Len(data)) = data
    BY SubSeqFull, ZenonT(60)
  <2>2. (w + Len(data)) % Word = w + Len(data)
    <3> DEFINE a == w + Len(data)
    <3>1. a \in Nat /\ a < Word
      BY <1>1, <1>2, Bounds
    <3> HIDE DEF a
    <3>2. a % Word = a
      BY <3>1, NoWrap
    <3> QED
      BY <3>2, ZenonT(60) DEF a
  <2>3. ReadFromFD(b, data) = Stored(b, Copy(v, w, data), w + Len(data))
    BY <1>1, <1>3, <2>1, <2>2, ZenonT(60) DEF ReadFromFD, Stored
  <2>4. w + Len(data) <= Len(v)
    BY <1>1, <1>2, <1>3
  <2> QED
    BY <1>1, <2>3, <2>4, CopyFills, ZenonT(60)
<1>4. CASE ~(Len(data) <= room)
  <2> DEFINE x == SubSeq(data, 1, room)
             y == SubSeq(data, room + 1, Len(data))
             f == Stored(b, Copy(v, w, x), w + Len(x))
  <2>0. room \in 0..Len(data)
    BY <1>1, <1>2, <1>4
  <2>1. /\ x \in Seq(Bytes) /\ Len(x) = room /\ y \in Seq(Bytes)
        /\ Len(y) = Len(data) - room
        /\ (Readable(b) \o x) \o y = Readable(b) \o data
    BY <1>1, <2>0, Joined, ZenonT(60)
  <2> HIDE DEF x, y
  <2>2. w + Len(x) = Len(v)
    BY <1>1, <2>1
  <2>3. Good(f) /\ Readable(f) = Readable(b) \o x
    <3>1. w + Len(x) <= Len(v)
      BY <1>1, <2>2
    <3> QED
      BY <1>1, <2>1, <3>1, CopyFills, ZenonT(60)
  <2>4. Copy(v, w, x) \in Seq(Bytes \cup {0}) /\ Len(Copy(v, w, x)) = Len(v)
    <3> DEFINE S == Bytes \cup {0}
    <3>1. v \in Seq(S) /\ x \in Seq(S)
      BY <1>1, <2>1, SeqMonotonic, ZenonT(60) DEF BufferType
    <3> HIDE DEF S
    <3>2. Copy(v, w, x) \in Seq(S) /\ Len(Copy(v, w, x)) = Len(v)
      BY <1>1, <2>2, <3>1, CopyDoes
    <3> QED
      BY <3>2, ZenonT(60) DEF S
  <2>5. Len(v) % Word = Len(v)
    <3> DEFINE a == Len(v)
    <3>1. a \in Nat /\ a < Word
      BY <1>1, Bounds
    <3> HIDE DEF a
    <3>2. a % Word = a
      BY <3>1, NoWrap
    <3> QED
      BY <3>2, ZenonT(60) DEF a
  <2>6. f.write_index_ = Len(v)
    <3> DEFINE a == w + Len(x)
               u == Copy(v, w, x)
    <3>1. a \in Nat /\ a = Len(v) /\ u \in Seq(Bytes \cup {0})
      BY <1>1, <2>2, <2>4, ZenonT(60)
    <3> HIDE DEF a, u
    <3>2. Stored(b, u, a).write_index_ = a
      BY <1>1, <3>1, StoredFields, ZenonT(60)
    <3> QED
      BY <3>1, <3>2, ZenonT(60) DEF a, u
  <2>7. ReadFromFD(b, data) = Append_(f, y)
    <3> DEFINE u == Copy(v, w, x)
               g == [b EXCEPT !.buffer_ = u]
    <3>1. ReadFromFD(b, data)
            = Append_([g EXCEPT !.write_index_ = Len(g.buffer_) % Word], y)
      BY <1>4, ZenonT(60) DEF ReadFromFD, x, y
    <3>2. Len(u) = Len(v)
      BY <2>4, ZenonT(60)
    <3> HIDE DEF u
    <3>3. g.buffer_ = u
      BY <1>1, ZenonT(60) DEF BufferType
    <3>4. [g EXCEPT !.write_index_ = Len(v)] = Stored(b, u, Len(v))
      BY <1>1, ZenonT(60) DEF BufferType, Stored
    <3> HIDE DEF g
    <3>5. [g EXCEPT !.write_index_ = Len(g.buffer_) % Word] = Stored(b, u, Len(v))
      BY <2>5, <3>2, <3>3, <3>4, ZenonT(60)
    <3> QED
      BY <2>2, <3>1, <3>5, ZenonT(60) DEF u
  <2> HIDE DEF f
  <2>8. f.write_index_ + Len(y) <= MaxIndex
    BY <1>1, <1>2, <2>1, <2>6
  <2>9. Good(Append_(f, y)) /\ Readable(Append_(f, y)) = Readable(f) \o y
    BY <2>1, <2>3, <2>8, AppendDoes, ZenonT(60)
  <2> QED
    BY <2>1, <2>3, <2>7, <2>9, ZenonT(60)
<1> QED
  BY <1>3, <1>4, ZenonT(60)

\* A buffer whose two indices are zero is well formed and empty.
LEMMA EmptyIsGood ==
  ASSUME NEW b \in BufferType, b.read_index_ = 0, b.write_index_ = 0,
         Len(b.buffer_) <= MaxIndex
  PROVE  Good(b) /\ Readable(b) = <<>>
<1>1. Readable(b) = <<>>
  BY SubSeqEmpty DEF Readable
<1>2. Len(b.buffer_) \in Nat
  BY LenProperties, ZenonT(60) DEF BufferType
<1>3. <<>> \in Seq(Bytes)
  BY EmptySeq, ZenonT(60)
<1> QED
  BY <1>1, <1>2, <1>3 DEF Good

\* ClearReadIndex takes off the front as much as is asked for and there.
LEMMA ClearReadIndexDoes ==
  ASSUME NEW b, Good(b), NEW len \in Nat
  PROVE  /\ Good(ClearReadIndex(b, len))
         /\ ReadLength(b, len) \in 0..Len(Readable(b))
         /\ Readable(ClearReadIndex(b, len))
              = SubSeq(Readable(b), ReadLength(b, len) + 1, Len(Readable(b)))
<1> DEFINE r == b.read_index_
           w == b.write_index_
           v == b.buffer_
           c == ClearReadIndex(b, len)
           R == Readable(b)
           T == SubSeq(R, len + 1, Len(R))
<1>1. /\ b \in BufferType /\ v \in Seq(Bytes \cup {0}) /\ r \in Nat /\ w \in Nat
      /\ Len(v) \in Nat /\ r <= w /\ w <= Len(v) /\ Len(v) <= MaxIndex
      /\ ReadableBytes(b) = w - r /\ R \in Seq(Bytes) /\ Len(R) = w - r
      /\ \A i \in 1..(w - r) : R[i] = v[r + i]
  BY Sizes, ZenonT(60)
<1>2. CASE len < ReadableBytes(b)
  <2>1. ReadLength(b, len) = len /\ len \in 0..Len(R)
    BY <1>1, <1>2 DEF ReadLength
  <2>2. c = [b EXCEPT !.read_index_ = r + len]
    BY <1>2, ZenonT(60) DEF ClearReadIndex
  <2> HIDE DEF c
  <2>3. /\ c \in BufferType /\ c.buffer_ = v /\ c.write_index_ = w
        /\ c.read_index_ = r + len
    <3> DEFINE k == r + len
    <3>1. k \in Nat /\ b \in BufferType /\ c = [b EXCEPT !.read_index_ = k]
      BY <1>1, <2>2
    <3> HIDE DEF k
    <3>2. /\ c \in BufferType /\ c.buffer_ = v /\ c.write_index_ = w
          /\ c.read_index_ = k
      BY <3>1, ZenonT(60) DEF BufferType
    <3> QED
      BY <3>2, ZenonT(60) DEF k
  <2>4. c.read_index_ <= c.write_index_ /\ c.write_index_ <= Len(c.buffer_)
    BY <1>1, <1>2, <2>3
  <2>5. /\ Readable(c) \in Seq(Bytes \cup {0})
        /\ Len(Readable(c)) = c.write_index_ - c.read_index_
        /\ \A i \in 1..(c.write_index_ - c.read_index_) :
             Readable(c)[i] = c.buffer_[c.read_index_ + i]
    BY <2>3, <2>4, Window, ZenonT(60)
  <2> HIDE DEF r, w, v, R
  <2>6. /\ T \in Seq(Bytes) /\ Len(T) = (w - r) - len
        /\ \A i \in 1..((w - r) - len) : T[i] = R[len + i]
    <3>1. Len(R) \in Nat /\ len <= Len(R)
      BY <1>1, <2>1
    <3> QED
      BY <1>1, <3>1, Slice
  <2> HIDE DEF T
  <2>7. w - (r + len) = (w - r) - len
    BY <1>1
  <2>8. Len(Readable(c)) = Len(T)
    BY <2>3, <2>5, <2>6, <2>7, ZenonT(60)
  <2>9. ASSUME NEW i \in 1..Len(T) PROVE Readable(c)[i] = T[i]
    <3>1. len + i \in 1..(w - r) /\ r + (len + i) = (r + len) + i
      BY <1>1, <2>6
    <3>2. Readable(c)[i] = v[(r + len) + i]
      BY <2>3, <2>5, <2>8, ZenonT(60)
    <3>3. T[i] = R[len + i] /\ R[len + i] = v[r + (len + i)]
      BY <1>1, <2>6, <3>1, ZenonT(60)
    <3> QED
      BY <3>1, <3>2, <3>3, ZenonT(60)
  <2>10. Readable(c) = T
    <3>1. T \in Seq(Bytes \cup {0})
      BY <2>6, SeqMonotonic, ZenonT(60)
    <3> QED
      BY <3>1, <2>5, <2>8, <2>9, SeqEqual, ZenonT(60)
  <2>11. Good(c)
    BY <1>1, <2>3, <2>4, <2>6, <2>10, ZenonT(60) DEF Good
  <2> QED
    BY <2>1, <2>10, <2>11, ZenonT(60) DEF T, R, c
<1>3. CASE ~(len < ReadableBytes(b))
  <2>1. ReadLength(b, len) = Len(R) /\ Len(R) \in Nat
    BY <1>1, <1>3 DEF ReadLength
  <2>2. c = [b EXCEPT !.read_index_ = 0, !.write_index_ = 0]
    BY <1>3, ZenonT(60) DEF ClearReadIndex, ResetIndex
  <2> HIDE DEF c
  <2>3. /\ c \in BufferType /\ c.read_index_ = 0 /\ c.write_index_ = 0
        /\ Len(c.buffer_) <= MaxIndex
    BY <1>1, <2>2, ZenonT(60) DEF BufferType
  <2>4. Good(c) /\ Readable(c) = <<>>
    BY <2>3, EmptyIsGood, ZenonT(60)
  <2>5. SubSeq(R, Len(R) + 1, Len(R)) = <<>>
    BY <2>1, SubSeqEmpty
  <2> QED
    BY <2>1, <2>4, <2>5 DEF c
<1> QED
  BY <1>2, <1>3, ZenonT(60)

\* What a read gives out is the front of what is readable.
LEMMA ReadGives ==
  ASSUME NEW b, Good(b), NEW n \in 0..Len(Readable(b))
  PROVE  SubSeq(b.buffer_, b.read_index_ + 1, b.read_index_ + n)
           = SubSeq(Readable(b), 1, n)
<1> DEFINE S == Bytes \cup {0}
           r == b.read_index_
           w == b.write_index_
           v == b.buffer_
           R == Readable(b)
           k == r + n
           x == SubSeq(v, r + 1, k)
           y == SubSeq(R, 0 + 1, n)
<1>1. /\ v \in Seq(S) /\ r \in Nat /\ w \in Nat /\ Len(v) \in Nat /\ r <= w
      /\ w <= Len(v) /\ R \in Seq(Bytes) /\ Len(R) = w - r
      /\ \A i \in 1..(w - r) : R[i] = v[r + i]
  BY Sizes, ZenonT(60)
<1>2. n \in Nat /\ n <= Len(R) /\ k \in Nat /\ r <= k /\ k <= Len(v) /\ k - r = n
  BY <1>1
<1> HIDE DEF S, r, w, v, R, k
<1>3. x \in Seq(S) /\ Len(x) = k - r /\ \A i \in 1..(k - r) : x[i] = v[r + i]
  BY <1>1, <1>2, Slice
<1>4. y \in Seq(Bytes) /\ Len(y) = n - 0 /\ \A i \in 1..(n - 0) : y[i] = R[0 + i]
  BY <1>1, <1>2, Slice
<1> HIDE DEF x, y
<1>5. y \in Seq(S)
  BY <1>4, SeqMonotonic, ZenonT(60) DEF S
<1>6. \A i \in 1..n : i \in 1..(w - r) /\ i \in 1..(n - 0) /\ 0 + i = i
  BY <1>1, <1>2
<1>7. \A i \in 1..n : x[i] = y[i]
  BY <1>1, <1>2, <1>3, <1>4, <1>6
<1>8. x = y
  BY <1>2, <1>3, <1>4, <1>5, <1>7, SeqEqual
<1>9. y = SubSeq(R, 1, n)
  BY DEF y
<1> QED
  BY <1>8, <1>9, ZenonT(60) DEF x, k, r, v, R

-----------------------------------------------------------------------------
\* The queues that the buffers stand for.
Content == [o \in Buffers |-> Readable(buf[o])]

\* The constructed buffers are well formed and map to empty queues.
LEMMA InitIInv == Init => IInv /\ Queue!Init
<1> SUFFICES ASSUME Init PROVE IInv /\ Queue!Init
  OBVIOUS
<1> DEFINE z == [i \in 1..InitSize |-> 0]
<1>1. z \in Seq(Bytes \cup {0}) /\ Len(z) = InitSize
  BY Bounds
<1> HIDE DEF z
<1>2. /\ NewBuffer \in BufferType /\ NewBuffer.read_index_ = 0
      /\ NewBuffer.write_index_ = 0 /\ NewBuffer.buffer_ = z
  BY <1>1, ZenonT(60) DEF NewBuffer, BufferType, z
<1>3. Good(NewBuffer) /\ Readable(NewBuffer) = <<>>
  BY <1>1, <1>2, Bounds, EmptyIsGood, ZenonT(60)
<1>4. buf = [o \in Buffers |-> NewBuffer] /\ moved = <<>>
  BY ZenonT(60) DEF Init
<1>5. IInv
  BY <1>2, <1>3, <1>4, ZenonT(60) DEF IInv
<1>6. \A o \in Buffers : Readable(buf[o]) = <<>>
  BY <1>3, <1>4, ZenonT(60)
<1> QED
  BY <1>4, <1>5, <1>6, ZenonT(60) DEF Queue!Init

\* A step that replaces one buffer.
LEMMA OneChanges ==
  ASSUME IInv, NEW o \in Buffers, NEW c, Good(c), buf' = [buf EXCEPT ![o] = c]
  PROVE  IInv' /\ Content' = [Content EXCEPT ![o] = Readable(c)]
<1>1. c \in BufferType
  BY ZenonT(60) DEF Good
<1>2. buf' \in [Buffers -> BufferType] /\ \A p \in Buffers : Good(buf'[p])
  BY <1>1, ZenonT(60) DEF IInv
<1>3. \A p \in Buffers : Readable(buf'[p]) = IF p = o THEN Readable(c) ELSE Readable(buf[p])
  BY ZenonT(60) DEF IInv
<1> QED
  BY <1>2, <1>3, ZenonT(60) DEF IInv, Content

\* Every call on a buffer keeps all of them well formed and is a step of the
\* byte queue, or none.
LEMMA NextIInv == IInv /\ [Next]_vars => IInv' /\ [Queue!Next]_<<Content, moved>>
<1> SUFFICES ASSUME IInv, [Next]_vars
             PROVE  IInv' /\ [Queue!Next]_<<Content, moved>>
  OBVIOUS
<1>1. CASE UNCHANGED vars
  BY <1>1, ZenonT(60) DEF vars, IInv, Content
<1>2. ASSUME NEW o \in Buffers, NEW data \in Data, DoAppend(o, data) \/ DoReadFromFD(o, data)
      PROVE  IInv' /\ Queue!Put(o)
  <2>1. data \in Seq(Bytes)
    BY Bounds DEF Data
  <2>2. Good(buf[o]) /\ buf[o].write_index_ + Len(data) <= MaxIndex /\ moved' = data
    BY <1>2, ZenonT(60) DEF IInv, DoAppend, DoReadFromFD
  <2>3. PICK c : /\ Good(c) /\ Readable(c) = Readable(buf[o]) \o data
                 /\ buf' = [buf EXCEPT ![o] = c]
    <3>1. CASE DoAppend(o, data)
      BY <2>1, <2>2, <3>1, AppendDoes, ZenonT(60) DEF DoAppend
    <3>2. CASE DoReadFromFD(o, data)
      BY <2>1, <2>2, <3>2, ReadFromFDDoes, ZenonT(60) DEF DoReadFromFD
    <3> QED
      BY <1>2, <3>1, <3>2, ZenonT(60)
  <2>4. IInv' /\ Content' = [Content EXCEPT ![o] = Readable(c)]
    BY <2>3, OneChanges, ZenonT(60)
  <2>5. Content[o] \o moved' = Readable(c)
    BY <2>2, <2>3, ZenonT(60) DEF Content
  <2>6. Content' = [Content EXCEPT ![o] = Content[o] \o moved']
    BY <2>4, <2>5, ZenonT(60)
  <2> QED
    BY <2>1, <2>2, <2>4, <2>6, ZenonT(60) DEF Queue!Put, Content
<1>3. ASSUME NEW o \in Buffers, NEW n \in 0..MaxIndex, DoRead(o, n)
      PROVE  IInv' /\ Queue!Get(o)
  <2> DEFINE b == buf[o]
             k == ReadLength(b, n)
             c == ClearReadIndex(b, k)
  <2>1. Good(b) /\ n \in Nat
    BY Bounds DEF IInv
  <2>2. k \in 0..Len(Readable(b)) /\ k \in Nat
    <3>1. k \in 0..Len(Readable(b))
      BY <2>1, ClearReadIndexDoes, ZenonT(60)
    <3>2. Len(Readable(b)) \in Nat
      BY <2>1, Sizes, LenProperties, ZenonT(60)
    <3> QED
      BY <3>1, <3>2
  <2>3. ReadLength(b, k) = k
    BY <2>1, <2>2, Sizes, ZenonT(60) DEF ReadLength
  <2>4. /\ moved' = SubSeq(b.buffer_, b.read_index_ + 1, b.read_index_ + k)
        /\ buf' = [buf EXCEPT ![o] = c]
    BY <1>3, ZenonT(60) DEF DoRead
  <2> HIDE DEF b, k
  <2>5. Good(c) /\ Readable(c) = SubSeq(Readable(b), k + 1, Len(Readable(b)))
    BY <2>1, <2>2, <2>3, ClearReadIndexDoes, ZenonT(60)
  <2>6. moved' = SubSeq(Readable(b), 1, k)
    BY <2>1, <2>2, <2>4, ReadGives, ZenonT(60)
  <2>7. IInv' /\ Content' = [Content EXCEPT ![o] = Readable(c)]
    BY <2>4, <2>5, OneChanges, ZenonT(60)
  <2>8. Content[o] = Readable(b)
    BY ZenonT(60) DEF Content, b
  <2>9. Content' = [Content EXCEPT ![o] = SubSeq(Content[o], k + 1, Len(Content[o]))]
    BY <2>5, <2>7, <2>8, ZenonT(60)
  <2>10. k \in 0..Len(Content[o]) /\ moved' = SubSeq(Content[o], 1, k)
    BY <2>2, <2>6, <2>8, ZenonT(60)
  <2> QED
    BY <2>7, <2>9, <2>10, ZenonT(60) DEF Queue!Get, Queue!Take, Content
<1>4. ASSUME NEW o \in Buffers, NEW len \in Nat, moved' = <<>>,
             buf' = [buf EXCEPT ![o] = ClearReadIndex(buf[o], len)]
      PROVE  IInv' /\ Queue!Drop(o)
  <2> DEFINE b == buf[o]
             k == ReadLength(b, len)
             c == ClearReadIndex(b, len)
  <2>1. Good(b)
    BY ZenonT(60) DEF IInv
  <2>2. buf' = [buf EXCEPT ![o] = c]
    BY <1>4, ZenonT(60)
  <2>3. /\ Good(c) /\ k \in 0..Len(Readable(b))
        /\ Readable(c) = SubSeq(Readable(b), k + 1, Len(Readable(b)))
    BY <2>1, <1>4, ClearReadIndexDoes, ZenonT(60)
  <2> HIDE DEF c, k
  <2>4. IInv' /\ Content' = [Content EXCEPT ![o] = Readable(c)]
    BY <2>2, <2>3, OneChanges, ZenonT(60)
  <2>5. Content[o] = Readable(b)
    BY ZenonT(60) DEF Content
  <2>6. /\ Content' = [Content EXCEPT ![o] = SubSeq(Content[o], k + 1, Len(Content[o]))]
        /\ k \in 0..Len(Content[o])
    BY <2>3, <2>4, <2>5, ZenonT(60)
  <2> QED
    BY <1>4, <2>4, <2>6, ZenonT(60) DEF Queue!Drop, Queue!Take, Content
<1>5. ASSUME NEW o \in Buffers, NEW n \in 0..MaxIndex,
             DoClearReadIndex(o, n) \/ RetrieveUntil(o, n)
      PROVE  IInv' /\ Queue!Drop(o)
  <2>1. n \in Nat /\ buf[o].read_index_ \in Nat
    BY Bounds DEF IInv, BufferType
  <2>2. PICK len \in Nat : /\ moved' = <<>>
                           /\ buf' = [buf EXCEPT ![o] = ClearReadIndex(buf[o], len)]
    <3>1. CASE DoClearReadIndex(o, n)
      BY <2>1, <3>1, ZenonT(60) DEF DoClearReadIndex
    <3>2. CASE RetrieveUntil(o, n)
      <4>1. n - buf[o].read_index_ \in Nat
        BY <2>1, <3>2 DEF RetrieveUntil
      <4> QED
        BY <3>2, <4>1, ZenonT(60) DEF RetrieveUntil
    <3> QED
      BY <1>5, <3>1, <3>2, ZenonT(60)
  <2> QED
    BY <1>4, <2>2, ZenonT(60)
<1>6. ASSUME NEW o \in Buffers, NEW p \in Buffers, Swap(o, p)
      PROVE  IInv' /\ Queue!Swap(o, p)
  <2>1. buf' = [buf EXCEPT ![o] = buf[p], ![p] = buf[o]] /\ moved' = <<>>
    BY <1>6, ZenonT(60) DEF Swap
  <2>2. IInv'
    BY <2>1, ZenonT(60) DEF IInv
  <2>3. Content' = [Content EXCEPT ![o] = Content[p], ![p] = Content[o]]
    BY <2>1, ZenonT(60) DEF Content, IInv
  <2> QED
    BY <2>1, <2>2, <2>3, ZenonT(60) DEF Queue!Swap, Content
<1> QED
  BY <1>1, <1>2, <1>3, <1>5, <1>6, ZenonT(60) DEF Next, Queue!Next

\* The vector, its two indices and extrabuf are a queue of bytes, whatever
\* the sizes of the vector and of extrabuf, as long as write_index_ can hold
\* the position it reaches: Append, ReadFromFD, the reads, RetrieveUntil and
\* Swap lose, repeat, reorder and make up nothing.
THEOREM BufferCorrect == Spec => IsByteQueue
<1>1. Init => IInv /\ Queue!Init
  BY InitIInv, ZenonT(60)
<1>2. IInv /\ [Next]_vars => IInv' /\ [Queue!Next]_<<Content, moved>>
  BY NextIInv, ZenonT(60)
<1> QED
  BY <1>1, <1>2, PTL DEF Spec, IsByteQueue, Queue!Spec, Content

\* What a call hands to its caller is a sequence of bytes.
LEMMA MovedType ==
  IInv /\ moved \in Seq(Bytes) /\ [Queue!Next]_<<Content, moved>> => moved' \in Seq(Bytes)
<1> SUFFICES ASSUME IInv, moved \in Seq(Bytes), [Queue!Next]_<<Content, moved>>
             PROVE  moved' \in Seq(Bytes)
  OBVIOUS
<1>1. ASSUME NEW o \in Buffers, NEW n \in 0..Len(Readable(buf[o])),
             moved' = SubSeq(Readable(buf[o]), 1, n)
      PROVE  moved' \in Seq(Bytes)
  <2> DEFINE R == Readable(buf[o])
  <2>1. R \in Seq(Bytes)
    BY Sizes, ZenonT(60) DEF IInv
  <2> HIDE DEF R
  <2>2. SubSeq(R, 1, n) \in Seq(Bytes)
    BY <1>1, <2>1, Joined, ZenonT(60) DEF R
  <2> QED
    BY <1>1, <2>2, ZenonT(60) DEF R
<1>2. ASSUME NEW o \in Buffers, Queue!Get(o) PROVE moved' \in Seq(Bytes)
  <2>1. PICK n \in 0..Len(Content[o]) : moved' = SubSeq(Content[o], 1, n)
    BY <1>2, ZenonT(60) DEF Queue!Get, Content
  <2>2. Content[o] = Readable(buf[o])
    BY ZenonT(60) DEF Content
  <2> QED
    BY <1>1, <2>1, <2>2, ZenonT(60)
<1>3. moved' = <<>> => moved' \in Seq(Bytes)
  BY EmptySeq, ZenonT(60)
<1> QED
  BY <1>2, <1>3, ZenonT(60) DEF Queue!Next, Queue!Put, Queue!Drop, Queue!Swap

\* The indices stay in order and inside the vector, so neither the copies of
\* Append and ReadFromFD nor the reads touch anything outside it.
THEOREM BufferTypeCorrect == Spec => []TypeOK
<1> DEFINE TInv == IInv /\ moved \in Seq(Bytes)
<1>1. Init => TInv
  BY InitIInv, EmptySeq, ZenonT(60) DEF Init
<1>2. TInv /\ [Next]_vars => TInv'
  BY NextIInv, MovedType, ZenonT(60)
<1>3. TInv => TypeOK
  BY ZenonT(60) DEF IInv, Good, TypeOK
<1> QED
  BY <1>1, <1>2, <1>3, PTL DEF Spec
=============================================================================
