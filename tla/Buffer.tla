------------------------------- MODULE Buffer -------------------------------
(***************************************************************************)
(* base/buffer: the byte buffer that TcpConnection reads into and writes     *)
(* from, as operators on a record b:                                        *)
(*   b.buffer_        the vector                                            *)
(*   b.read_index_    where reading goes on                                 *)
(*   b.write_index_   where writing goes on                                 *)
(* and two Buffer objects on which its functions are called in any order.    *)
(***************************************************************************)
EXTENDS Naturals, Sequences

CONSTANTS
  Buffers,    \* the Buffer objects
  Bytes,      \* byte values; 0 is what resize() fills in
  InitSize,   \* size of a new buffer (1024 in the code)
  Extra,      \* sizeof extrabuf (65536)
  Word,       \* values of an index (2^32)
  MaxIndex    \* bound: how far write_index_ goes, at most Word - 1

ASSUME BufferAssumption ==
  /\ {InitSize, Extra, Word, MaxIndex} \subseteq Nat \ {0}
  /\ InitSize <= MaxIndex /\ MaxIndex < Word
  /\ Bytes \subseteq Nat \ {0}

BufferType ==
  [buffer_ : Seq(Bytes \cup {0}), read_index_ : Nat, write_index_ : Nat]

NewBuffer ==
  [buffer_ |-> [i \in 1..InitSize |-> 0], read_index_ |-> 0, write_index_ |-> 0]

WritableBytes(b) == (Len(b.buffer_) + Word - b.write_index_) % Word
ReadableBytes(b) == (b.write_index_ + Word - b.read_index_) % Word

\* What is between the two indices.
Readable(b) == SubSeq(b.buffer_, b.read_index_ + 1, b.write_index_)

\* std::copy to position at, and vector::resize.
Copy(v, at, data) ==
  [i \in 1..Len(v) |-> IF i \in (at + 1)..(at + Len(data)) THEN data[i - at] ELSE v[i]]
Resize(v, n) == [i \in 1..n |-> IF i <= Len(v) THEN v[i] ELSE 0]

EnsureWritableBytes(b, len) ==
  IF WritableBytes(b) < len
  THEN [b EXCEPT !.buffer_ = Resize(@, b.write_index_ + len)] ELSE b

Append_(b, data) ==
  LET e == EnsureWritableBytes(b, Len(data))
  IN  [e EXCEPT !.buffer_ = Copy(@, e.write_index_, data),
                !.write_index_ = (@ + Len(data)) % Word]

ResetIndex(b) == [b EXCEPT !.read_index_ = 0, !.write_index_ = 0]

ClearReadIndex(b, len) ==
  IF len < ReadableBytes(b)
  THEN [b EXCEPT !.read_index_ = @ + len] ELSE ResetIndex(b)

\* ReadAsString and ReadBytes give out at most what is there.
ReadLength(b, len) == IF len > ReadableBytes(b) THEN ReadableBytes(b) ELSE len

\* How much readv may return: extrabuf is offered when the buffer has less
\* room than it.
ReadRoom(b) ==
  WritableBytes(b) + IF WritableBytes(b) < Extra THEN Extra ELSE 0

\* ReadFromFD with the data readv has read.  The slip appends extrabuf where
\* the data in the buffer begins.
ReadFromFD_KeepIndex(b, data) ==
  LET room == WritableBytes(b)
      n == IF Len(data) <= room THEN Len(data) ELSE room
      filled == [b EXCEPT !.buffer_ = Copy(@, b.write_index_, SubSeq(data, 1, n))]
  IN  IF Len(data) <= room
      THEN [filled EXCEPT !.write_index_ = (@ + Len(data)) % Word]
      ELSE Append_(filled, SubSeq(data, room + 1, Len(data)))

ReadFromFD(b, data) ==
  LET room == WritableBytes(b)
      n == IF Len(data) <= room THEN Len(data) ELSE room
      filled == [b EXCEPT !.buffer_ = Copy(@, b.write_index_, SubSeq(data, 1, n))]
  IN  IF Len(data) <= room
      THEN [filled EXCEPT !.write_index_ = (@ + Len(data)) % Word]
      ELSE Append_([filled EXCEPT !.write_index_ = Len(filled.buffer_) % Word],
                   SubSeq(data, room + 1, Len(data)))

-----------------------------------------------------------------------------
VARIABLES
  buf,     \* the objects
  moved    \* the bytes the last call has put in, or moved out

vars == <<buf, moved>>

Init == buf = [o \in Buffers |-> NewBuffer] /\ moved = <<>>

DoAppend(o, data) ==
  /\ buf[o].write_index_ + Len(data) <= MaxIndex
  /\ buf' = [buf EXCEPT ![o] = Append_(@, data)]
  /\ moved' = data

DoReadFromFD(o, data) ==
  /\ Len(data) <= ReadRoom(buf[o])
  /\ buf[o].write_index_ + Len(data) <= MaxIndex
  /\ buf' = [buf EXCEPT ![o] = ReadFromFD(@, data)]
  /\ moved' = data

\* ReadAsString and ReadBytes, and with all that is there ReadAllAsString
\* and ReadAllAsByte.
DoRead(o, len) ==
  LET n == ReadLength(buf[o], len)
  IN  /\ moved' = SubSeq(buf[o].buffer_, buf[o].read_index_ + 1, buf[o].read_index_ + n)
      /\ buf' = [buf EXCEPT ![o] = ClearReadIndex(@, n)]

\* The caller is done with bytes it has seen through ReadIndexPtr().
DoClearReadIndex(o, len) ==
  /\ buf' = [buf EXCEPT ![o] = ClearReadIndex(@, len)]
  /\ moved' = <<>>

\* A pointer that is not among the readable bytes is refused.
RetrieveUntil(o, end) ==
  /\ end \in buf[o].read_index_..buf[o].write_index_
  /\ buf' = [buf EXCEPT ![o] = ClearReadIndex(@, end - buf[o].read_index_)]
  /\ moved' = <<>>

Swap(o, rhs) ==
  /\ buf' = [buf EXCEPT ![o] = buf[rhs], ![rhs] = buf[o]]
  /\ moved' = <<>>

\* The data of one call.
Data == UNION {[1..n -> Bytes] : n \in 0..MaxIndex}

Next ==
  \E o \in Buffers :
    \/ \E data \in Data : DoAppend(o, data) \/ DoReadFromFD(o, data)
    \/ \E n \in 0..MaxIndex : DoRead(o, n) \/ DoClearReadIndex(o, n) \/ RetrieveUntil(o, n)
    \/ \E rhs \in Buffers : Swap(o, rhs)

Spec == Init /\ [][Next]_vars

-----------------------------------------------------------------------------
\* The indices stay in order and inside the vector (Append, ReadFromFD and
\* ClearReadIndex), so no access is outside it.
TypeOK ==
  /\ buf \in [Buffers -> BufferType]
  /\ moved \in Seq(Bytes)
  /\ \A o \in Buffers :
       /\ buf[o].read_index_ <= buf[o].write_index_
       /\ buf[o].write_index_ <= Len(buf[o].buffer_)

Queue == INSTANCE ByteQueue WITH content <- [o \in Buffers |-> Readable(buf[o])]

\* The vector, its two indices and extrabuf together are a queue of bytes:
\* no byte is lost, repeated, reordered or made up by a resize.
IsByteQueue == Queue!Spec
=============================================================================
