----------------------------- MODULE ByteQueue -----------------------------
(***************************************************************************)
(* What a Buffer promises: a queue of bytes without a limit, read from the   *)
(* front and written at the back; and Swap exchanges two of them.            *)
(***************************************************************************)
EXTENDS Naturals, Sequences

CONSTANTS Buffers, Bytes

VARIABLES
  content,   \* the bytes in each queue
  moved      \* the bytes the last call has put in, or given out

Init == content = [o \in Buffers |-> <<>>] /\ moved = <<>>

\* The queue grows at its back, by any bytes.
Put(o) ==
  /\ moved' \in Seq(Bytes)
  /\ content' = [content EXCEPT ![o] = @ \o moved']

\* n bytes are taken off its front: given out, or dropped.
Take(o, n) == content' = [content EXCEPT ![o] = SubSeq(@, n + 1, Len(@))]

Get(o) ==
  \E n \in 0..Len(content[o]) : Take(o, n) /\ moved' = SubSeq(content[o], 1, n)

Drop(o) == moved' = <<>> /\ \E n \in 0..Len(content[o]) : Take(o, n)

Swap(o, p) ==
  /\ content' = [content EXCEPT ![o] = content[p], ![p] = content[o]]
  /\ moved' = <<>>

Next == \E o \in Buffers : Put(o) \/ Get(o) \/ Drop(o) \/ \E p \in Buffers : Swap(o, p)

Spec == Init /\ [][Next]_<<content, moved>>
=============================================================================
