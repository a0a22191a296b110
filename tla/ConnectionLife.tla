--------------------------- MODULE ConnectionLife ---------------------------
(***************************************************************************)
(* What the rest of the library may rely on about the life of a connection  *)
(* that a TcpServer owns: the stages it goes through, once each and in this *)
(* order.  TcpConnection is shown to implement it in full detail for one    *)
(* connection, TcpServer for each of its connections.                       *)
(*                                                                         *)
(*   new       created and in connections_, not registered with the poller *)
(*   open      ConnectEstablished has registered the channel               *)
(*   closed    close_cb_ has been called                                   *)
(*   erased    out of connections_, ConnectDestoryed queued                *)
(*   removed   the channel is out of the poller                            *)
(*   gone      the last shared_ptr has been dropped, the descriptor closed *)
(***************************************************************************)
EXTENDS Naturals

VARIABLES
  stage,
  closes    \* calls of close_cb_

Init == stage = "new" /\ closes = 0

Moves(from, to) == stage = from /\ stage' \in to

Established == Moves("new", {"open"}) /\ UNCHANGED closes

\* close_cb_ erases at once when it runs in the server's own loop.
Closed == Moves("open", {"closed", "erased"}) /\ closes' = closes + 1
Erased == Moves("closed", {"erased"}) /\ UNCHANGED closes

\* The task that removes the channel may hold the last shared_ptr.
Removed == Moves("erased", {"removed", "gone"}) /\ UNCHANGED closes
Destroyed == Moves("removed", {"gone"}) /\ UNCHANGED closes

Next == Established \/ Closed \/ Erased \/ Removed \/ Destroyed

Spec == Init /\ [][Next]_<<stage, closes>>
=============================================================================
