---------------------------- MODULE LossyMailbox ----------------------------
(***************************************************************************)
(* What a shared-memory segment of the server promises whatever the        *)
(* scheduler does.  Packets are offered; each grant (one sem_v, or one     *)
(* sem_p that fails) permits at most one delivery.  A delivery may lose,   *)
(* repeat, reorder and even mix packets, but every word it carries comes   *)
(* from a packet offered since the server started, and it uses up a        *)
(* permit.                                                                 *)
(***************************************************************************)
EXTENDS Naturals, Sequences

CONSTANTS Packets,  \* the packets that may be offered
          Words     \* the positions of the words a delivered block carries

VARIABLES offered,  \* packets offered since the server started
          permits,  \* deliveries still permitted
          out       \* blocks delivered, oldest first

vars == <<offered, permits, out>>

Init ==
  /\ offered = {}
  /\ permits = 0
  /\ out = <<>>

Offer ==
  /\ \E p \in Packets : offered' = offered \union {p}
  /\ UNCHANGED <<permits, out>>

Grant ==
  /\ permits' = permits + 1
  /\ UNCHANGED <<offered, out>>

Deliver ==
  /\ permits > 0
  /\ permits' = permits - 1
  /\ \E b \in [Words -> offered] : out' = Append(out, b)
  /\ UNCHANGED offered

(* The consumer wakes and finds nothing it may take. *)
Waste ==
  /\ permits > 0
  /\ permits' = permits - 1
  /\ UNCHANGED <<offered, out>>

(* The server is started again: nothing of the earlier run is left. *)
Restart ==
  /\ offered' = {}
  /\ permits' = 0
  /\ out' = <<>>

Next == Offer \/ Grant \/ Deliver \/ Waste \/ Restart

Spec == Init /\ [][Next]_vars
=============================================================================
