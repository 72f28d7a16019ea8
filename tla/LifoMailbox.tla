----------------------------- MODULE LifoMailbox -----------------------------
(***************************************************************************)
(* What a shared-memory segment of the server is meant to be: a stack of   *)
(* whole packets, each pushed at most once and popped at most once.        *)
(***************************************************************************)
EXTENDS Naturals, Sequences, SequencesExt

CONSTANTS Packets,  \* the packets that may be pushed
          Words     \* the positions of the words of a block

VARIABLES pushed,   \* packets pushed since the server started
          stack,    \* blocks in the segment, the top one last
          out       \* blocks handed over, oldest first

vars == <<pushed, stack, out>>

(* The block all of whose words come from packet p. *)
WholeBlock(p) == [w \in Words |-> p]

Init == pushed = {} /\ stack = <<>> /\ out = <<>>

Push ==
  /\ \E p \in Packets \ pushed :
       /\ pushed' = pushed \union {p}
       /\ stack' = Append(stack, WholeBlock(p))
  /\ UNCHANGED out

Pop ==
  /\ stack # <<>>
  /\ out' = Append(out, Last(stack))
  /\ stack' = Front(stack)
  /\ UNCHANGED pushed

Restart == pushed' = {} /\ stack' = <<>> /\ out' = <<>>

Next == Push \/ Pop \/ Restart

Spec == Init /\ [][Next]_vars
=============================================================================
