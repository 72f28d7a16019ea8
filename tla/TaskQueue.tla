------------------------------ MODULE TaskQueue ------------------------------
(***************************************************************************)
(* What CThreadPool promises to its users: tasks start in the order they   *)
(* were added, each at most once, and none starts after it was deleted.    *)
(***************************************************************************)
EXTENDS Naturals, Sequences

VARIABLES fresh,    \* tasks not given to the pool yet
          pending,  \* tasks accepted, oldest first
          running,  \* tasks some thread is running
          done,     \* tasks run to the end, then deleted
          dropped   \* tasks refused, or deleted by destroy()

vars == <<fresh, pending, running, done, dropped>>

Init == pending = <<>> /\ running = {} /\ done = {} /\ dropped = {}

Add(t) ==
  /\ t \in fresh
  /\ fresh' = fresh \ {t}
  /\ pending' = Append(pending, t)
  /\ UNCHANGED <<running, done, dropped>>

Refuse(t) ==
  /\ t \in fresh
  /\ fresh' = fresh \ {t}
  /\ dropped' = dropped \union {t}
  /\ UNCHANGED <<pending, running, done>>

Start ==
  /\ pending # <<>>
  /\ Head(pending) \notin running \union done \union dropped
  /\ pending' = Tail(pending)
  /\ running' = running \union {Head(pending)}
  /\ UNCHANGED <<fresh, done, dropped>>

Finish(t) ==
  /\ t \in running
  /\ running' = running \ {t}
  /\ done' = done \union {t}
  /\ UNCHANGED <<fresh, pending, dropped>>

Clear ==
  /\ pending' = <<>>
  /\ dropped' = dropped \union {pending[i] : i \in 1 .. Len(pending)}
  /\ UNCHANGED <<fresh, running, done>>

Next ==
  \/ \E t \in fresh : Add(t) \/ Refuse(t)
  \/ Start \/ Clear
  \/ \E t \in running : Finish(t)

Spec == Init /\ [][Next]_vars
=============================================================================
