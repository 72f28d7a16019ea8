------------------------------ MODULE Exchange ------------------------------
(***************************************************************************)
(* What the server promises to clients that wait for each reply: a client  *)
(* sends a request with a number of its own, the database process gets it  *)
(* once, and the client gets its reply once.  Nothing is lost, repeated,   *)
(* or given to somebody else, in whatever order the clients are served.    *)
(***************************************************************************)
EXTENDS Integers

CONSTANTS Clients,
          Numbers    \* numbers of requests

VARIABLES waits,     \* the number of the request a client waits for, or 0
          where      \* the halves of the way a packet of the client is on

vars == <<waits, where>>

Init ==
  /\ waits = [c \in Clients |-> 0]
  /\ where = [c \in Clients |-> {}]

Ask(c) ==
  /\ waits[c] = 0 /\ where[c] = {}
  /\ \E n \in Numbers :
       /\ \A d \in Clients : waits[d] # n
       /\ waits' = [waits EXCEPT ![c] = n]
  /\ where' = [where EXCEPT ![c] = {"request"}]

Dispatch(c) ==
  /\ waits[c] # 0 /\ where[c] = {"request"}
  /\ where' = [where EXCEPT ![c] = {"reply"}]
  /\ UNCHANGED waits

Answer(c) ==
  /\ waits[c] # 0 /\ where[c] = {"reply"}
  /\ waits' = [waits EXCEPT ![c] = 0]
  /\ where' = [where EXCEPT ![c] = {}]

Next == \E c \in Clients : Ask(c) \/ Dispatch(c) \/ Answer(c)

Spec == Init /\ [][Next]_vars
=============================================================================
