------------------------------ MODULE FifoLock ------------------------------
(***************************************************************************)
(* What a per-key mutex promises: clients queue per key in arrival order,  *)
(* only the client at the head of a queue may hold its key, and each       *)
(* client leaves the queue it entered.                                     *)
(***************************************************************************)
EXTENDS Integers, Sequences

CONSTANTS Clients, Keys

VARIABLES
    queue,   \* per key: the clients waiting or holding, oldest first
    holding, \* the clients that hold their key
    gone     \* the clients that have held and left

vars == <<queue, holding, gone>>

Queued(c) == \E k \in Keys : \E i \in 1..Len(queue[k]) : queue[k][i] = c

Init ==
    /\ queue = [k \in Keys |-> <<>>]
    /\ holding = {}
    /\ gone = {}

Arrive(c, k) ==
    /\ ~ Queued(c) /\ c \notin gone
    /\ queue' = [queue EXCEPT ![k] = Append(@, c)]
    /\ UNCHANGED <<holding, gone>>

AtHead(c, k) == queue[k] # <<>> /\ Head(queue[k]) = c

Take(c, k) ==
    /\ AtHead(c, k) /\ c \notin holding
    /\ holding' = holding \cup {c}
    /\ UNCHANGED <<queue, gone>>

Leave(c, k) ==
    /\ AtHead(c, k) /\ c \in holding
    /\ queue' = [queue EXCEPT ![k] = Tail(@)]
    /\ holding' = holding \ {c}
    /\ gone' = gone \cup {c}

Next == \E c \in Clients, k \in Keys : Arrive(c, k) \/ Take(c, k) \/ Leave(c, k)

Spec == Init /\ [][Next]_vars
=============================================================================
