----------------------------- MODULE BoundedFifo -----------------------------
(***************************************************************************)
(* What a shared memory queue promises its users, whatever the interleaving*)
(* of the atomic operations that implement it: items become visible at the *)
(* back, a consumer borrows one item that nobody else has borrowed, reads  *)
(* it as often as it likes and always sees the same value, and items leave *)
(* at the front, in order.  ShmQueue is shown to implement this module.    *)
(***************************************************************************)
EXTENDS Naturals, Sequences

CONSTANTS
  Consumers,   \* the callers of try_pop
  Values,      \* what an item may hold
  Capacity,    \* item_count
  Nothing      \* "no value read yet"

VARIABLES
  buffer,      \* the items that were sent and not yet received, oldest first
  borrowed,    \* the position in buffer each consumer has borrowed, 0 for none
  got          \* the value each consumer read from the item it has borrowed

vars == <<buffer, borrowed, got>>

Init ==
  /\ buffer = << >>
  /\ borrowed = [c \in Consumers |-> 0]
  /\ got = [c \in Consumers |-> Nothing]

Push(v) ==
  /\ Len(buffer) < Capacity
  /\ buffer' = Append(buffer, v)
  /\ UNCHANGED <<borrowed, got>>

Borrow(c, k) ==
  /\ borrowed[c] = 0
  /\ k \notin {borrowed[d] : d \in Consumers}
  /\ borrowed' = [borrowed EXCEPT ![c] = k]
  /\ UNCHANGED <<buffer, got>>

Read(c) ==
  /\ borrowed[c] > 0
  /\ got' = [got EXCEPT ![c] = buffer[borrowed[c]]]
  /\ UNCHANGED <<buffer, borrowed>>

Return(c) ==
  /\ borrowed[c] = 1
  /\ buffer' = Tail(buffer)
  /\ borrowed' = [d \in Consumers |->
                    IF borrowed[d] = 0 THEN 0 ELSE borrowed[d] - 1]
  /\ got' = [got EXCEPT ![c] = Nothing]

Next ==
  \/ \E v \in Values : Push(v)
  \/ \E c \in Consumers :
       \/ \E k \in 1 .. Len(buffer) : Borrow(c, k)
       \/ Read(c)
       \/ Return(c)

Spec == Init /\ [][Next]_vars

=============================================================================
