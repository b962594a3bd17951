----------------------------- MODULE MCWinChannel -----------------------------
(***************************************************************************)
(* Instances of WinChannel for TLC: the ends of a channel in two processes *)
(* or, as MessageChannel::pair makes them, in one.                         *)
(***************************************************************************)
EXTENDS WinChannel

Apart    == [a |-> "p", b |-> "q"]
Together == [a |-> "p", b |-> "p"]

TwoInFirst == [p |-> 2, q |-> 0]
=============================================================================
