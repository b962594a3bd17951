---------------------------- MODULE MCUnixChannel ----------------------------
(***************************************************************************)
(* Instances of UnixChannel for TLC: numbers of files of the two users, or *)
(* in their messages.                                                      *)
(***************************************************************************)
EXTENDS UnixChannel

None       == [a |-> 0, b |-> 0]
OneEach    == [a |-> 1, b |-> 1]
OneFromA   == [a |-> 1, b |-> 0]
ThreeFromA == [a |-> 3, b |-> 0]
=============================================================================
