---------------------------- MODULE MCPacketRecv ----------------------------
(***************************************************************************)
(* Small instances of PacketRecv.                                          *)
(***************************************************************************)
EXTENDS PacketRecv, TLC

\* The mbufs are interchangeable.
Symmetry == Permutations(Mbufs)
=============================================================================
