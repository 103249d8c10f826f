---------------------------- MODULE MCPacketSend ----------------------------
(***************************************************************************)
(* Small instances of PacketSend.                                          *)
(***************************************************************************)
EXTENDS PacketSend, TLC

\* The mbufs are interchangeable.
Symmetry == Permutations(Mbufs)
=============================================================================
