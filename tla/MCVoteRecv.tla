----------------------------- MODULE MCVoteRecv -----------------------------
(***************************************************************************)
(* Small instances of VoteRecv.                                            *)
(***************************************************************************)
EXTENDS VoteRecv, TLC

Symmetry == Permutations(Mbufs)

\* With bytes of 4 values the indices become 0, 1 (in the tables), 5 (beyond
\* them: cell 1) and -7 (before them: cell -3).  Value 0 stays 0, 1 becomes 4.
SignedFrames == [idx : {0, 4, 5, 6}, value : {0, 1}]

\* Frames as packet_send writes them, in host order: one value, which becomes 4,
\* and the smallest and the largest index, which becomes negative.
SenderFrames == [idx : {0, ARRAY_SIZE - 1}, value : {1}]

\* One frame that adds no vote.
OneFrame == [idx : {0}, value : {1}]
=============================================================================
