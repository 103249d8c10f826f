--------------------------- MODULE MbufLifecycle ----------------------------
(***************************************************************************)
(* What the users of an mbuf pool promise of each mbuf: at every moment it *)
(* has one owner, and it changes hands only along the legal edges          *)
(*                                                                         *)
(*        pool -> lcore -> tx -> sent -> pool      lcore -> pool           *)
(*        pool -> rx                                                       *)
(*                                                                         *)
(* so that in particular an lcore never releases an mbuf it has handed to  *)
(* a Tx queue, and a queue gives an mbuf back only after sending it.       *)
(***************************************************************************)
CONSTANTS Mbufs, Lcores, Queues

VARIABLE owner

Pool == <<"pool", 0>>
Rx == <<"rx", 0>>
Lcore(c) == <<"lcore", c>>
Tx(q) == <<"tx", q>>
Done(q) == <<"sent", q>>

OwnedBy(o) == {m \in Mbufs : owner[m] = o}

\* The mbufs of S pass to owner o, all others stay.
Give(S, o) == owner' = [m \in Mbufs |-> IF m \in S THEN o ELSE owner[m]]

Init == owner = [m \in Mbufs |-> Pool]

PostRx == \E S \in SUBSET OwnedBy(Pool) : Give(S, Rx)

Alloc(c) == \E m \in OwnedBy(Pool) : Give({m}, Lcore(c))

Release(c) == \E m \in OwnedBy(Lcore(c)) : Give({m}, Pool)

\* One call of the driver: new packets are posted, old ones reclaimed.
Burst(c, q) ==
  \E new \in SUBSET OwnedBy(Lcore(c)), old \in SUBSET OwnedBy(Done(q)) :
     owner' = [m \in Mbufs |-> IF m \in new THEN Tx(q)
                               ELSE IF m \in old THEN Pool
                               ELSE owner[m]]

Complete(q) == \E m \in OwnedBy(Tx(q)) : Give({m}, Done(q))

Next ==
  \/ PostRx
  \/ \E c \in Lcores : Alloc(c) \/ Release(c)
  \/ \E c \in Lcores, q \in Queues : Burst(c, q)
  \/ \E q \in Queues : Complete(q)

Spec == Init /\ [][Next]_owner
=============================================================================
