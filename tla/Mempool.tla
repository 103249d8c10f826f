------------------------------ MODULE Mempool ------------------------------
(***************************************************************************)
(* The mbuf pool of the three programs: an rte_mempool with a common ring  *)
(* shared by all lcores and one cache per lcore (rte_mempool.h).           *)
(*                                                                         *)
(* An lcore reads and writes only its own cache, so the interleaving of    *)
(* lcores is visible in the common ring alone; each action below makes at  *)
(* most one access to the ring.  The order of the objects inside the ring  *)
(* and inside a cache is abstracted: both are sets, and an object taken    *)
(* from one is any of its elements.                                        *)
(*                                                                         *)
(* The module has no Next of its own: its actions constrain common and     *)
(* cache and are conjoined by the programs that own the pool.              *)
(***************************************************************************)
EXTENDS Integers, FiniteSets

CONSTANTS
  Mbufs,      \* the objects the pool was created with (NUM_MBUFS of them)
  Lcores,     \* the EAL lcore ids of the process (its -l option)
  CacheSize   \* cache->size (MBUF_CACHE_SIZE)

(***************************************************************************)
(* n = 1 is smaller than cache->size in every program, so a get never      *)
(* skips the cache (rte_mempool.h:1466).                                   *)
(***************************************************************************)
ASSUME MempoolAssumption ==
  /\ IsFiniteSet(Mbufs)
  /\ IsFiniteSet(Lcores)
  /\ Lcores \subseteq Nat
  /\ CacheSize \in Nat /\ CacheSize >= 2

VARIABLES
  common,     \* objects in the common ring
  cache       \* cache[c]: objects in the cache of lcore c

poolVars == <<common, cache>>

\* cache->flushthresh, one and a half times the size (set by rte_mempool.c).
FlushThresh == (CacheSize * 3) \div 2

\* A new pool: every object is in the common ring.
PoolInit ==
  /\ common = Mbufs
  /\ cache = [c \in Lcores |-> {}]

-----------------------------------------------------------------------------
(***************************************************************************)
(* rte_mempool_do_generic_get with n = 1.                                  *)
(***************************************************************************)

\* The cache of c is not empty: m is taken from it.
CacheHit(c, m) ==
  /\ m \in cache[c]
  /\ cache' = [cache EXCEPT ![c] = @ \ {m}]
  /\ UNCHANGED common

\* The cache of c is empty: it is filled up and m is taken from the new content.
Backfill(c, m) ==
  /\ cache[c] = {}
  /\ \E objs \in SUBSET common :
        /\ Cardinality(objs) = 1 + CacheSize
        /\ m \in objs
        /\ common' = common \ objs
        /\ cache' = [cache EXCEPT ![c] = objs \ {m}]

\* The ring cannot supply 1 + CacheSize objects: the get goes on to
\* ring_dequeue, and other lcores may use the ring before it gets there.
BackfillFails(c) ==
  /\ cache[c] = {}
  /\ Cardinality(common) < 1 + CacheSize
  /\ UNCHANGED poolVars

\* ring_dequeue: m is taken from the ring itself ...
RingDequeue(m) ==
  /\ m \in common
  /\ common' = common \ {m}
  /\ UNCHANGED cache

\* ... or the get returns -ENOENT.
RingDequeueFails ==
  /\ common = {}
  /\ UNCHANGED poolVars

-----------------------------------------------------------------------------
\* Mutant: a put that crosses the threshold shortens the cache but does not
\* enqueue what it cuts off.
PutLosesFlushed(c, m) ==
  \/ /\ Cardinality(cache[c]) + 1 < FlushThresh
     /\ cache' = [cache EXCEPT ![c] = @ \cup {m}]
     /\ UNCHANGED common
  \/ /\ Cardinality(cache[c]) + 1 >= FlushThresh
     /\ \E kept \in SUBSET cache[c] :
           /\ Cardinality(kept) = CacheSize
           /\ cache' = [cache EXCEPT ![c] = kept]
           /\ UNCHANGED common

(***************************************************************************)
(* rte_mempool_do_generic_put with n = 1.  When the new length reaches the *)
(* flush threshold, the objects above cache->size go to the ring: what     *)
(* stays is CacheSize older objects, so m itself never stays.              *)
(***************************************************************************)
Put(c, m) ==
  \/ /\ Cardinality(cache[c]) + 1 < FlushThresh
     /\ cache' = [cache EXCEPT ![c] = @ \cup {m}]
     /\ UNCHANGED common
  \/ /\ Cardinality(cache[c]) + 1 >= FlushThresh
     /\ \E kept \in SUBSET cache[c] :
           /\ Cardinality(kept) = CacheSize
           /\ cache' = [cache EXCEPT ![c] = kept]
           /\ common' = common \cup ((cache[c] \ kept) \cup {m})

(***************************************************************************)
(* What a driver does with the mbufs of completed descriptors, on the      *)
(* lcore that called it: it puts them back one by one or in bulks          *)
(* (RTE_ETH_TX_OFFLOAD_MBUF_FAST_FREE).  Either way the cache keeps all    *)
(* objects if it stays below the threshold, and otherwise ends between     *)
(* cache->size and the threshold.                                          *)
(***************************************************************************)
PutBulk(c, objs) ==
  LET all == cache[c] \cup objs
  IN  \/ /\ Cardinality(all) < FlushThresh
         /\ cache' = [cache EXCEPT ![c] = all]
         /\ UNCHANGED common
      \/ /\ Cardinality(all) >= FlushThresh
         /\ \E kept \in SUBSET all :
               /\ Cardinality(kept) \in CacheSize .. (FlushThresh - 1)
               /\ cache' = [cache EXCEPT ![c] = kept]
               /\ common' = common \cup (all \ kept)

(***************************************************************************)
(* What a driver does in rte_eth_dev_start, on lcore c: it takes one mbuf  *)
(* per Rx descriptor, objs in all.  It is the first use of the pool, and   *)
(* backfills may leave up to CacheSize further objects in the cache of c.  *)
(* A start that failed has objs = {}: what the driver took it put back,    *)
(* and puts leave the cache anywhere below the flush threshold.            *)
(***************************************************************************)
TakeBulk(c, objs) ==
  /\ cache[c] = {}
  /\ objs \subseteq common
  /\ \E rest \in SUBSET (common \ objs) :
        /\ Cardinality(rest) <= IF objs = {} THEN FlushThresh - 1 ELSE CacheSize
        /\ common' = common \ (objs \cup rest)
        /\ cache' = [cache EXCEPT ![c] = rest]
=============================================================================
