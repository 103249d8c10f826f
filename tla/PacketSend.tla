----------------------------- MODULE PacketSend -----------------------------
(***************************************************************************)
(* packet_send (main_pkt_send.cpp).  The main thread starts the port and   *)
(* launches packet_send_process on every lcore, its own included.  Each    *)
(* lcore then repeats for ever: allocate BURST_SIZE mbufs from the shared  *)
(* pool, hand them to its Tx queue, free those the queue did not take,     *)
(* count.  An lcore whose allocation fails returns -1; main gets to its    *)
(* wait loop only when its own lcore has returned.                         *)
(*                                                                         *)
(* The mbufs are identities, so that a buffer freed twice, freed while the *)
(* NIC still owns it, or lost shows up as a buffer in two places or in     *)
(* none.  The NIC and its driver are external: they are modelled by what   *)
(* rte_ethdev.h promises of them.                                          *)
(***************************************************************************)
EXTENDS Mempool, PortInit, Sequences

CONSTANTS
  MainLcore,      \* the lcore that runs main()
  BURST_SIZE,
  RX_RING_SIZE,   \* mbufs the driver posts on each Rx queue at dev_start
  TX_RING_SIZE,   \* descriptors of a Tx queue
  TxFreeThresh,   \* free descriptors below which the driver must reclaim
  MAX_CORES,      \* slots of total_num and burst_num
  CounterMod      \* the counters are unsigned: they wrap at CounterMod

NumCores == Cardinality(Lcores)

(***************************************************************************)
(* main sets num_rx_queues and num_tx_queues to the number of lcores.      *)
(* Lcore ids of MAX_CORES and above would write outside total_num and      *)
(* burst_num; the model is of processes started below that limit.          *)
(***************************************************************************)
ASSUME SendAssumption ==
  /\ RxRings = NumCores /\ TxRings = NumCores
  /\ MainLcore \in Lcores
  /\ MAX_CORES \in Nat /\ \A c \in Lcores : c < MAX_CORES
  /\ BURST_SIZE \in Nat \ {0}
  /\ RX_RING_SIZE \in Nat /\ TX_RING_SIZE \in Nat \ {0}
  /\ TxFreeThresh \in 1 .. TX_RING_SIZE
  /\ CounterMod \in Nat \ {0}

Queues == 0 .. (TxRings - 1)
NoQueue == TxRings          \* stands for every queue id that is not set up

VARIABLES
  rx,          \* mbufs the driver holds in the Rx rings, which nobody polls
  pending,     \* pending[q]: mbufs in Tx descriptors the NIC has yet to send
  sent,        \* sent[q]: mbufs in completed descriptors, not yet reclaimed
  nic_tx,      \* nic_tx[q]: packets the NIC has sent from queue q
  pc,          \* pc[c]: where lcore c is in packet_send_process
  queue_id,    \* queue_id[c]
  bufs,        \* bufs[c]: the part of the array bufs that has been filled
  i,           \* i[c]: the loop index
  nb_tx,       \* nb_tx[c], 0 outside its scope
  total_num,   \* total_num[c]
  burst_num    \* burst_num[c]

nicVars == <<rx, pending, sent, nic_tx>>
coreVars == <<pc, queue_id, bufs, i, nb_tx, total_num, burst_num>>
vars == <<bootVars, poolVars, nicVars, coreVars>>

\* The process exists, and its lcores run, until it exits or crashes.
Alive == stage \in {"run", "return"}
Halted == stage \in {"exit", "crash"}

\* config is a local of main(): it is gone once main has returned.
ConfigLive == stage = "run"

MinLcore == CHOOSE c \in Lcores : \A d \in Lcores : c <= d

Init ==
  /\ BootInit
  /\ PoolInit
  /\ rx = {}
  /\ pending = [q \in Queues |-> {}]
  /\ sent = [q \in Queues |-> {}]
  /\ nic_tx = [q \in Queues |-> 0]
  /\ pc = [c \in Lcores |-> "wait"]
  /\ queue_id = [c \in Lcores |-> NoQueue]
  /\ bufs = [c \in Lcores |-> <<>>]
  /\ i = [c \in Lcores |-> 0]
  /\ nb_tx = [c \in Lcores |-> 0]
  /\ total_num = [c \in Lcores |-> 0]
  /\ burst_num = [c \in Lcores |-> 0]

-----------------------------------------------------------------------------
(***************************************************************************)
(* The main thread.                                                        *)
(***************************************************************************)

Boot == BootStep /\ UNCHANGED <<poolVars, nicVars, coreVars>>

\* rte_eth_dev_start fills every Rx ring from the pool ...
StartPort ==
  /\ DevStart
  /\ \E objs \in SUBSET common :
        /\ Cardinality(objs) = RxRings * RX_RING_SIZE
        /\ TakeBulk(MainLcore, objs)
        /\ rx' = objs
  /\ UNCHANGED <<pending, sent, nic_tx, coreVars>>

\* ... or fails, for want of mbufs or for a reason of its own.
StartPortFails ==
  /\ DevStartFails
  /\ TakeBulk(MainLcore, {})
  /\ UNCHANGED <<nicVars, coreVars>>

\* rte_eal_mp_remote_launch with CALL_MAIN: every lcore enters the function.
Launch ==
  /\ stage = "launch"
  /\ stage' = "run"
  /\ pc' = [c \in Lcores |-> "enter"]
  /\ UNCHANGED <<dev, ret, poolVars, nicVars,
                 queue_id, bufs, i, nb_tx, total_num, burst_num>>

\* Mutant: main does not run packet_send_process itself and waits at once,
\* returning at the first lcore that failed.
WaitLcoresAny ==
  /\ stage = "run"
  /\ \E c \in Lcores : pc[c] = "failed"
  /\ stage' = "return"
  /\ UNCHANGED <<dev, ret, poolVars, nicVars, coreVars>>

\* Mutant: main does not wait.
WaitLcoresNone ==
  /\ stage = "run"
  /\ stage' = "return"
  /\ UNCHANGED <<dev, ret, poolVars, nicVars, coreVars>>

\* Mutant: main waits for all lcores before it looks at their results.
WaitLcoresAll ==
  /\ stage = "run"
  /\ \A c \in Lcores : pc[c] = "failed"
  /\ stage' = "return"
  /\ UNCHANGED <<dev, ret, poolVars, nicVars, coreVars>>

(***************************************************************************)
(* The wait loop, which main reaches when its own lcore has returned.  It  *)
(* waits for the lcores in ascending order and returns -1 at the first     *)
(* that returned a negative value; as packet_send_process returns nothing  *)
(* else, that is the lowest lcore.                                         *)
(***************************************************************************)
WaitLcores ==
  /\ stage = "run"
  /\ pc[MainLcore] = "failed"
  /\ pc[MinLcore] = "failed"
  /\ stage' = "return"
  /\ UNCHANGED <<dev, ret, poolVars, nicVars, coreVars>>

\* main has returned; the process, with the lcores still running, ends.
Exit ==
  /\ stage = "return"
  /\ stage' = "exit"
  /\ UNCHANGED <<dev, ret, poolVars, nicVars, coreVars>>

Stopped == Halted /\ UNCHANGED vars

-----------------------------------------------------------------------------
(***************************************************************************)
(* An lcore in packet_send_process.                                        *)
(***************************************************************************)

\* Mutant: the queue numbers are all the same.
queuesAllZero == [k \in 0 .. (TxRings - 1) |-> 0]

\* config.queues, as main filled it: one entry per Tx queue.
queues == [k \in 0 .. (TxRings - 1) |-> k % TxRings]

\* What queues[core_id] may yield.  Past the end of the vector, or when the
\* vector is gone, the read is undefined and yields any number.
QueueRead(c) ==
  IF ConfigLive /\ c \in DOMAIN queues THEN {queues[c]} ELSE Queues \cup {NoQueue}

ReadQueue(c) ==
  /\ Alive /\ pc[c] = "enter"
  /\ \E q \in QueueRead(c) : queue_id' = [queue_id EXCEPT ![c] = q]
  /\ pc' = [pc EXCEPT ![c] = "alloc"]
  /\ UNCHANGED <<bootVars, poolVars, nicVars, bufs, i, nb_tx, total_num, burst_num>>

\* Mutant: the allocation loop runs one element too far.
FillOnePastEnd(c, m) ==
  /\ bufs' = [bufs EXCEPT ![c] = Append(@, m)]
  /\ i' = [i EXCEPT ![c] = @ + 1]
  /\ pc' = [pc EXCEPT ![c] = IF i[c] < BURST_SIZE THEN "alloc" ELSE "tx"]
  /\ UNCHANGED <<bootVars, nicVars, queue_id, nb_tx, total_num, burst_num>>

\* rte_pktmbuf_alloc returned m: it is bufs[i], and the loop goes on.
Fill(c, m) ==
  /\ bufs' = [bufs EXCEPT ![c] = Append(@, m)]
  /\ i' = [i EXCEPT ![c] = @ + 1]
  /\ pc' = [pc EXCEPT ![c] = IF i[c] + 1 < BURST_SIZE THEN "alloc" ELSE "tx"]
  /\ UNCHANGED <<bootVars, nicVars, queue_id, nb_tx, total_num, burst_num>>

AllocFromCache(c) ==
  /\ Alive /\ pc[c] = "alloc"
  /\ \E m \in Mbufs : (CacheHit(c, m) \/ Backfill(c, m)) /\ Fill(c, m)

AllocGoesToRing(c) ==
  /\ Alive /\ pc[c] = "alloc"
  /\ BackfillFails(c)
  /\ pc' = [pc EXCEPT ![c] = "ring"]
  /\ UNCHANGED <<bootVars, nicVars, queue_id, bufs, i, nb_tx, total_num, burst_num>>

AllocFromRing(c) ==
  /\ Alive /\ pc[c] = "ring"
  /\ \E m \in Mbufs : RingDequeue(m) /\ Fill(c, m)

\* "rte_pktmbuf_alloc failed": the lcore returns -1 and bufs[0 .. i-1] are lost.
AllocFails(c) ==
  /\ Alive /\ pc[c] = "ring"
  /\ RingDequeueFails
  /\ pc' = [pc EXCEPT ![c] = "failed"]
  /\ UNCHANGED <<bootVars, nicVars, queue_id, bufs, i, nb_tx, total_num, burst_num>>

-----------------------------------------------------------------------------
(***************************************************************************)
(* rte_eth_tx_burst.  The driver first reclaims completed descriptors of   *)
(* the queue: all of them if it is short of descriptors, any of them       *)
(* otherwise; the mbufs go back to the pool on the calling lcore.  It then *)
(* takes as many packets as it has free descriptors.                       *)
(***************************************************************************)
InUse(q) == Cardinality(pending[q]) + Cardinality(sent[q])
FirstBufs(c, n) == {bufs[c][k] : k \in 1 .. n}
Lesser(a, b) == IF a < b THEN a ELSE b

\* Mutant: the free loop starts at 0 instead of nb_tx.
SentFreesAll(c, n) ==
  /\ nb_tx' = [nb_tx EXCEPT ![c] = n]
  /\ i' = [i EXCEPT ![c] = 0]
  /\ pc' = [pc EXCEPT ![c] = IF n < BURST_SIZE THEN "free" ELSE "count"]
  /\ UNCHANGED <<bootVars, rx, nic_tx, queue_id, bufs, total_num, burst_num>>

\* Mutant: the packets the queue did not take are not freed.
SentNoFree(c, n) ==
  /\ nb_tx' = [nb_tx EXCEPT ![c] = n]
  /\ i' = [i EXCEPT ![c] = n]
  /\ pc' = [pc EXCEPT ![c] = "count"]
  /\ UNCHANGED <<bootVars, rx, nic_tx, queue_id, bufs, total_num, burst_num>>

\* The caller goes on with nb_tx = n: to the free loop or to the counters.
Sent(c, n) ==
  /\ nb_tx' = [nb_tx EXCEPT ![c] = n]
  /\ i' = [i EXCEPT ![c] = n]
  /\ pc' = [pc EXCEPT ![c] = IF n < BURST_SIZE THEN "free" ELSE "count"]
  /\ UNCHANGED <<bootVars, rx, nic_tx, queue_id, bufs, total_num, burst_num>>

\* Mutant: a burst never reclaims completed descriptors.
TxBurstNoReclaim(c) ==
  LET q == queue_id[c]
      n == Lesser(BURST_SIZE, TX_RING_SIZE - InUse(q))
  IN  /\ Alive /\ pc[c] = "tx"
      /\ dev.started /\ q \in Queues
      /\ pending' = [pending EXCEPT ![q] = @ \cup FirstBufs(c, n)]
      /\ Sent(c, n)
      /\ UNCHANGED <<poolVars, sent>>

TxBurst(c) ==
  LET q == queue_id[c]
  IN  /\ Alive /\ pc[c] = "tx"
      /\ dev.started /\ q \in Queues
      /\ \E old \in SUBSET sent[q] :
            LET n == Lesser(BURST_SIZE,
                            TX_RING_SIZE - (InUse(q) - Cardinality(old)))
            IN  /\ TX_RING_SIZE - InUse(q) < TxFreeThresh => old = sent[q]
                /\ PutBulk(c, old)
                /\ sent' = [sent EXCEPT ![q] = @ \ old]
                /\ pending' = [pending EXCEPT ![q] = @ \cup FirstBufs(c, n)]
                /\ Sent(c, n)

\* On a port that is not started the burst function is a stub that takes
\* nothing; config->port_id may be such a port once main() has returned.
TxBurstStopped(c) ==
  /\ Alive /\ pc[c] = "tx"
  /\ ~dev.started \/ ~ConfigLive
  /\ Sent(c, 0)
  /\ UNCHANGED <<poolVars, pending, sent>>

\* Undefined outcomes of the call, after which the process is not followed any
\* further: a queue id that was never set up, a queue that another lcore is
\* using at the same moment, or a port_id read from the frame main() has left.
TxBurstCrashes(c) ==
  /\ Alive /\ pc[c] = "tx"
  /\ \/ dev.started /\ queue_id[c] \notin Queues
     \/ \E d \in Lcores \ {c} : pc[d] = "tx" /\ queue_id[d] = queue_id[c]
     \/ ~ConfigLive
  /\ stage' = "crash"
  /\ UNCHANGED <<dev, ret, poolVars, nicVars, coreVars>>

\* The free loop: the packets from nb_tx on go back to the pool.
FreeUnsent(c) ==
  /\ Alive /\ pc[c] = "free"
  /\ Put(c, bufs[c][i[c] + 1])
  /\ i' = [i EXCEPT ![c] = @ + 1]
  /\ pc' = [pc EXCEPT ![c] = IF i[c] + 1 < BURST_SIZE THEN "free" ELSE "count"]
  /\ UNCHANGED <<bootVars, nicVars, queue_id, bufs, nb_tx, total_num, burst_num>>

\* Mutant: the whole burst is counted, whatever the queue took.
CountWholeBurst(c) ==
  /\ Alive /\ pc[c] = "count"
  /\ total_num' = [total_num EXCEPT ![c] = (@ + BURST_SIZE) % CounterMod]
  /\ burst_num' = [burst_num EXCEPT ![c] = (@ + 1) % CounterMod]
  /\ bufs' = [bufs EXCEPT ![c] = <<>>]
  /\ i' = [i EXCEPT ![c] = 0]
  /\ nb_tx' = [nb_tx EXCEPT ![c] = 0]
  /\ pc' = [pc EXCEPT ![c] = "alloc"]
  /\ UNCHANGED <<bootVars, poolVars, nicVars, queue_id>>

\* The counters; what bufs and nb_tx held is dead from here on.
Count(c) ==
  /\ Alive /\ pc[c] = "count"
  /\ total_num' = [total_num EXCEPT ![c] = (@ + nb_tx[c]) % CounterMod]
  /\ burst_num' = [burst_num EXCEPT ![c] = (@ + 1) % CounterMod]
  /\ bufs' = [bufs EXCEPT ![c] = <<>>]
  /\ i' = [i EXCEPT ![c] = 0]
  /\ nb_tx' = [nb_tx EXCEPT ![c] = 0]
  /\ pc' = [pc EXCEPT ![c] = "alloc"]
  /\ UNCHANGED <<bootVars, poolVars, nicVars, queue_id>>

-----------------------------------------------------------------------------
\* The NIC sends a packet of queue q; its mbuf waits to be reclaimed.
Transmit(q) ==
  /\ Alive
  /\ \E m \in pending[q] :
        /\ pending' = [pending EXCEPT ![q] = @ \ {m}]
        /\ sent' = [sent EXCEPT ![q] = @ \cup {m}]
  /\ nic_tx' = [nic_tx EXCEPT ![q] = (@ + 1) % CounterMod]
  /\ UNCHANGED <<bootVars, poolVars, rx, coreVars>>

Main == Boot \/ StartPort \/ StartPortFails \/ Launch \/ WaitLcores \/ Exit

Worker(c) ==
  \/ ReadQueue(c) \/ AllocFromCache(c) \/ AllocGoesToRing(c)
  \/ AllocFromRing(c) \/ AllocFails(c)
  \/ TxBurst(c) \/ TxBurstStopped(c) \/ TxBurstCrashes(c)
  \/ FreeUnsent(c) \/ Count(c)

Next ==
  \/ Main
  \/ \E c \in Lcores : Worker(c)
  \/ \E q \in Queues : Transmit(q)
  \/ Stopped

Spec == Init /\ [][Next]_vars

(***************************************************************************)
(* Every lcore is a thread pinned to a core of its own and polls, so it    *)
(* runs on whatever the others do; the NIC sends what is posted on it.     *)
(***************************************************************************)
Fairness ==
  /\ WF_vars(Main)
  /\ \A c \in Lcores : WF_vars(Worker(c))
  /\ \A q \in Queues : WF_vars(Transmit(q))

FairSpec == Spec /\ Fairness

-----------------------------------------------------------------------------
(***************************************************************************)
(* Properties.                                                             *)
(***************************************************************************)

TypeOK ==
  /\ stage \in BootStage \cup {"launch", "run", "return", "exit", "crash"}
  /\ dev \in Device
  /\ ret \in {"none", "ok", "error"}
  /\ common \subseteq Mbufs
  /\ cache \in [Lcores -> SUBSET Mbufs]
  /\ rx \subseteq Mbufs
  /\ pending \in [Queues -> SUBSET Mbufs]
  /\ sent \in [Queues -> SUBSET Mbufs]
  /\ nic_tx \in [Queues -> 0 .. (CounterMod - 1)]
  /\ pc \in [Lcores -> {"wait", "enter", "alloc", "ring", "tx",
                        "free", "count", "failed"}]
  /\ queue_id \in [Lcores -> Queues \cup {NoQueue}]
  /\ bufs \in [Lcores -> Seq(Mbufs)]
  /\ i \in [Lcores -> 0 .. BURST_SIZE]
  /\ nb_tx \in [Lcores -> 0 .. BURST_SIZE]
  /\ total_num \in [Lcores -> 0 .. (CounterMod - 1)]
  /\ burst_num \in [Lcores -> 0 .. (CounterMod - 1)]

\* The entries of bufs[c] that lcore c still owns: all it has filled until it
\* hands them over, then those the free loop has not reached.
Owned(c) ==
  (IF pc[c] \in {"free", "count"} THEN i[c] + 1 ELSE 1) .. Len(bufs[c])
OwnedBufs(c) == {bufs[c][k] : k \in Owned(c)}

Cached == UNION {cache[c] : c \in Lcores}
Held == UNION {OwnedBufs(c) : c \in Lcores}
OnTx == UNION {pending[q] \cup sent[q] : q \in Queues}

(***************************************************************************)
(* No mbuf is in two places: neither handed out twice, nor freed while the *)
(* NIC or another lcore has it, nor freed twice.  It is about the free     *)
(* loop, which starts at nb_tx, and about the pool shared by the lcores.   *)
(***************************************************************************)
NoAlias ==
  /\ \A c, d \in Lcores : c # d =>
        cache[c] \cap cache[d] = {} /\ OwnedBufs(c) \cap OwnedBufs(d) = {}
  /\ \A c \in Lcores : \A k, l \in Owned(c) : k # l => bufs[c][k] # bufs[c][l]
  /\ \A p, q \in Queues :
        /\ p # q => (pending[p] \cup sent[p]) \cap (pending[q] \cup sent[q]) = {}
        /\ pending[p] \cap sent[p] = {}
  /\ common \cap (Cached \cup Held \cup OnTx \cup rx) = {}
  /\ Cached \cap (Held \cup OnTx \cup rx) = {}
  /\ Held \cap (OnTx \cup rx) = {}
  /\ OnTx \cap rx = {}

(***************************************************************************)
(* No mbuf is lost while the process runs: each is in the pool, on the     *)
(* NIC, or in the bufs of an lcore.  The bufs of an lcore that has failed  *)
(* are the only leak.                                                      *)
(***************************************************************************)
Conserved == Mbufs = common \cup Cached \cup Held \cup OnTx \cup rx

-----------------------------------------------------------------------------
(***************************************************************************)
(* The README promises one Tx queue per core: until main returns, every    *)
(* lcore that has read its queue id has one that exists and that no other  *)
(* lcore has.  It is what makes the unlocked rte_eth_tx_burst of two       *)
(* lcores safe.                                                            *)
(***************************************************************************)
HasQueue(c) == pc[c] \notin {"wait", "enter"}

OneQueuePerLcore ==
  \A c \in Lcores : ConfigLive /\ HasQueue(c) =>
     /\ queue_id[c] \in Queues
     /\ \A d \in Lcores : d # c /\ HasQueue(d) => queue_id[d] # queue_id[c]

(***************************************************************************)
(* rte_ethdev.h: transmit functions should not be invoked when the device  *)
(* is stopped.  main goes on after "port init error!".                     *)
(***************************************************************************)
NoBurstOnStoppedPort == \A c \in Lcores : pc[c] = "tx" => dev.started

(***************************************************************************)
(* rte_mempool.h, where a get falls back to the ring: "If that fails, we   *)
(* are truly out of buffers".                                              *)
(***************************************************************************)
FailureMeansOutOfBuffers ==
  (\E c \in Lcores : pc[c] = "ring") /\ common = {} => Cached = {}

(***************************************************************************)
(* How many mbufs make the allocation of packet_send_process infallible:   *)
(* full Rx and Tx rings, a burst in every lcore, and a cache just below    *)
(* the flush threshold in every lcore but the one that allocates.          *)
(***************************************************************************)
MbufsNeeded ==
  RxRings * RX_RING_SIZE + TxRings * TX_RING_SIZE
    + NumCores * BURST_SIZE + (NumCores - 1) * (FlushThresh - 1)

Provisioned == Cardinality(Mbufs) >= MbufsNeeded

(***************************************************************************)
(* With that many mbufs no lcore ever returns: "rte_pktmbuf_alloc failed"  *)
(* is a question of sizing, not of interleaving.                           *)
(***************************************************************************)
NoFailureIfProvisioned == Provisioned => \A c \in Lcores : pc[c] # "failed"

(***************************************************************************)
(* Nor is config, a local of main that every lcore reads, ever stale: with *)
(* that many mbufs, and lcores 0 .. n-1, main does not return and nothing  *)
(* crashes while an lcore is in packet_send_process.  With fewer mbufs a   *)
(* slow lcore may read its queue, and any lcore its port, from a frame     *)
(* that main has left.                                                     *)
(***************************************************************************)
ConfigOutlivesLcores ==
  Provisioned => \A c \in Lcores : pc[c] # "wait" => ConfigLive

(***************************************************************************)
(* total_num agrees with the NIC: while main has not returned, what lcore  *)
(* c has counted, with the burst it has yet to count, is what its queue    *)
(* has sent and has still to send, across partial bursts and across the    *)
(* wrap of the counters.  (An lcore that starts later may read any queue.) *)
(***************************************************************************)
TotalMatchesNic ==
  \A c \in Lcores : ConfigLive /\ HasQueue(c) /\ queue_id[c] \in Queues =>
     (total_num[c] + nb_tx[c]) % CounterMod =
        (nic_tx[queue_id[c]] + Cardinality(pending[queue_id[c]])) % CounterMod

(***************************************************************************)
(* An lcore that failed strands its mbufs: those of the unfinished burst   *)
(* (fewer than BURST_SIZE), those in its cache and, until main returns,    *)
(* those on its Tx queue never come back, as only its own calls could      *)
(* return them.                                                            *)
(***************************************************************************)
Stranded(c) ==
  /\ Len(bufs[c]) < BURST_SIZE
  /\ bufs'[c] = bufs[c]
  /\ cache'[c] = cache[c]
  /\ ConfigLive /\ queue_id[c] \in Queues =>
        pending'[queue_id[c]] \cup sent'[queue_id[c]] =
          pending[queue_id[c]] \cup sent[queue_id[c]]

FailedLcoreStrandsMbufs ==
  [][\A c \in Lcores : pc[c] = "failed" => Stranded(c)]_vars

(***************************************************************************)
(* With lcores 0 .. n-1 the process crashes or exits after its launch only *)
(* if the allocation of the main lcore failed: no interleaving of the      *)
(* other lcores ends it.                                                   *)
(***************************************************************************)
EndsOnlyAfterMainFailed ==
  stage \in {"return", "crash"} => pc[MainLcore] = "failed"

(***************************************************************************)
(* A burst the queue refused entirely is not the last word: on a started   *)
(* port the lcore later gets packets accepted again, unless an allocation  *)
(* fails or main returns first.                                            *)
(***************************************************************************)
RefusedBurstRecovers ==
  \A c \in Lcores :
    (dev.started /\ pc[c] = "free" /\ nb_tx[c] = 0)
      ~> (nb_tx[c] > 0 \/ pc[c] = "failed" \/ stage # "run")

(***************************************************************************)
(* The process ends once the main lcore and the lowest lcore have failed,  *)
(* whatever the others are doing.  Nothing less ends it: while the lowest  *)
(* lcore runs, main hangs in its wait loop after its own lcore has failed. *)
(***************************************************************************)
MainFailureEndsProcess ==
  (pc[MainLcore] = "failed" /\ pc[MinLcore] = "failed") ~> Halted

-----------------------------------------------------------------------------
(***************************************************************************)
(* packet_send implements MbufLifecycle: seen from any one mbuf, every     *)
(* step of any lcore or of the NIC is a legal change of hands, or none.    *)
(***************************************************************************)
Owner ==
  [m \in Mbufs |->
     CASE m \in common \cup Cached -> <<"pool", 0>>
       [] m \in rx -> <<"rx", 0>>
       [] \E c \in Lcores : m \in OwnedBufs(c) ->
            <<"lcore", CHOOSE c \in Lcores : m \in OwnedBufs(c)>>
       [] \E q \in Queues : m \in pending[q] ->
            <<"tx", CHOOSE q \in Queues : m \in pending[q]>>
       [] \E q \in Queues : m \in sent[q] ->
            <<"sent", CHOOSE q \in Queues : m \in sent[q]>>
       [] OTHER -> <<"lost", 0>>]

Life == INSTANCE MbufLifecycle WITH owner <- Owner

ImplementsLifecycle == Life!Spec
=============================================================================
