# packet_send: a TLA+ verification project

The repository holds three DPDK programs: `packet_send` transmits packets of a
custom format from every lcore, `packet_recv` prints what it receives, and
`main` receives on several queues and keeps a table of votes. The code is short;
what makes it hard is what it shares: one mbuf pool with per-lcore caches, Tx and
Rx rings filled and emptied by a NIC, and threads that never stop. This project
models the three programs and the lock-free ring behind their pool, model-checks
them on small instances with TLC, and proves the safety of the three programs and
of the ring for all instances with TLAPS.

## Inventory

| Part | State | Operations | Interacts with |
|---|---|---|---|
| port initialisation (`init_port` and the top of `main`, three copies) | how far the port is set up, what `init_port` returned | one per call: EAL, arguments, ports, pool, then valid, info, configure, adjust, Rx queues, Tx queues, start, MAC, promiscuous | the pool (start fills the Rx rings); failures of `init_port` are printed and ignored |
| `packet_send` (`main_pkt_send.cpp`) | `config`, per lcore `queue_id`, `bufs`, loop index, `nb_tx`, `total_num`, `burst_num` | launch, read the queue id, allocate, `rte_eth_tx_burst`, free the rest, count; wait for lcores, return | all lcores share the pool; lcore and NIC share a Tx ring; `config` is in `main`'s frame |
| mbuf pool (`rte_mempool.h`) | common ring, cache per lcore | get one (cache, backfill, fallback to the ring), put one (flush above the threshold) | lcores, driver |
| `packet_recv` (`main_pkt_recv.cpp`) | the burst, `burst_num`, the heap | poll, print, free | driver refills the Rx ring from the pool |
| `main` (`main.cpp`) | the burst, `array`, `vote`, counters | poll four queues in turn, convert, vote, free | as `packet_recv` |
| NIC and driver (external) | Tx and Rx descriptors | transmit, receive, reclaim, refill | everything |
| `rte_ring` (vendored) | head and tail of producers and consumers, the slots | enqueue and dequeue of a bulk, each several accesses to shared memory | the common ring of the pool: all lcores use it without a lock |
| helpers (`packet_utils.cpp`, `show_ip`) | none | read clocks, print | none |

What makes each part correct: an mbuf has one owner at a time and is never lost
(pool, sender, receivers); each lcore has a Tx queue of its own (sender); counters
agree with the NIC (sender, `main`); frames are handled once and in order
(receivers); no queue starves (`main`); the tables are accessed within bounds
(`main`); an operation on the ring is atomic to those who use it, and finishes
(`rte_ring`). The hard behaviours are the interleaving of lcores in the pool and in
its ring, indices and counters that wrap, partial
bursts, an allocation that fails in the middle of a burst, undefined reads, a
start that fails half way, and resources that run dry after a long time.
`PROJECT.json` lists them line by line under `hazards`.

## Modules

| Module | Models | Extends |
|---|---|---|
| `PortInit` | the start of all three programs | |
| `Mempool` | get and put of one object, and the bulk operations of a driver | |
| `Ring` | the multi-producer, multi-consumer `rte_ring` under the pool | |
| `RingFifo` | abstract: a queue whose bulk operations are atomic | |
| `PacketSend` | `packet_send`: main thread, lcores, NIC | `Mempool`, `PortInit` |
| `MbufLifecycle` | abstract: the legal changes of hands of an mbuf | |
| `RxLoop` | what the two receivers share: polling, refilling, freeing | `PortInit` |
| `PacketRecv` | `packet_recv`: printing and the leak | `RxLoop` |
| `VoteRecv` | `main`: conversion, tables, counters | `RxLoop` |
| `PortProofs` | lemmas: the start of the programs, remainders and quotients | `PortInit`, `TLAPS` |
| `PacketSendProofs` | type correctness of `PacketSend` | `PacketSend`, `PortProofs` |
| `OwnershipProofs` | ownership and conservation of mbufs, the refinement of `MbufLifecycle` | `PacketSendProofs` |
| `QueueProofs` | queues, the end of the process, stranded mbufs and counters of `PacketSend`; when an allocation cannot fail and `config` cannot be stale | `OwnershipProofs` |
| `RxProofs` | what the proofs of the two receivers share | `RxLoop`, `PortProofs` |
| `RecvProofs` | ownership and order of `PacketRecv` | `PacketRecv`, `RxProofs` |
| `VoteProofs` | types, ownership, counters, tables and overflow of `VoteRecv` | `VoteRecv`, `RxProofs` |
| `RingProofs` | `Ring` implements `RingFifo`; puts succeed, failed gets are right | `Ring`, `TLAPS` |
| `MCPacketSend`, `MCPacketRecv`, `MCVoteRecv`, `MCRing` | constants and symmetry for TLC | |

Operators commented `Mutant:` are plausible wrong versions of the definition
that follows them. No specification uses them; each is there to be put in place
of the right one, when TLC must find a property violated.

### Correspondence with the code

*Start.* `stage` is where the main thread is, one value per call. `Require` is a
check followed by `rte_exit`; `Call` is a call of `init_port` that succeeds or
makes it return at once. `Fail` leads to `launch`, not to `exit`: all three
programs print "port init error!" and go on.

*Pool.* Ring and caches are sets; which element an operation takes is left open,
so that the model covers every order of the objects. A get whose backfill fails
goes to the ring in a second step (`AllocGoesToRing`, then `AllocFromRing` or
`AllocFails`), since other lcores may use the ring in between. One access to the
ring is atomic; `Ring` is the reason why it may be.

*Ring.* `pc[t]` is where thread `t` is in `__rte_ring_do_enqueue_elem` (`p_...`) or
`__rte_ring_do_dequeue_elem` (`c_...`), and every read or write of a head or a tail is
an action: `ReadProdHead`, `ReadConsTail` (which computes `free_entries` and may fail),
`MoveProdHead` or `RetryProdHead` (the two outcomes of the compare-and-set),
`EnqueueElems` (the copy), `UpdateProdTail` (the end of the wait and the store); the
consumers' side is the same. Bulks have a fixed size, as the pool asks for. `held[t]`
stands for the cache: what is put comes from its end, what is got goes to its end,
and if an enqueue failed the pool would cut its cache all the same, as the code
does. The copy is one step: two copies of overlapping slots would show as a
violation of `ImplementsFifo` in some order. The x86 build takes
`rte_ring_generic_pvt.h`, whose barriers are no-ops there and whose loads and stores
are not reordered in a way the algorithm could see, so memory is sequentially
consistent.

The refinement maps the queue to the slots from `cons.head` to `prod.tail`: a get
takes effect at its compare-and-set, a put at its store of the tail. `Mempool`
forgets the order of the queue, and its atomic get and put are the `Get` and `Put` of
`RingFifo`; a get that fails in `Mempool` because the ring is short is
`FailedGetSawTooFew`, and that a put has no failure there is `PutAlwaysSucceeds`.

*Sender.* `pc[c]` is the position of lcore `c` in `packet_send_process`. Each
action is one loop body or one call: `ReadQueue`, the allocations, `TxBurst`,
`FreeUnsent` (one iteration of the free loop), `Count`. `queues` is read at the
lcore id; past the end of the vector, or after `main` has returned, the value is
undefined and `QueueRead` yields any number. A call on a queue that was never set
up, or on a queue that another lcore is using, is undefined: `TxBurstCrashes` ends
the behaviour there. `rte_eal_mp_remote_launch` runs the function on the main
lcore as well, so that `WaitLcores` needs `pc[MainLcore] = "failed"`; it waits in
ascending order, and as the function returns nothing but -1, the lowest lcore
decides. A failed lcore keeps its `bufs`: that is the leak of the early return.

*NIC and driver.* `TxBurst` may reclaim completed descriptors and must do so when
fewer than `TxFreeThresh` are free; it takes as many packets as descriptors are
free. A port that is not started takes nothing. A started port
may accept any frame, as soon as it is started and whether or not it is
promiscuous: which frames pass its address filter is left open, since broadcasts
and frames to its own address always do. `Poll` hands over only packets whose
descriptor it can refill.

*Receivers.* `mbufs` is the unhandled part of the burst and `r` the queue.
`packet_recv` takes one `my_pkt` from the heap for every packet and gives none
back; with the heap empty `operator new` throws. In `main`, `pkt` is the packet
after `ntohl` and `cell` C's remainder. The table `array` is never assigned, so a
value of 0 matches; a negative cell makes the read yield anything and the write
hit a cell of `array` (where it lies just before `vote`), other memory, or an
unmapped page. Words are two bytes wide instead of four, and `ARRAY_SIZE` is
the size of half a word, as 65536 is of an `int`; the arithmetic that the properties are
about (which half survives the remainder, which sign results) is the same.

The overflow of a vote (`+= 1` and `-= 1` on an `int`) is undefined in C++17. The
model has the outcomes that a build gives: an addition wraps; after a subtraction
at the smallest `int` the test `<= 0` sees the wrapped difference that was stored or
the exact one, which processor flags or a folded comparison give (`AfterMiss`).

Left out: the payload of the sender (two constants), log lines and the
`num_recv > BURST_SIZE` exit, which the driver's contract excludes.

## Runs

Sender (`MCPacketSend`):

| Run | Instance | Shows |
|---|---|---|
| `send_two` | 2 lcores, 6 mbufs, cache 2, burst 2, Tx ring 2, Rx ring 1, counters modulo 4 | ownership (`NoAlias`, `Conserved`), `OneQueuePerLcore`, `EndsOnlyAfterMainFailed`, `TotalMatchesNic` across partial bursts and the wrap, `FailedLcoreStrandsMbufs`, the refinement `ImplementsLifecycle` |
| `send_provisioned` | 2 lcores, 6 = `MbufsNeeded` mbufs, burst 1, Tx ring 1 | with `MbufsNeeded` mbufs no allocation fails, and `main` stays in its wait loop, so that no lcore reads a `config` that is gone (`ConfigOutlivesLcores`) |
| `send_live` | 3 lcores, the main one in the middle, 3 mbufs, burst 1, Tx ring 1 | `main` hangs after its own failure until the lowest lcore has failed too, and then the process ends, whatever the third lcore does; a refused burst is followed by an accepted one while the lcore lives |
| `send_sparse` | lcores 0 and 2 | violation: two lcores on one queue, or on none |
| `send_stopped` | 1 lcore | violation: a burst on a port that never started |
| `send_caches` | 2 lcores | violation: an allocation fails while another cache has mbufs |

Receivers (`MCPacketRecv`, `MCVoteRecv`):

| Run | Instance | Shows |
|---|---|---|
| `recv` | 5 mbufs, ring 3, burst 2, 6 frames, heap for 5 | ownership; every frame once and in order, wherever `init_port` failed; every frame is printed until the leak ends the process, and the leak does end it |
| `vote_count` | 2 queues, 6 mbufs, ring 2, burst 2, bytes of 4 values, frames of `packet_send` | ownership over two queues, every packet counted once; every packet of `packet_send` votes in cell 0, within bounds, and never makes it overflow |
| `vote_tables` | bytes of 4 values; indices that become 0 and 1 (in the tables), 5 (beyond them) and -7 (before them); cells that overflow | only a negative index touches memory outside the tables |
| `vote_queues` | 2 queues, arrivals without end | no queue starves |

Ring (`MCRing`), 2 threads, 3 objects in 4 slots, indices modulo 8, bulks of 1 and 2:

| Run | Shows |
|---|---|
| `ring` | the ring is an atomic queue (`ImplementsFifo`), a put never fails (`PutAlwaysSucceeds`), a get that fails was right (`FailedGetSawTooFew`), waits end (`InFlightCompletes`), a thread left alone finishes (`FinishesAlone`) |
| `ring_entries` | violation: `free_entries` beyond the capacity |

### Bounds

Two lcores give every pairwise interleaving in the pool; lcores meet nowhere
else. `send_live` has three, so that the main lcore can have one below it, which it
waits for, and one above, which it does not. `send_two` has fewer mbufs than the two lcores can use, so allocations fail
at every position of a burst, and a cache of 2 flushes at 3, so backfill,
fallback and flush all occur. A burst of 2 on a ring of 2 or 3 gives empty,
partial and full bursts. Mbufs outnumber descriptors in the receivers, so that a
freed mbuf comes back with a later frame while the NIC fills other descriptors. `CounterMod` stands
for 2^32 (2^64 in `main`); it is 1, which removes the counters, where the run is
not about them. `MaxFrames` and `HeapCells` bound the frames and the heap in
`PacketRecv`. `vote_queues` has no bound on arrivals.

In `ring` the pool exactly fills the ring, as 8191 mbufs fill a ring of 8192 slots,
so that one slot counted wrongly makes a put fail. `IndexMod` stands for 2^32; eight
is twice the size of the ring, and the indices wrap many times over. At so small a
width a thread that sleeps between reading a head and its compare-and-set could
find the head where it was after a full turn; `NoLap` forbids the others to lap it.
In the code that takes 2^32 objects in one sleep. Two threads overlap in every
pair of operations; a wait for an operation that is itself waiting takes three,
which are beyond what a run can hold. Slots are marked `Dead` when they are given up: the code leaves the old
pointer, which nobody reads, and the mark merges states that differ only there.

Mbufs are symmetric in all safety runs; no liveness run uses symmetry. Deadlock is
checked everywhere: a process that has ended stutters (`Stopped`), so that a
deadlock would be a thread that is stuck.

### Fairness

Each lcore is a thread pinned to a core and polls without blocking:
`WF(Worker(c))` for each, `WF(Main)`, and weak fairness of the NIC on what is
posted. In `Ring` an lcore that is inside an operation goes on with it
(`WF(Step(t))`: lcores are not preempted for ever, which `rte_mempool.h` asks of its
users), but need not start another. The receivers have one thread: `WF(Program)`. Arrivals are never fair:
nothing is assumed about other senders. No strong fairness is used.

## Results

Four comments or documents disagree with the code (`findings` in `PROJECT.json`):

* The README promises one queue per core. `config->queues` is indexed by lcore id
  and has one entry per lcore, so it holds for lcores 0 .. n-1 only.
* `rte_ethdev.h` forbids bursts on a stopped port. All programs go on after
  "port init error!", and the sender's lcores call `rte_eth_tx_burst`; the
  receivers call `rte_eth_rx_burst` in the same way (`PollEmpty` on a port that is not
  started).
* `rte_mempool.h` says of the fallback that "if that fails, we are truly out of
  buffers". Other caches may be full of them. The
  documentation of `rte_mempool_get` in the same file (lines 1522-1525) has it right.
* `rte_ring_generic_pvt.h` says that `free_entries` is always between 0 and the
  capacity. It is counted from a head that may be stale, and exceeds the capacity
  once `cons.tail` has passed that head. No harm follows (`ImplementsFifo` holds): the
  compare-and-set fails on a stale head.

`MbufsNeeded` with the constants of the code (rings of 1024, bursts of 64, cache
of 250) is 7084 for three lcores, within the pool of 8191; it is 9570 for the four
lcores of the README's example. With eight lcores the Rx rings alone, which
nobody reads, take more than the pool has.

A packet of `packet_send` sent to `main` always votes in cell 0, as only the
receiver converts the byte order; `packet_recv` converts neither and prints what
was sent. The sender's value 514 becomes 0x02020000, which no cell of `array` equals:
cell 0 is set to it, counts down to nothing and is set again, and never overflows.
Other senders can make a cell overflow by sending the value 0 often enough.

## Proofs

`TypeCorrect` (`PacketSendProofs`): `Spec => []TypeOK`, for every set of lcores and
mbufs and every size that satisfies the named assumptions (finite sets; one Rx
and one Tx queue per lcore; lcore ids below `MAX_CORES`; sizes positive). `TypeOK`
is not inductive. `IndType` adds
* `BurstShape`: at each `pc`, how long `bufs` is and where the index and `nb_tx`
  stand (this makes `bufs[c][i[c] + 1]` in the free loop exist);
* `TxRingBound`: a Tx queue never holds more than `TX_RING_SIZE` mbufs (this makes
  `nb_tx` a natural number);
* `PortShape`: how many queues are set up at each stage of the start (this bounds
  the two queue loops);
* `NotLaunched`: the lcores wait until `main` launches them.

`MbufsNeverAliased` and `MbufsConserved` (`OwnershipProofs`): `Spec => []NoAlias` and
`Spec => []Conserved`, from the same assumptions. The inductive invariant
`Ownership` says pointwise that common ring, caches, bursts, pending and completed
descriptors and Rx rings partition the mbufs (`Apart` and `Cover`), that no burst
holds an mbuf twice, and that the Rx rings are empty until the port starts. The
lemma `Exchange` carries the proof: a step that redistributes mbufs among the
ring, one lcore's cache and burst, one queue and the Rx rings keeps the partition.
The lemmas `FillHeld`, `SentHeld`, `FreeHeld`, `PutPool` and `PutBulkPool` say how each step
redistributes; `MainOwnership`, `AllocOwnership`, `BurstOwnership`, `FreeOwnership` and
`NicOwnership` put the two together, one per kind of action. The proof does not
assume that lcores have different queues: ownership survives even the undefined
queue ids of a sparse lcore list.

`LifecycleRefined` (`OwnershipProofs`): `Spec => ImplementsLifecycle`. Under `Ownership`
the place of an mbuf determines `Owner`, and each action is shown to change it as a
step of `MbufLifecycle` does, or not at all.

`QueuePerLcore`, `NoEarlyEnd`, `FailureStrandsMbufs` and `CountersMatchNic` (`QueueProofs`)
have one more hypothesis, `Contiguous`: the lcores are 0 .. n-1. It is what
`packet_send` needs of its command line, and not an assumption of the model:
`send_sparse` shows the promise broken without it.
* `QueueInv` = `IndType`, `OwnQueue` (while `main` has not returned, an lcore that has
  read its queue id has read its own id) and `EndsOnlyAfterMainFailed`. The two need
  each other: the queues are right because `config` is alive, and `main` does not
  return early because no lcore crashes on a wrong queue.
* `FailedLcoreStrandsMbufs` is an action property; it follows from `QueueInv`, since
  only an lcore whose queue it is reclaims what a Tx queue holds.
* `CounterInv` adds `InScope` (`nb_tx` is 0 outside the steps that use it) and, for each
  queue, `total_num + nb_tx = nic_tx + pending` modulo the counters' size; the lemmas
  `ModAdd`, `Residue` and `Quotient` carry the wrap, for every modulus.

`TotalMatchesNic` holds while `config` is alive only. An lcore that starts after `main`
has returned reads a queue id from a frame that is gone and may send on the queue
of another lcore, whose counter then misses packets.

`NoFailureWhenProvisioned` (`QueueProofs`): `Spec => []NoFailureIfProvisioned`, without
`Contiguous`. `Limits` bounds what a cache can hold (one less than the flush
threshold), what the Rx rings hold, and says that an lcore that has gone to the ring
has an empty cache; `Ownership` and `TxRingBound` give the rest. When an allocation
fails, ring and cache are empty and all mbufs are in the other caches, the bursts
and the rings; `UnionBound` adds these up to less than `MbufsNeeded`.

`ConfigNeverStale` (`QueueProofs`), with `Contiguous`: `Spec => []ConfigOutlivesLcores`. It
puts the two together: `main` returns only after its own lcore has failed
(`QueueInv`), which with enough mbufs none does, and no lcore is launched after that.

`RecvOwnership` and `PrintedInOrder` (`RecvProofs`), for every number of queues,
descriptors, mbufs, frames and heap cells. `RxInv` (`RxProofs`), which both receivers
share, is types, `RxOwnership`, the shape of the port at each stage, and that no
descriptor is posted before the start (`Unposted`). `RecvInv` adds `InOrder`, which is inductive only with `RxOwnership`: the NIC overwrites an mbuf, and no frame
is lost because that mbuf is in no burst and in no full descriptor.

`VoteTypes`, `VoteOwnership`, `EveryPacketIsCounted`, `SenderFillsOneCell`,
`SenderStaysInRange` and `OnlyNegativeIndexDamages` (`VoteProofs`), for every width of
a byte, every size of the counters and every set of frames. `VoteInv` adds `Unconverted`: a frame in the ring or
in the unhandled part of the burst is as it arrived, so that the conversion is
applied once. `SenderCell` computes the cell: the sender's small index lies in the low
half of the word, `ntohl` moves it to the high half, and the remainder by
`ARRAY_SIZE`, which is one half's size, leaves 0, whatever sign results. This holds for
words of two bytes of any even number of values; that the code's words have four
bytes is not in the model. `SenderStaysInRange` rests on `CellZeroBounded`, also part of
`VoteInv`: cell 0 lies between 0 and the converted value of some frame, so that
neither the test nor the subtraction is ever near an end of the range.

`RingTypeCorrect`, `RingIsAtomic`, `PutsSucceed` and `FailedGetsAreRight` (`RingProofs`), for
every number of threads, every size of the ring, every range of the indices that is
a multiple of the size and at least twice as large, and every pool that fits
(`RingAssumption`), from `Spec` without fairness. Like the model they rest on the bound
`NoLap`, and on it only where a compare-and-set succeeds.
* `RingInv` says that there are positions `g` with `Good(g)`, and `Once`. A position is
  what an index would be if it did not wrap: the number of slots passed since the
  ring was made. The model needs no history variable for them; they are given by
  the quantifier, and each step is shown to have its next positions.
* `Good(g)`: the indices are the positions modulo `IndexMod` (`Linked`); `cons.tail` <=
  `cons.head` <= `prod.tail` <= `prod.head` <= `cons.tail` + capacity (`Ordered`); a head that
  was read and has become stale is less than a lap behind (`Read`), and what was checked
  from it still fits (`Fits`); the operations in flight on each side share out the
  positions between its tail and its head (`Flight`); the slots from `cons.head` to
  `prod.tail` hold objects, as do those of a dequeue that has not copied, and those of
  an enqueue that has copied hold its bulk (`Stored`, `Copied`).
* Positions less than a lap apart have different slots (`SlotsDiffer`), so that a copy
  touches no slot of anybody else (`OthersSlots`).
* `Once`: no object is twice in queue and hands. It makes `PutFindsRoom` work: every
  position from `cons.tail` to `prod.head`, and every object of the bulk to be put, has
  an object of its own, in the queue or in a hand, and there are no more objects than
  slots. `RoomIsSeen` carries this over to the free entries that an enqueue computes
  from a stale head.
* `EveryStep`: an enqueue takes effect when it moves the tail (`PutTakesEffect`), a
  dequeue when it moves the head (`GetTakesEffect`), and every other step changes
  neither queue nor hands (`NothingMoves`).

Only model-checked:
* all liveness properties (`PROPERTY`s that need fairness), outside the prover's reach;
* the runs that show a violation.

## Not modelled

The programs' own code is some 870 lines, and all of it that changes state is
modelled. The rest of the repository is a copy of the headers of DPDK 21.11, more
than a hundred thousand lines for devices, crypto, flows, events and the like. Of
these the programs reach the mempool, the ring under it and the burst functions of
`rte_ethdev.h`; only these are modelled, and a model of the others would say nothing
about the programs. In detail:

* of `rte_ring`: the modes for one producer or consumer, RTS, HTS and peek, the
  variants that take what they can get, the C11 form (the x86 build does not use
  it), creation and dump;
* of `rte_mempool`: creation, population, debug cookies, statistics, bulk gets of
  users; of `rte_mbuf`: reference counts and chains, as every mbuf here has one
  reference and one segment;
* the drivers and the NIC, whose code is not in the repository: modelled by what
  the headers promise;
* clocks, `show_ip` and what is printed, the uninitialised operands of a printed
  difference included; the constant payload of the sender, without which a link
  between sender and receiver would show nothing new;
* lcore ids of `MAX_CORES` and above, excluded by an assumption; build files.

## Plan

Done: start, pool, ring, sender, both receivers; theorems for every safety property
that a run checks and finds to hold.

Left: the liveness properties, which stay with TLC. The model of the pool takes an
access to the common ring as one step, which `RingIsAtomic` justifies; a
composition of `Mempool` with `Ring` would replace that argument by a refinement, at
the price of a state space that TLC cannot cover with the programs' caches.
