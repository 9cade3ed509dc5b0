------------------------------ MODULE Ethernet ------------------------------
(***************************************************************************)
(* The Ethernet driver, firmware/lib/ether.c, between two parties: the     *)
(* EMAC, which sends from one ring of descriptors and receives into        *)
(* another, and the IP stack, which counts references to packet buffers    *)
(* (pbufs) taken from the pools of lib/skub.c.  No interrupt is used: the  *)
(* main loop polls, and the EMAC may act between any two of its stores.    *)
(*                                                                         *)
(* A buffer is a number; the first PBUF_POOL of them are the pool received *)
(* packets come from, the others hold what is transmitted.  Buffers may be *)
(* chained (next).  The contents of a received packet are its number, and  *)
(* forgotten once it is handled.  A descriptor and the driver's record of  *)
(* its buffer are always stored together and are one slot here.            *)
(*                                                                         *)
(* The stack is modelled by what it does with buffers: drop a packet, send *)
(* it back (ARP, ICMP echo), queue data on a TCP connection and keep it    *)
(* until it is acknowledged, retransmit it, send a datagram.               *)
(***************************************************************************)
EXTENDS Integers, FiniteSets, FiniteSetsExt

CONSTANTS
  NUM_TX_DESC,       (* Transmit descriptors.                                *)
  NUM_RX_BUF,        (* Receive descriptors.                                 *)
  PBUF_POOL,         (* Slots of the pool of receive buffers.                *)
  RAM_BUFS,          (* Buffers for what is transmitted.                     *)
  WORD,              (* Bits of a word of a pool's bitmap.                   *)
  TCP_SND_QUEUELEN,  (* Buffers a connection may have queued.                *)
  Others,            (* Bound: buffers of other protocols queued at a time.  *)
  CountMod           (* Packets are numbered modulo this.                    *)

ASSUME EthernetAssumption ==
  /\ NUM_TX_DESC \in Nat /\ NUM_RX_BUF \in Nat \ {0, 1}
  /\ PBUF_POOL \in Nat /\ PBUF_POOL >= NUM_RX_BUF /\ RAM_BUFS \in Nat
  /\ WORD \in Nat \ {0} /\ PBUF_POOL % WORD # 0
  /\ TCP_SND_QUEUELEN \in Nat /\ NUM_TX_DESC = TCP_SND_QUEUELEN + 2
  /\ Others \in Nat /\ CountMod \in Nat /\ CountMod >= NUM_RX_BUF

VARIABLES
  ref, next,           \* of each buffer: references, the next of its chain
  eth_tx_pbufs, TxProduceIndex, TxConsumeIndex, eth_tx_free_consume,
  eth_rx_pbufs, RxProduceIndex, RxConsumeIndex, eth_rx_read_index,
  pc,                  \* the place of the main loop
  cur,                 \* the packet being handled
  head, frag, produce, \* what is transmitted, its next fragment; a local index
  tcp,                 \* heads of the chains TCP keeps until acknowledged
  data, arrived, handled   \* numbers: in buffers, received, handed over

bufVars == <<ref, next>>
txVars  == <<eth_tx_pbufs, TxProduceIndex, eth_tx_free_consume>>
rxVars  == <<eth_rx_pbufs, RxConsumeIndex, eth_rx_read_index>>
emacVars == <<TxConsumeIndex, RxProduceIndex, data, arrived>>
callVars == <<head, frag, produce>>
vars == <<bufVars, txVars, rxVars, emacVars, callVars, pc, cur, tcp, handled>>

None  == -1
Pool  == 0 .. PBUF_POOL - 1
Ram   == PBUF_POOL .. PBUF_POOL + RAM_BUFS - 1
Bufs  == Pool \union Ram
TxIdx == 0 .. NUM_TX_DESC - 1
RxIdx == 0 .. NUM_RX_BUF - 1
NextTx(i) == (i + 1) % NUM_TX_DESC
NextRx(i) == (i + 1) % NUM_RX_BUF
TxDist(a, b) == (b - a + NUM_TX_DESC) % NUM_TX_DESC
RxDist(a, b) == (b - a + NUM_RX_BUF) % NUM_RX_BUF

-----------------------------------------------------------------------------
(* Pools and reference counts.                                             *)

(* skub_init_pool(): every word but the last is full of ones, the last has *)
(* (1 << (max % WORD)) - 1.  A slot whose bit is never set is lost.        *)
SlotsOf(max) ==
  {i \in 0 .. max - 1 : i \div WORD < (max + WORD - 1) \div WORD - 1
                        \/ i % WORD < max % WORD}

(* skub_alloc(): the lowest bit that is set, word by word.  A received    *)
(* packet's buffer comes from Pool, one for transmission from Ram.         *)
FreeBufs(pool, r) == {b \in pool : r[b] = 0}
skub_alloc(pool, r) == Min(FreeBufs(pool, r))

(* pbuf_free(): give back one reference; a buffer without any is given     *)
(* back and takes with it the reference it had on the rest of its chain.   *)

(* Plausible bug: the rest of a chain is freed whoever still uses it.      *)
pbuf_free_chain(r, p) ==
  LET gone[b \in Bufs \union {None}] ==
        IF b = None THEN {} ELSE {b} \union gone[next[b]]
  IN [b \in Bufs |-> IF b \in gone[p] THEN r[b] - 1 ELSE r[b]]

pbuf_free(r, p) ==
  LET released[b \in Bufs \union {None}] ==
        IF b = None THEN {}
        ELSE {b} \union IF r[b] = 1 THEN released[next[b]] ELSE {}
  IN [b \in Bufs |-> IF b \in released[p] THEN r[b] - 1 ELSE r[b]]

(* The buffers of the chain that begins at p.                              *)
Chain(p) ==
  LET from[b \in Bufs \union {None}] ==
        IF b = None THEN {} ELSE {b} \union from[next[b]]
  IN from[p]

(* The slots of the transmit ring the driver still holds a reference for.  *)
Held == {i \in TxIdx : TxDist(eth_tx_free_consume, i)
                         < TxDist(eth_tx_free_consume, TxProduceIndex)}
TcpBufs == UNION {Chain(p) : p \in tcp}
Queued  == {eth_tx_pbufs[i] : i \in Held}

(* eth_init_descriptors().                                                 *)
Init ==
  /\ SlotsOf(PBUF_POOL) = Pool
  /\ ref = [b \in Bufs |-> IF b \in RxIdx THEN 1 ELSE 0]
  /\ next = [b \in Bufs |-> None]
  /\ eth_tx_pbufs = [i \in TxIdx |-> None]
  /\ TxProduceIndex = 0 /\ TxConsumeIndex = 0 /\ eth_tx_free_consume = 0
  /\ eth_rx_pbufs = [i \in RxIdx |-> i]
  /\ RxProduceIndex = 0 /\ RxConsumeIndex = 0 /\ eth_rx_read_index = 0
  /\ pc = "poll_1" /\ cur = None /\ head = None /\ frag = None /\ produce = 0
  /\ tcp = {} /\ data = [b \in Pool |-> None] /\ arrived = 0 /\ handled = 0

-----------------------------------------------------------------------------
(* The EMAC.  It sends what is between its index and the producer's, and   *)
(* receives as long as the next descriptor is not the consumer's.          *)
TxDone ==
  /\ TxConsumeIndex # TxProduceIndex
  /\ TxConsumeIndex' = NextTx(TxConsumeIndex)
  /\ UNCHANGED <<bufVars, txVars, rxVars, RxProduceIndex, data, arrived,
                 callVars, pc, cur, tcp, handled>>

RxStarved == NextRx(RxProduceIndex) = RxConsumeIndex

RxDone ==
  /\ ~RxStarved
  /\ data' = [data EXCEPT ![eth_rx_pbufs[RxProduceIndex]] = arrived]
  /\ RxProduceIndex' = NextRx(RxProduceIndex)
  /\ arrived' = (arrived + 1) % CountMod
  /\ UNCHANGED <<bufVars, txVars, rxVars, TxConsumeIndex, callVars, pc, cur,
                 tcp, handled>>

-----------------------------------------------------------------------------
(* eth_poll_1(): give back what was sent, then take one packet.            *)

(* eth_tx_cleanup() reads TxConsumeIndex once.                             *)

(* Plausible bug: everything queued is given back, sent or not.            *)
CleanupBegin_queued ==
  /\ pc = "poll_1" /\ pc' = "cleanup" /\ produce' = TxProduceIndex
  /\ UNCHANGED <<bufVars, txVars, rxVars, emacVars, head, frag, cur, tcp, handled>>

CleanupBegin ==
  /\ pc = "poll_1" /\ pc' = "cleanup" /\ produce' = TxConsumeIndex
  /\ UNCHANGED <<bufVars, txVars, rxVars, emacVars, head, frag, cur, tcp, handled>>

(* The index is stored after the last one, but nobody reads it before.     *)
Reclaim ==
  /\ pc = "cleanup" /\ eth_tx_free_consume # produce
  /\ ref' = pbuf_free(ref, eth_tx_pbufs[eth_tx_free_consume])
  /\ eth_tx_pbufs' = [eth_tx_pbufs EXCEPT ![eth_tx_free_consume] = None]
  /\ eth_tx_free_consume' = NextTx(eth_tx_free_consume)
  /\ UNCHANGED <<next, TxProduceIndex, rxVars, emacVars, callVars, pc, cur, tcp,
                 handled>>

CleanupDone ==
  /\ pc = "cleanup" /\ eth_tx_free_consume = produce
  /\ pc' = "rx" /\ produce' = 0
  /\ UNCHANGED <<bufVars, txVars, rxVars, emacVars, head, frag, cur, tcp, handled>>

NothingReceived ==
  /\ pc = "rx" /\ RxProduceIndex = eth_rx_read_index /\ pc' = "polls"
  /\ UNCHANGED <<bufVars, txVars, rxVars, emacVars, callVars, cur, tcp, handled>>

Receive ==
  /\ pc = "rx" /\ RxProduceIndex # eth_rx_read_index /\ pc' = "packet"
  /\ cur' = eth_rx_pbufs[eth_rx_read_index]
  /\ eth_rx_read_index' = NextRx(eth_rx_read_index)
  /\ UNCHANGED <<bufVars, txVars, eth_rx_pbufs, RxConsumeIndex,
                 emacVars, callVars, tcp, handled>>

(* eth_poll_2(): a new buffer for every slot that was read, as long as the *)
(* pool has any; the rest is left for the next turn of the loop.           *)

(* Plausible bug: the slots are given to the EMAC even if the pool is      *)
(* empty, with the buffers they had.                                       *)
PollTwoDone_all ==
  /\ pc = "poll_2"
  /\ RxConsumeIndex' = eth_rx_read_index
  /\ \/ produce = eth_rx_read_index
     \/ FreeBufs(Pool, ref) = {}
  /\ pc' = "poll_1" /\ produce' = 0
  /\ UNCHANGED <<bufVars, txVars, eth_rx_pbufs, eth_rx_read_index, emacVars,
                 head, frag, cur, tcp, handled>>

(* Plausible bug: a refill that failed loses its place in the ring.        *)
PollTwoDone_once ==
  /\ pc = "poll_2"
  /\ \/ produce = eth_rx_read_index
     \/ FreeBufs(Pool, ref) = {}
  /\ RxConsumeIndex' = produce /\ pc' = "poll_1" /\ produce' = 0
  /\ eth_rx_read_index' = produce
  /\ UNCHANGED <<bufVars, txVars, eth_rx_pbufs, emacVars, head, frag, cur, tcp,
                 handled>>

(* Plausible bug: an empty pool ends the function, not the loop only.      *)
PollTwoDone_returns ==
  /\ pc = "poll_2"
  /\ \/ produce = eth_rx_read_index /\ RxConsumeIndex' = produce
     \/ FreeBufs(Pool, ref) = {} /\ UNCHANGED RxConsumeIndex
  /\ pc' = "poll_1" /\ produce' = 0
  /\ UNCHANGED <<bufVars, txVars, eth_rx_pbufs, eth_rx_read_index, emacVars,
                 head, frag, cur, tcp, handled>>

PollTwoDone ==
  /\ pc = "poll_2"
  /\ \/ produce = eth_rx_read_index
     \/ FreeBufs(Pool, ref) = {}
  /\ RxConsumeIndex' = produce /\ pc' = "poll_1" /\ produce' = 0
  /\ UNCHANGED <<bufVars, txVars, eth_rx_pbufs, eth_rx_read_index, emacVars,
                 head, frag, cur, tcp, handled>>

PollTwo ==
  /\ pc = "polls" /\ pc' = "poll_2" /\ produce' = RxConsumeIndex
  /\ UNCHANGED <<bufVars, txVars, rxVars, emacVars, head, frag, cur, tcp,
                 handled>>

Refill ==
  /\ pc = "poll_2" /\ produce # eth_rx_read_index /\ FreeBufs(Pool, ref) # {}
  /\ LET p == skub_alloc(Pool, ref)
     IN /\ ref' = [ref EXCEPT ![p] = 1] /\ next' = [next EXCEPT ![p] = None]
        /\ eth_rx_pbufs' = [eth_rx_pbufs EXCEPT ![produce] = p]
  /\ produce' = NextRx(produce)
  /\ UNCHANGED <<txVars, RxConsumeIndex, eth_rx_read_index, emacVars, head,
                 frag, pc, cur, tcp, handled>>

-----------------------------------------------------------------------------
(* eth_transmit_FPV_netif_linkoutput(): wait for room, write a descriptor  *)
(* per fragment, then publish all of them at once.  Chains are never       *)
(* longer than the ring, so the refusal of those is left out.              *)
Length(p) == Cardinality(Chain(p))

eth_capacity ==
  LET room == TxConsumeIndex - TxProduceIndex - 1
  IN IF room < 0 THEN room + NUM_TX_DESC ELSE room

Call(p, r) == /\ ref' = r /\ head' = p /\ frag' = p /\ pc' = "wait"

WaitForRoom ==
  /\ pc = "wait" /\ eth_capacity >= Length(head)
  /\ produce' = TxProduceIndex /\ pc' = "fragment"
  /\ UNCHANGED <<bufVars, txVars, rxVars, emacVars, head, frag, cur, tcp,
                 handled>>

Fragment ==
  /\ pc = "fragment" /\ frag # None
  /\ eth_tx_pbufs' = [eth_tx_pbufs EXCEPT ![produce] = frag]
  /\ ref' = [ref EXCEPT ![frag] = @ + 1]
  /\ frag' = next[frag] /\ produce' = NextTx(produce)
  /\ UNCHANGED <<next, TxProduceIndex, eth_tx_free_consume, rxVars, emacVars,
                 head, pc, cur, tcp, handled>>

(* The caller frees what it does not keep.                                 *)
Publish ==
  /\ pc = "fragment" /\ frag = None
  /\ TxProduceIndex' = produce /\ pc' = "polls"
  /\ ref' = IF head \in tcp THEN ref ELSE pbuf_free(ref, head)
  /\ head' = None /\ produce' = 0
  /\ UNCHANGED <<next, eth_tx_pbufs, eth_tx_free_consume, rxVars,
                 emacVars, frag, cur, tcp, handled>>

-----------------------------------------------------------------------------
(* The stack.  handle_packet() and the handlers behind it free the packet  *)
(* or send it back; what TCP acknowledges is freed before the next poll.   *)
Done(r) == /\ ref' = r /\ pc' = "polls" /\ UNCHANGED <<head, frag>>

OthersQueued == {i \in Held : eth_tx_pbufs[i] \notin TcpBufs}
NotTcp(n) == Cardinality(OthersQueued) + n <= Others

HandlePacket ==
  /\ pc = "packet" /\ cur' = None
  /\ handled' = (handled + 1) % CountMod
  /\ \/ /\ Done(pbuf_free(ref, cur)) /\ UNCHANGED tcp
     \/ /\ NotTcp(1) /\ Call(cur, ref) /\ UNCHANGED tcp
     \/ \E p \in tcp :
          /\ Chain(p) \cap Queued = {}
          /\ Done(pbuf_free(pbuf_free(ref, p), cur)) /\ tcp' = tcp \ {p}
  /\ data' = [data EXCEPT ![cur] = None]
  /\ UNCHANGED <<next, txVars, rxVars, TxConsumeIndex, RxProduceIndex, arrived,
                 produce>>

(* A chain of n fresh buffers, if there are so many.                       *)
NewChain(n, keep) ==
  /\ Cardinality(FreeBufs(Ram, ref)) >= n
  /\ LET p == skub_alloc(Ram, ref)
         q == skub_alloc(Ram \ {p}, ref)
     IN IF n = 1
        THEN /\ Call(p, [ref EXCEPT ![p] = 1]) /\ next' = [next EXCEPT ![p] = None]
             /\ tcp' = tcp \union (IF keep THEN {p} ELSE {})
        ELSE /\ Call(p, [ref EXCEPT ![p] = 1, ![q] = 1])
             /\ next' = [next EXCEPT ![p] = q, ![q] = None]
             /\ tcp' = tcp \union (IF keep THEN {p} ELSE {})

TcpWrite ==
  /\ pc = "polls"
  /\ \E n \in 1 .. 2 : /\ Cardinality(TcpBufs) + n <= TCP_SND_QUEUELEN
                       /\ NewChain(n, TRUE)
  /\ UNCHANGED <<txVars, rxVars, emacVars, produce, cur, handled>>

TcpRetransmit ==
  /\ pc = "polls"
  /\ \E p \in tcp : Chain(p) \cap Queued = {} /\ Call(p, ref)
  /\ UNCHANGED <<next, txVars, rxVars, emacVars, produce, cur, tcp, handled>>

Datagram ==
  /\ pc = "polls" /\ NotTcp(1) /\ NewChain(1, FALSE)
  /\ UNCHANGED <<txVars, rxVars, emacVars, produce, cur, handled>>

-----------------------------------------------------------------------------
Emac     == TxDone \/ RxDone
Transmit == WaitForRoom \/ Fragment \/ Publish
Poll     == \/ CleanupBegin \/ Reclaim \/ CleanupDone
            \/ NothingReceived \/ Receive \/ HandlePacket
            \/ PollTwo \/ Refill \/ PollTwoDone
Stack    == TcpWrite \/ TcpRetransmit \/ Datagram

Next == Emac \/ Transmit \/ Poll \/ Stack
Spec == Init /\ [][Next]_vars

(* The loop goes on polling, and the EMAC sends.  Nothing need arrive, and *)
(* the stack need not send anything.                                       *)
FairSpec == Spec /\ WF_vars(Transmit) /\ SF_vars(Poll) /\ WF_vars(TxDone)
=============================================================================
