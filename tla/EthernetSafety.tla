--------------------------- MODULE EthernetSafety ---------------------------
(* What the Ethernet driver must keep between the EMAC and the stack.      *)
EXTENDS Ethernet

(* Every index, reference and place is in its range.                       *)
TypeOK ==
  /\ ref \in [Bufs -> Nat] /\ next \in [Bufs -> Bufs \union {None}]
  /\ eth_tx_pbufs \in [TxIdx -> Bufs \union {None}]
  /\ TxProduceIndex \in TxIdx /\ TxConsumeIndex \in TxIdx
  /\ eth_tx_free_consume \in TxIdx
  /\ eth_rx_pbufs \in [RxIdx -> Bufs]
  /\ RxProduceIndex \in RxIdx /\ RxConsumeIndex \in RxIdx
  /\ eth_rx_read_index \in RxIdx
  /\ pc \in {"poll_1", "cleanup", "rx", "packet", "polls", "wait", "fragment",
            "poll_2"}
  /\ cur \in Bufs \union {None} /\ head \in Bufs \union {None}
  /\ frag \in Bufs \union {None}
  /\ produce \in IF pc \in {"cleanup", "fragment"} THEN TxIdx
                 ELSE IF pc = "poll_2" THEN RxIdx ELSE {0}
  /\ tcp \subseteq Ram /\ data \in [Pool -> Nat \union {None}]
  /\ arrived \in Nat /\ handled \in Nat

(* Slots the EMAC has yet to send, and those it may receive into or has    *)
(* received into and nobody has read.                                      *)
ToSend  == {i \in TxIdx : TxDist(TxConsumeIndex, i)
                            < TxDist(TxConsumeIndex, TxProduceIndex)}
ToRead  == {i \in RxIdx : RxDist(eth_rx_read_index, i)
                            < RxDist(eth_rx_read_index, RxConsumeIndex)}
             \union (IF eth_rx_read_index = RxConsumeIndex THEN RxIdx ELSE {})

(* What the EMAC has yet to send is a live buffer, the ring holds a     *)
(* reference for it: eth_tx_cleanup frees nothing before it is sent, and a *)
(* descriptor is published only after it is written.                       *)
SendsLiveBuffers ==
  \A i \in ToSend : /\ i \in Held
                    /\ eth_tx_pbufs[i] # None /\ ref[eth_tx_pbufs[i]] > 0

(* A slot of the receive ring has a buffer of its own, which no other slot,*)
(* no packet in the stack's hands and no transmission shares: the EMAC     *)
(* writes only where nobody reads.                                         *)
ReceivesAlone ==
  /\ \A i \in ToRead : /\ ref[eth_rx_pbufs[i]] = 1
                       /\ eth_rx_pbufs[i] # cur /\ eth_rx_pbufs[i] # head
                       /\ eth_rx_pbufs[i] \notin Queued
  /\ \A i, j \in ToRead : eth_rx_pbufs[i] = eth_rx_pbufs[j] => i = j

(* Who holds references to a buffer: slots of the transmit ring and those  *)
(* being written, the receive ring, the caller, TCP, the rest of a chain.  *)
Writing == IF pc = "fragment" THEN Chain(head) \ Chain(frag) ELSE {}
Holders(b) ==
  Cardinality({i \in Held : eth_tx_pbufs[i] = b})
  + Cardinality({i \in ToRead : eth_rx_pbufs[i] = b})
  + Cardinality({i \in {0} : pc = "poll_2"
                   /\ \E j \in RxIdx : /\ RxDist(RxConsumeIndex, j)
                                            < RxDist(RxConsumeIndex, produce)
                                       /\ eth_rx_pbufs[j] = b})
  + Cardinality({i \in {0} : b \in Writing})
  + Cardinality({i \in {0} : b = cur \/ (b = head /\ head \notin tcp)})
  + Cardinality({i \in {0} : b \in tcp})
  + Cardinality({c \in Bufs : ref[c] > 0 /\ next[c] = b})

(* Every reference is somebody's, and somebody will give it back: nothing  *)
(* leaks and nothing is freed twice, over linkoutput, pbuf_free,           *)
(* eth_tx_cleanup and eth_poll_2.                                          *)
EveryReferenceHeld == \A b \in Bufs : ref[b] = Holders(b)

(* Packets are handed to the stack in the order they arrived, none left    *)
(* out, with the contents they arrived with.                               *)
HandedOverInOrder == pc = "packet" => data[cur] = handled

(* An EMAC that has no descriptor left to receive into gets one: neither   *)
(* an empty pool nor a full ring stops reception for ever.                 *)
ReceptionResumes == RxStarved ~> ~RxStarved

-----------------------------------------------------------------------------
(* Why the safety properties hold.                                         *)

(* The order of the indices around both rings.                             *)
RingsInv ==
  /\ TxDist(eth_tx_free_consume, TxConsumeIndex)
       <= TxDist(eth_tx_free_consume, TxProduceIndex)
  /\ pc = "cleanup" => TxDist(eth_tx_free_consume, produce)
                         <= TxDist(eth_tx_free_consume, TxConsumeIndex)
  /\ RxDist(RxConsumeIndex, eth_rx_read_index)
       <= RxDist(RxConsumeIndex, RxProduceIndex)
  /\ pc = "poll_2" => RxDist(RxConsumeIndex, produce)
                        <= RxDist(RxConsumeIndex, eth_rx_read_index)

(* Chains have two buffers at most.  Stale links of free buffers lead up,  *)
(* those of buffers in use begin where TCP keeps them.                     *)
ChainInv ==
  /\ \A b \in Bufs : next[b] # None =>
       b \in Ram /\ next[b] \in Ram /\ b < next[b] /\ next[next[b]] = None
  /\ \A b \in Bufs : ref[b] > 0 /\ next[b] # None => b \in tcp
  /\ \A p \in tcp : next[p] \notin tcp
  /\ \A p, q \in tcp : next[p] # None /\ next[p] = next[q] => p = q

(* The slots of the receive ring that have a buffer of their own.          *)
Owned == {i \in RxIdx : \/ RxDist(RxConsumeIndex, i)
                              >= RxDist(RxConsumeIndex, eth_rx_read_index)
                        \/ /\ pc = "poll_2"
                           /\ RxDist(RxConsumeIndex, i)
                                < RxDist(RxConsumeIndex, produce)}

(* No buffer has two slots of one ring.                                    *)
SlotsInv ==
  /\ \A i \in Held : eth_tx_pbufs[i] \in Bufs
  /\ \A i, j \in Held : eth_tx_pbufs[i] = eth_tx_pbufs[j] => i = j
  /\ \A i \in Owned : eth_rx_pbufs[i] \in Pool
  /\ \A i, j \in Owned : eth_rx_pbufs[i] = eth_rx_pbufs[j] => i = j

(* What is being transmitted, and how far.                                 *)
CallInv ==
  IF pc \in {"wait", "fragment"}
  THEN /\ head \in Bufs /\ head \notin Queued /\ next[head] \notin Queued
       /\ head \notin tcp => /\ next[head] = None
                            /\ Cardinality(OthersQueued) < Others
       /\ LET k == IF pc = "wait" THEN 0 ELSE TxDist(TxProduceIndex, produce)
          IN \/ k = 0 /\ frag = head
             \/ /\ k = 1 /\ frag = next[head]
                /\ eth_tx_pbufs[TxProduceIndex] = head
             \/ /\ k = 2 /\ frag = None /\ next[head] # None
                /\ eth_tx_pbufs[TxProduceIndex] = head
                /\ eth_tx_pbufs[NextTx(TxProduceIndex)] = next[head]
  ELSE head = None /\ frag = None

(* The room test need not know what was not freed: TCP_SND_QUEUELEN and    *)
(* what other protocols send fit the ring.                                 *)
RoomInv ==
  /\ Cardinality(TcpBufs) <= TCP_SND_QUEUELEN
  /\ Cardinality(OthersQueued) <= Others

(* Each reference of a buffer, counted once.                               *)
Received   == {eth_rx_pbufs[i] : i \in Owned}
Caller     == {cur, head} \ tcp
One(holds) == IF holds THEN 1 ELSE 0

RefInv ==
  /\ \A b \in Bufs : ref[b] = One(b \in Queued) + One(b \in Received)
                           + One(b \in Writing) + One(b \in Caller)
                           + One(b \in TcpBufs)
  /\ \A b \in Received : ref[b] = 1
  /\ IF pc = "packet" THEN cur \in Pool /\ ref[cur] = 1 ELSE cur = None

(* Packets received and not handed over are numbered from `handled' on.    *)
OrderInv ==
  LET after(k) == (handled + k) % CountMod
      first    == One(pc = "packet")
  IN /\ handled \in 0 .. CountMod - 1
     /\ pc = "packet" => data[cur] = handled
     /\ arrived = after(first + RxDist(eth_rx_read_index, RxProduceIndex))
     /\ \A i \in RxIdx :
          RxDist(eth_rx_read_index, i) < RxDist(eth_rx_read_index, RxProduceIndex)
            => data[eth_rx_pbufs[i]] = after(first + RxDist(eth_rx_read_index, i))
=============================================================================
