--------------------------------- MODULE Net ---------------------------------
(***************************************************************************)
(* The virtio network driver, src/src/net.c: a receive and a transmit      *)
(* queue shared with the device, buffers from the frame allocator, and the *)
(* handler of IRQ 48, which interrupts the code of core 0 and is the only  *)
(* caller of the driver once net_init is done.  The device runs            *)
(* concurrently with all of it.                                            *)
(*                                                                         *)
(* Packets are reduced to what the driver does about them.  Frames are     *)
(* numbered; a ring of several frames is named by its first one.  The      *)
(* messages the handler prints are in Console.                             *)
(***************************************************************************)
EXTENDS Naturals, Sequences, FiniteSets

CONSTANTS
  QSize,         \* qsize, 1024 with QEMU
  IdxMod,        \* number of values of a ring index (2^16 in the code)
  RamSizes,      \* how many frames may be free when net_init is called
  DescFrames, AvailFrames, UsedFrames,   \* 4, 1 and 3 in the code
  Reactions,     \* what packets that arrive make the driver do
  NULL

\* The index arithmetic needs a power of two, of which this is what matters.
ASSUME NetAssumption ==
  /\ QSize \in Nat \ {0} /\ IdxMod \in Nat /\ IdxMod > QSize /\ IdxMod % QSize = 0
  /\ {DescFrames, AvailFrames, UsedFrames} \subseteq Nat \ {0}
  /\ \A n \in RamSizes : n \in Nat /\ n >= 2 * (DescFrames + AvailFrames + UsedFrames) + QSize
  /\ Reactions \subseteq {"ignore", "reply"}
  /\ NULL \notin Nat /\ NULL \notin [desc : Nat, avail : Nat, used : Nat]

VARIABLES
  pmm,           \* the frame allocator: its stack, top last, and total_frames
  rings,         \* per queue, first frames of its three rings; NULL before set-up
  q,             \* per queue: desc addresses, avail, used, last_used_idx
  dev,           \* per queue: the device's position in avail, and what it works on
  tx_desc_idx,
  isr,           \* interrupt status: a used ring has changed
  cpu,           \* what core 0 does, the packet's descriptor and the frame in hand
  overrun        \* history: net_send has sent a reply while QSize were out

vars == <<pmm, rings, q, dev, tx_desc_idx, isr, cpu, overrun>>
------------------------------------------------------------------------------
Queue == {"rx", "tx"}
Frame == 0 .. pmm.total_frames - 1
Desc == 0 .. QSize - 1
Idx == 0 .. IdxMod - 1

MutInc(idx) == idx + 1

Inc(idx) == (idx + 1) % IdxMod
Slot(idx) == idx % QSize

\* The indices from a up to but not including b.
Between(a, b) == {i \in Idx : (i + IdxMod - a) % IdxMod < (b + IdxMod - a) % IdxMod}

\* The replies that net_cleanup_tx has not reached.
Out == Between(q.tx.last_used_idx, q.tx.avail_idx)

\* pmm.c for a frame that is not shared.
free == pmm.stack
Top == free[Len(free)]
Pop(n) == pmm' = [pmm EXCEPT !.stack = SubSeq(@, 1, Len(@) - n)]
pmm_free_frame(f) ==
  pmm' = [pmm EXCEPT !.stack = IF Len(@) < pmm.total_frames THEN Append(@, f) ELSE @]

At(label) == cpu.at = label
Go(label) == cpu' = [cpu EXCEPT !.at = label]
Ready == cpu.at \notin {"init rx", "init tx", "fill"}

EmptyQueue ==
  [desc |-> [d \in Desc |-> NULL], avail |-> [s \in Desc |-> 0], avail_idx |-> 0,
   used |-> [s \in Desc |-> 0], used_idx |-> 0, last_used_idx |-> 0]

\* Frames come off the stack in descending order, as pmm_init has pushed them.
Init ==
  /\ \E n \in RamSizes : pmm = [stack |-> [k \in 1 .. n |-> k - 1], total_frames |-> n]
  /\ rings = [w \in Queue |-> NULL]
  /\ q = [w \in Queue |-> EmptyQueue]
  /\ dev = [w \in Queue |-> [next |-> 0, busy |-> <<>>]]
  /\ tx_desc_idx = 0
  /\ isr = FALSE
  /\ cpu = [at |-> "init rx", id |-> 0, frame |-> NULL]
  /\ overrun = FALSE
------------------------------------------------------------------------------
MutInitQueue(w) ==
  LET top == Len(free)
  IN  /\ At(IF w = "rx" THEN "init rx" ELSE "init tx")
      /\ rings' = [rings EXCEPT ![w] =
                     [desc  |-> free[top],
                      avail |-> free[top - DescFrames],
                      used  |-> free[top - DescFrames - AvailFrames]]]
      /\ Pop(DescFrames + AvailFrames + UsedFrames)
      /\ Go(IF w = "rx" THEN "init tx" ELSE "fill")
      /\ UNCHANGED <<q, dev, tx_desc_idx, isr, overrun>>

\* The address of a ring is that of the last of the frames allocated for it.
virtio_init_queue(w) ==
  LET top == Len(free)
  IN  /\ At(IF w = "rx" THEN "init rx" ELSE "init tx")
      /\ rings' = [rings EXCEPT ![w] =
                     [desc  |-> free[top - DescFrames + 1],
                      avail |-> free[top - DescFrames - AvailFrames + 1],
                      used  |-> free[top - DescFrames - AvailFrames - UsedFrames + 1]]]
      /\ Pop(DescFrames + AvailFrames + UsedFrames)
      /\ Go(IF w = "rx" THEN "init tx" ELSE "fill")
      /\ UNCHANGED <<q, dev, tx_desc_idx, isr, overrun>>

\* net_rx_fill, and the DRIVER_OK of net_init that lets the device go.
net_rx_fill ==
  /\ At("fill")
  /\ q' = [q EXCEPT !.rx = [@ EXCEPT !.desc = [d \in Desc |-> free[Len(free) - d]],
                                     !.avail = [s \in Desc |-> s],
                                     !.avail_idx = QSize]]
  /\ Pop(QSize)
  /\ Go("thread")
  /\ UNCHANGED <<rings, dev, tx_desc_idx, isr, overrun>>
------------------------------------------------------------------------------
\* The device takes the next available descriptor and reads it.
Fetch(w) ==
  LET id == q[w].avail[Slot(dev[w].next)]
  IN  /\ Ready
      /\ dev[w].next # q[w].avail_idx
      /\ dev' = [dev EXCEPT ![w] =
                   [next |-> Inc(@.next),
                    busy |-> Append(@.busy, [id |-> id, addr |-> q[w].desc[id]])]]
      /\ UNCHANGED <<pmm, rings, q, tx_desc_idx, isr, cpu, overrun>>

\* It is done with one: with receive buffers in any order, with transmit
\* buffers in the order they came.
Use(w) ==
  \E k \in DOMAIN dev[w].busy :
    /\ w = "tx" => k = 1
    /\ dev' = [dev EXCEPT ![w] =
                 [next |-> @.next,
                  busy |-> SubSeq(@.busy, 1, k - 1) \o SubSeq(@.busy, k + 1, Len(@.busy))]]
    /\ q' = [q EXCEPT ![w] = [@ EXCEPT !.used[Slot(q[w].used_idx)] = dev[w].busy[k].id,
                                       !.used_idx = Inc(q[w].used_idx)]]
    /\ isr' = TRUE
    /\ UNCHANGED <<pmm, rings, tx_desc_idx, cpu, overrun>>
------------------------------------------------------------------------------
\* The interrupt is taken, read and acknowledged before any ring is looked at.
virtio_net_handle_irq ==
  /\ At("thread")
  /\ isr
  /\ isr' = FALSE
  /\ Go("rx")
  /\ UNCHANGED <<pmm, rings, q, dev, tx_desc_idx, overrun>>

\* The ethernet, ARP and IPv4 handlers (see Packet): requests for this host are
\* answered, other packets dropped, those of an unknown type after a message.
ethernet_handle_packet(reaction) ==
  cpu' = [cpu EXCEPT !.at = IF reaction = "reply" THEN "send" ELSE "recycle",
                     !.id = q.rx.used[Slot(q.rx.last_used_idx)]]

\* The loop of net_poll_rx reads the next used descriptor ...
net_poll_rx ==
  /\ At("rx")
  /\ q.rx.last_used_idx # q.rx.used_idx
  /\ \E reaction \in Reactions : ethernet_handle_packet(reaction)
  /\ UNCHANGED <<pmm, rings, q, dev, tx_desc_idx, isr, overrun>>

MutRecycle ==
  LET slot == Slot(q.rx.last_used_idx)
  IN  /\ At("recycle")
      /\ q' = [q EXCEPT !.rx = [@ EXCEPT !.avail[Slot(q.rx.avail_idx)] = slot,
                                         !.avail_idx = Inc(q.rx.avail_idx),
                                         !.last_used_idx = Inc(q.rx.last_used_idx)]]
      /\ Go("rx")
      /\ UNCHANGED <<pmm, rings, dev, tx_desc_idx, isr, overrun>>

\* ... and at its end makes the descriptor available again.
Recycle ==
  /\ At("recycle")
  /\ q' = [q EXCEPT !.rx = [@ EXCEPT !.avail[Slot(q.rx.avail_idx)] = cpu.id,
                                     !.avail_idx = Inc(q.rx.avail_idx),
                                     !.last_used_idx = Inc(q.rx.last_used_idx)]]
  /\ Go("rx")
  /\ UNCHANGED <<pmm, rings, dev, tx_desc_idx, isr, overrun>>

RxDone ==
  /\ At("rx")
  /\ q.rx.last_used_idx = q.rx.used_idx
  /\ Go("tx")
  /\ UNCHANGED <<pmm, rings, q, dev, tx_desc_idx, isr, overrun>>

\* Descriptors are taken in turn, whether or not the reply that had this one
\* is still out.  Without a frame the reply is dropped.
net_send ==
  LET head == Slot(tx_desc_idx)
  IN  /\ At("send")
      /\ IF free = <<>>
         THEN Go("recycle") /\ UNCHANGED <<pmm, q, overrun>>
         ELSE /\ Pop(1)
              /\ q' = [q EXCEPT !.tx = [@ EXCEPT !.desc[head] = Top,
                                                 !.avail[Slot(q.tx.avail_idx)] = head]]
              /\ cpu' = [cpu EXCEPT !.at = "publish", !.frame = Top]
              /\ overrun' = (overrun \/ Cardinality(Out) >= QSize)
      /\ UNCHANGED <<rings, dev, tx_desc_idx, isr>>

MutPublish ==
  /\ At("publish")
  /\ q' = [q EXCEPT !.tx.avail_idx = Inc(@)]
  /\ cpu' = [cpu EXCEPT !.at = "recycle", !.frame = NULL]
  /\ UNCHANGED <<pmm, rings, dev, tx_desc_idx, isr, overrun>>

\* Behind the barriers of net_send: the device may see the new descriptor.
Publish ==
  /\ At("publish")
  /\ q' = [q EXCEPT !.tx.avail_idx = Inc(@)]
  /\ tx_desc_idx' = Inc(tx_desc_idx)
  /\ cpu' = [cpu EXCEPT !.at = "recycle", !.frame = NULL]
  /\ UNCHANGED <<pmm, rings, dev, isr, overrun>>

MutCleanupTx ==
  /\ At("tx")
  /\ q.tx.last_used_idx # q.tx.used_idx
  /\ pmm_free_frame(q.tx.desc[q.tx.used[Slot(q.tx.last_used_idx)]])
  /\ UNCHANGED <<rings, q, dev, tx_desc_idx, isr, cpu, overrun>>

net_cleanup_tx ==
  /\ At("tx")
  /\ q.tx.last_used_idx # q.tx.used_idx
  /\ pmm_free_frame(q.tx.desc[q.tx.used[Slot(q.tx.last_used_idx)]])
  /\ q' = [q EXCEPT !.tx.last_used_idx = Inc(@)]
  /\ UNCHANGED <<rings, dev, tx_desc_idx, isr, cpu, overrun>>

MutIrqDone ==
  /\ At("tx")
  /\ q.tx.last_used_idx = q.tx.used_idx
  /\ Go("thread")
  /\ isr' = FALSE
  /\ UNCHANGED <<pmm, rings, q, dev, tx_desc_idx, overrun>>

\* gic_eoi and the return to what was interrupted.
IrqDone ==
  /\ At("tx")
  /\ q.tx.last_used_idx = q.tx.used_idx
  /\ Go("thread")
  /\ UNCHANGED <<pmm, rings, q, dev, tx_desc_idx, isr, overrun>>
------------------------------------------------------------------------------
Handler ==
  \/ net_poll_rx \/ Recycle \/ RxDone \/ net_send \/ Publish
  \/ net_cleanup_tx \/ IrqDone

Next ==
  \/ \E w \in Queue : virtio_init_queue(w) \/ Fetch(w) \/ Use(w)
  \/ net_rx_fill
  \/ virtio_net_handle_irq \/ Handler

Spec == Init /\ [][Next]_vars

\* Core 0 takes interrupts (boot.S unmasks them) and its handler keeps going.
\* Nothing is assumed of the device.
FairSpec ==
  /\ Spec
  /\ WF_vars(virtio_net_handle_irq)
  /\ WF_vars(Handler)
------------------------------------------------------------------------------
\* Types: descriptors name buffers, ring entries name descriptors.
TypeOK ==
  /\ pmm.total_frames \in RamSizes
  /\ free \in Seq(Frame) /\ Len(free) <= pmm.total_frames
  /\ \A w \in Queue :
       /\ rings[w] \in [desc : Frame, avail : Frame, used : Frame] \cup {NULL}
       /\ q[w] \in [desc : [Desc -> Frame \cup {NULL}], avail : [Desc -> Desc],
                    avail_idx : Idx, used : [Desc -> Desc], used_idx : Idx,
                    last_used_idx : Idx]
       /\ dev[w].next \in Idx
       /\ dev[w].busy \in Seq([id : Desc, addr : Frame])
  /\ tx_desc_idx \in Idx
  /\ isr \in BOOLEAN /\ overrun \in BOOLEAN
  /\ cpu.frame \in Frame \cup {NULL} /\ cpu.id \in Desc

RingFrames(w) ==
  IF rings[w] = NULL THEN {}
  ELSE {rings[w].desc + k : k \in 0 .. DescFrames - 1}
         \cup {rings[w].avail + k : k \in 0 .. AvailFrames - 1}
         \cup {rings[w].used + k : k \in 0 .. UsedFrames - 1}

\* Their descriptors.
Sent == {q.tx.avail[Slot(i)] : i \in Out}

FreeFrames == {free[k] : k \in DOMAIN free}
RxBuffers == {q.rx.desc[d] : d \in Desc} \ {NULL}
TxBuffers == {q.tx.desc[d] : d \in Sent} \cup ({cpu.frame} \ {NULL})

\* The rings lie in frames that were allocated for them and nobody else has:
\* virtio_init_queue takes frames one by one and relies on their order.
RingsKept ==
  /\ RingFrames("rx") \cap RingFrames("tx") = {}
  /\ \A w \in Queue :
       /\ RingFrames(w) \subseteq Frame
       /\ rings[w] # NULL => Cardinality(RingFrames(w)) = DescFrames + AvailFrames + UsedFrames
       /\ RingFrames(w) \cap (FreeFrames \cup RxBuffers \cup TxBuffers) = {}

\* Every frame is in one place: on the allocator's stack once, in a ring, under
\* one receive descriptor or under one reply that is out.  So each reply's
\* frame is freed exactly once, although net_cleanup_tx only learns a number
\* from the device and the indices wrap.  This ends exactly when net_send comes
\* round to a descriptor that is out: from then on some frame is in no place.
FramesAccounted ==
  LET kept == FreeFrames \cup RingFrames("rx") \cup RingFrames("tx")
                \cup RxBuffers \cup TxBuffers
  IN  IF overrun THEN Frame \ kept # {}
      ELSE /\ kept = Frame
           /\ Len(free) + Cardinality(RxBuffers) + Cardinality(TxBuffers)
                = pmm.total_frames - Cardinality(RingFrames("rx"))
                    - Cardinality(RingFrames("tx"))

\* While the device works on a buffer the driver leaves its descriptor and its
\* frame alone, in the transmit queue as long as it was never overrun: an
\* index that wraps or an answer out of turn does not bring net_send to a
\* descriptor that is out, only a full queue does.
DeviceUndisturbed ==
  \A w \in Queue, k \in 1 .. Cardinality(Desc) :
    k \in DOMAIN dev[w].busy /\ (w = "tx" => ~overrun) =>
      LET e == dev[w].busy[k] IN
      /\ q[w].desc[e.id] = e.addr
      /\ e.addr \notin FreeFrames
      /\ \A j \in DOMAIN dev[w].busy : dev[w].busy[j].id = e.id => j = k

\* Every receive descriptor is available, with the device or waiting for
\* net_poll_rx, and only one of these, also when the device returns them out of order.
RxDescriptorsKept ==
  Ready => \A d \in Desc :
    LET avail == {i \in Between(dev.rx.next, q.rx.avail_idx) : q.rx.avail[Slot(i)] = d}
        busy == {k \in DOMAIN dev.rx.busy : dev.rx.busy[k].id = d}
        used == {i \in Between(q.rx.last_used_idx, q.rx.used_idx) : q.rx.used[Slot(i)] = d}
    IN  Cardinality(avail) + Cardinality(busy) + Cardinality(used) = 1

\* A packet that the device has delivered is handled: no interrupt is lost
\* when the device delivers while the handler is on its way out.
Delivered(d) ==
  \E i \in Between(q.rx.last_used_idx, q.rx.used_idx) : q.rx.used[Slot(i)] = d
PacketsHandled == \A d \in Desc : Delivered(d) ~> ~Delivered(d)
==============================================================================
