------------------------------ MODULE NetProofs ------------------------------
(***************************************************************************)
(* For every queue size, index width and amount of memory: the rings stay  *)
(* where they are, every frame is in one place, and the device and the     *)
(* driver do not touch the same descriptor.  The last two hold of the      *)
(* transmit queue until net_send sends a reply while a whole queue of them *)
(* is out; from then on a frame is lost.                                   *)
(***************************************************************************)
EXTENDS Net, Division, FiniteSetTheorems, SequenceTheorems

RingSize == DescFrames + AvailFrames + UsedFrames
Ram == pmm.total_frames
Spare == Ram - 2 * RingSize - QSize     \* frames left for replies

\* Where the rings lie when their frames are taken from below frame t.
RingsBelow(t) ==
  [desc |-> t - DescFrames, avail |-> t - DescFrames - AvailFrames, used |-> t - RingSize]

Label == {"init rx", "init tx", "fill", "thread", "rx", "send", "publish", "recycle", "tx"}
QueueState ==
  [desc : [Desc -> Nat \cup {NULL}], avail : [Desc -> Desc], avail_idx : Idx,
   used : [Desc -> Desc], used_idx : Idx, last_used_idx : Idx]
Buffer == [id : Desc, addr : Nat]

Shapes ==
  /\ pmm \in [stack : Seq(Nat), total_frames : RamSizes]
  /\ q \in [Queue -> QueueState]
  /\ dev \in [Queue -> [next : Idx, busy : Seq(Buffer)]]
  /\ tx_desc_idx \in Idx /\ isr \in BOOLEAN /\ overrun \in BOOLEAN
  /\ cpu \in [at : Label, id : Desc, frame : Nat \cup {NULL}]

\* net_init takes the frames from the top of memory, in order.
SetUp ==
  /\ rings = [w \in Queue |-> rings[w]]
  /\ rings["rx"] = IF At("init rx") THEN NULL ELSE RingsBelow(Ram)
  /\ rings["tx"] = IF At("init rx") \/ At("init tx") THEN NULL ELSE RingsBelow(Ram - RingSize)
  /\ ~Ready =>
       /\ Len(free) = Ram - (IF At("init rx") THEN 0 ELSE
                             IF At("init tx") THEN RingSize ELSE 2 * RingSize)
       /\ \A k \in 1 .. Len(free) : free[k] = k - 1
       /\ q = [w \in Queue |-> EmptyQueue]
       /\ dev = [w \in Queue |-> [next |-> 0, busy |-> <<>>]]
       /\ tx_desc_idx = 0 /\ cpu.frame = NULL /\ ~overrun
  /\ Ready => q["rx"].desc = [d \in Desc |-> Ram - 2 * RingSize - 1 - d]

\* The ring indices of queue w are l, u, n and a modulo IdxMod, numbers that
\* never wrap: buffers l to u - 1 are used, the device works on u to n - 1, and
\* n to a - 1 are available to it.
Positions(w, l, u, n, a) ==
  /\ l <= u /\ u <= n /\ n <= a /\ a <= l + QSize
  /\ q[w].last_used_idx = l % IdxMod /\ q[w].used_idx = u % IdxMod
  /\ dev[w].next = n % IdxMod /\ q[w].avail_idx = a % IdxMod
  /\ Len(dev[w].busy) = n - u

InPacket == cpu.at \in {"send", "publish", "recycle"}

\* The receive descriptor at position i.
Holder(i, u, n) ==
  IF i < u THEN q["rx"].used[i % QSize]
  ELSE IF i < n THEN dev["rx"].busy[i - u + 1].id
  ELSE q["rx"].avail[i % QSize]

\* Every receive descriptor is at one position, and the driver handles the
\* first of the used ones.
RxAt(l, u, n, a) ==
  /\ Positions("rx", l, u, n, a) /\ a = l + QSize
  /\ \A i, j \in l .. a - 1 : Holder(i, u, n) = Holder(j, u, n) => i = j
  /\ \A d \in Desc : \E i \in l .. a - 1 : Holder(i, u, n) = d
  /\ \A k \in 1 .. n - u : dev["rx"].busy[k].addr = q["rx"].desc[dev["rx"].busy[k].id]
  /\ InPacket => l < u /\ cpu.id = q["rx"].used[l % QSize]

\* Reply i lies in descriptor i % QSize, from net_send to net_cleanup_tx.
TxAt(l, u, n, a) ==
  /\ Positions("tx", l, u, n, a)
  /\ tx_desc_idx = a % IdxMod
  /\ At("publish") => a < l + QSize
  /\ \A i \in l .. a - 1 : q["tx"].avail[i % QSize] = i % QSize
  /\ \A i \in l .. u - 1 : q["tx"].used[i % QSize] = i % QSize
  /\ \A i \in u .. n - 1 :
       /\ dev["tx"].busy[i - u + 1].id = i % QSize
       /\ dev["tx"].busy[i - u + 1].addr = q["tx"].desc[i % QSize]
  /\ At("publish") => q["tx"].avail[a % QSize] = a % QSize

\* A spare frame is free, under a reply that is out, or in net_send's hand.
FramesAt(l, a) ==
  /\ \A k \in 1 .. Len(free) : free[k] \in 0 .. Spare - 1
  /\ \A j, k \in 1 .. Len(free) : free[j] = free[k] => j = k
  /\ \A i \in l .. a - 1 :
       /\ q["tx"].desc[i % QSize] \in 0 .. Spare - 1
       /\ \A k \in 1 .. Len(free) : free[k] # q["tx"].desc[i % QSize]
       /\ \A j \in l .. a - 1 : q["tx"].desc[i % QSize] = q["tx"].desc[j % QSize] => i = j
  /\ IF At("publish")
     THEN /\ cpu.frame \in 0 .. Spare - 1 /\ cpu.frame = q["tx"].desc[a % QSize]
          /\ \A k \in 1 .. Len(free) : free[k] # cpu.frame
          /\ \A i \in l .. a - 1 : q["tx"].desc[i % QSize] # cpu.frame
     ELSE cpu.frame = NULL
  /\ \A d \in Desc : q["tx"].desc[d] \in (0 .. Spare - 1) \cup {NULL}
  /\ \A f \in 0 .. Spare - 1 :
       \/ \E k \in 1 .. Len(free) : free[k] = f
       \/ \E i \in l .. a - 1 : q["tx"].desc[i % QSize] = f
       \/ cpu.frame = f

RxSound == \E l, u, n, a \in Nat : RxAt(l, u, n, a)
TxInOrder == \E l, u, n, a \in Nat : TxAt(l, u, n, a) /\ FramesAt(l, a)

\* A spare frame that is neither free nor where net_cleanup_tx would find it.
Lost(f) ==
  /\ f \in 0 .. Spare - 1 /\ cpu.frame # f
  /\ \A k \in 1 .. Len(free) : free[k] # f
  /\ \A d \in Desc : q["tx"].desc[d] # f

\* What is left of this once net_send has come round to a reply that is out:
\* replies stay in spare frames, and one of these is lost for ever.
TxOverrun ==
  /\ Len(free) <= Ram /\ tx_desc_idx = q["tx"].avail_idx
  /\ \A k \in 1 .. Len(free) : free[k] \in 0 .. Spare - 1
  /\ \A d \in Desc : q["tx"].desc[d] \in 0 .. Spare - 1
  /\ \A k \in 1 .. Len(dev["tx"].busy) : dev["tx"].busy[k].addr \in 0 .. Spare - 1
  /\ cpu.frame \in (0 .. Spare - 1) \cup {NULL}
  /\ \E f \in Nat : Lost(f)

TxSound == IF overrun THEN TxOverrun ELSE TxInOrder

NetInv == Shapes /\ SetUp /\ (Ready => RxSound /\ TxSound)
------------------------------------------------------------------------------
\* The arithmetic of the ring indices: a power of two is not needed, only that
\* the queue size divides the number of index values.
LEMMA Sizes ==
  /\ QSize \in Nat \ {0} /\ IdxMod \in Nat \ {0} /\ QSize < IdxMod /\ IdxMod % QSize = 0
  /\ RingSize \in Nat \ {0} /\ DescFrames \in Nat \ {0} /\ AvailFrames \in Nat \ {0}
  /\ UsedFrames \in Nat \ {0} /\ RingSize = DescFrames + AvailFrames + UsedFrames
  /\ \A n \in RamSizes : n \in Nat /\ n >= 2 * RingSize + QSize
  /\ NULL \notin Nat
<1>1. /\ QSize \in Nat \ {0} /\ IdxMod \in Nat \ {0} /\ QSize < IdxMod /\ IdxMod % QSize = 0
      /\ DescFrames \in Nat \ {0} /\ AvailFrames \in Nat \ {0} /\ UsedFrames \in Nat \ {0}
      /\ NULL \notin Nat
  BY NetAssumption
<1>2. /\ RingSize = DescFrames + AvailFrames + UsedFrames
      /\ RingSize \in Nat \ {0}
  BY <1>1 DEF RingSize
<1>3. \A n \in RamSizes : n \in Nat /\ n >= 2 * RingSize + QSize
  BY <1>2, NetAssumption
<1> QED
  BY <1>1, <1>2, <1>3

\* A position's index and slot.
LEMMA PositionIs ==
  ASSUME NEW i \in Nat
  PROVE  /\ i % IdxMod \in Idx /\ i % QSize \in Desc
         /\ Slot(i % IdxMod) = i % QSize
         /\ Inc(i % IdxMod) = (i + 1) % IdxMod
<1>1. i % IdxMod \in Idx /\ i % QSize \in Desc
  BY Sizes, Divided DEF Idx, Desc
<1>2. Slot(i % IdxMod) = i % QSize
  BY Sizes, RemainderOfRemainder DEF Slot
<1>3. Inc(i % IdxMod) = (i + 1) % IdxMod
  BY Sizes, NextRemainder DEF Inc
<1> QED
  BY <1>1, <1>2, <1>3

\* Indices wrap.
LEMMA IncIs ==
  ASSUME NEW i \in Idx
  PROVE  Inc(i) \in Idx
<1>1. i \in Nat /\ i + 1 \in Nat
  BY DEF Idx
<1> QED
  BY <1>1, PositionIs DEF Inc

\* Positions that are less than a queue apart have different slots.
LEMMA SlotsDiffer ==
  ASSUME NEW i \in Nat, NEW j \in Nat, i < j + QSize, j < i + QSize, i % QSize = j % QSize
  PROVE  i = j
<1>1. QSize \in Nat \ {0} /\ j - i < QSize /\ i - j < QSize
  BY Sizes
<1>2. CASE i <= j
  BY <1>1, <1>2, RemaindersDiffer
<1>3. CASE j <= i
  BY <1>1, <1>3, RemaindersDiffer
<1> QED
  BY <1>2, <1>3

\* Positions that are at most a queue apart have different indices.
LEMMA IndicesDiffer ==
  ASSUME NEW i \in Nat, NEW j \in Nat, i <= j, j <= i + QSize, i % IdxMod = j % IdxMod
  PROVE  i = j
<1>1. IdxMod \in Nat \ {0} /\ j - i < IdxMod
  BY Sizes
<1> QED
  BY <1>1, RemaindersDiffer

\* A queue further on is the same slot.
LEMMA SameSlot ==
  ASSUME NEW i \in Nat
  PROVE  (i + QSize) % QSize = i % QSize
<1>1. PICK d \in Nat, r \in 0 .. QSize - 1 : d = i \div QSize /\ r = i % QSize /\ i = QSize * d + r
  BY Sizes, Divided
<1>2. i + QSize = QSize * (d + 1) + r
  BY <1>1, Sizes
<1>3. (QSize * (d + 1) + r) % QSize = r
  BY Quotients, Sizes
<1> QED
  BY <1>1, <1>2, <1>3

\* How far an index is ahead of another one.
LEMMA Ahead ==
  ASSUME NEW l \in Nat, NEW c \in Nat, l <= c, c < l + IdxMod
  PROVE  ((c % IdxMod) + IdxMod - (l % IdxMod)) % IdxMod = c - l
<1>1. PICK d \in Nat, s \in 0 .. IdxMod - 1 :
        d = c \div IdxMod /\ s = c % IdxMod /\ c = IdxMod * d + s
  BY Sizes, Divided
<1>2. PICK e \in Nat, r \in 0 .. IdxMod - 1 :
        e = l \div IdxMod /\ r = l % IdxMod /\ l = IdxMod * e + r
  BY Sizes, Divided
<1>3. ASSUME d < e PROVE IdxMod * d + IdxMod <= IdxMod * e
  BY <1>3, Times, Sizes
<1>4. ASSUME e + 1 < d PROVE IdxMod * (e + 1) + IdxMod <= IdxMod * d
  BY <1>4, Times, Sizes
<1>5. /\ IdxMod * d \in Int /\ IdxMod * e \in Int
      /\ IdxMod * (e + 1) = IdxMod * e + IdxMod
  BY Sizes
<1>6. d = e \/ d = e + 1
  BY <1>1, <1>2, <1>3, <1>4, <1>5, Sizes
<1>7. ASSUME d = e PROVE (s + IdxMod - r) % IdxMod = c - l
  <2>1. c - l \in 0 .. IdxMod - 1 /\ s + IdxMod - r = IdxMod * 1 + (c - l)
    BY <1>1, <1>2, <1>5, <1>7, Sizes
  <2>2. (IdxMod * 1 + (c - l)) % IdxMod = c - l
    BY <2>1, Quotients, Sizes
  <2> QED
    BY <2>1, <2>2, Sizes
<1>8. ASSUME d = e + 1 PROVE (s + IdxMod - r) % IdxMod = c - l
  <2>1. c - l \in 0 .. IdxMod - 1 /\ s + IdxMod - r = c - l
    BY <1>1, <1>2, <1>5, <1>8, Sizes
  <2> QED
    BY <2>1, SmallRemainder, Sizes
<1>9. (s + IdxMod - r) % IdxMod = c - l
  BY <1>6, <1>7, <1>8
<1>10. s = c % IdxMod /\ r = l % IdxMod
  BY <1>1, <1>2
<1> QED
  BY <1>9, <1>10

\* Every remainder is that of a number in a window.
LEMMA SomeRemainder ==
  \A m \in Nat \ {0} : \A l \in Nat : \A i \in 0 .. m - 1 :
    \E c \in l .. l + m - 1 : c % m = i
<1> TAKE m \in Nat \ {0}
<1> TAKE l \in Nat
<1> TAKE i \in 0 .. m - 1
<1>1. PICK e \in Nat, r \in 0 .. m - 1 : e = l \div m /\ r = l % m /\ l = m * e + r
  BY Divided
<1>2. m * e \in Int /\ m * (e + 1) = m * e + m
  OBVIOUS
<1>3. CASE i >= r
  <2>1. m * e + i \in l .. l + m - 1
    BY <1>1, <1>2, <1>3
  <2>2. (m * e + i) % m = i
    BY Quotients
  <2> QED
    BY <2>1, <2>2
<1>4. CASE i < r
  <2>1. m * (e + 1) + i \in l .. l + m - 1
    BY <1>1, <1>2, <1>4
  <2>2. (m * (e + 1) + i) % m = i
    BY Quotients
  <2> QED
    BY <2>1, <2>2
<1> QED
  BY <1>1, <1>3, <1>4

\* Every index is that of a position in a window of IdxMod,
LEMMA SomePosition ==
  ASSUME NEW l \in Nat, NEW i \in Idx
  PROVE  \E c \in l .. l + IdxMod - 1 : c % IdxMod = i
<1>1. IdxMod \in Nat \ {0}
  BY Sizes
<1>2. i \in 0 .. IdxMod - 1
  BY DEF Idx
<1> QED
  BY <1>1, <1>2, SomeRemainder, Zenon

\* ... and every descriptor that of a position in a whole queue.
LEMMA SomeSlot ==
  ASSUME NEW l \in Nat, NEW d \in Desc
  PROVE  \E c \in l .. l + QSize - 1 : c % QSize = d
<1>1. QSize \in Nat \ {0}
  BY Sizes
<1>2. d \in 0 .. QSize - 1
  BY DEF Desc
<1> QED
  BY <1>1, <1>2, SomeRemainder, Zenon

\* The indices between those of two positions are those of the positions
\* between, and there are as many.
LEMMA BetweenIs ==
  ASSUME NEW l \in Nat, NEW h \in Nat, l <= h, h <= l + QSize
  PROVE  /\ Between(l % IdxMod, h % IdxMod) = {i % IdxMod : i \in l .. h - 1}
         /\ IsFiniteSet(Between(l % IdxMod, h % IdxMod))
         /\ Cardinality(Between(l % IdxMod, h % IdxMod)) = h - l
<1> DEFINE W == {i % IdxMod : i \in l .. h - 1}
           x == l % IdxMod
           y == h % IdxMod
           B == Between(x, y)
<1>1. h < l + IdxMod
  BY Sizes
<1>2. (y + IdxMod - x) % IdxMod = h - l
  BY <1>1, Ahead
<1>0. \A c \in l .. l + IdxMod - 1 :
        c % IdxMod \in Idx /\ ((c % IdxMod) + IdxMod - x) % IdxMod = c - l
  <2> TAKE c \in l .. l + IdxMod - 1
  <2>1. c \in Nat /\ l <= c /\ c < l + IdxMod
    BY Sizes
  <2> QED
    BY <2>1, Ahead, PositionIs
<1>3. ASSUME NEW i \in B PROVE i \in W
  <2>2. PICK c \in l .. l + IdxMod - 1 : c % IdxMod = i
    BY SomePosition DEF Between
  <2> HIDE DEF x, y
  <2>3. (i + IdxMod - x) % IdxMod < h - l
    BY <1>2 DEF Between
  <2>4. c - l < h - l
    BY <1>0, <2>2, <2>3
  <2>5. c \in l .. h - 1
    BY <2>4, Sizes
  <2> QED
    BY <2>2, <2>5
<1>4. ASSUME NEW c \in l .. h - 1 PROVE c % IdxMod \in B
  <2>1. c \in l .. l + IdxMod - 1 /\ c - l < h - l
    BY <1>1, Sizes
  <2> HIDE DEF x, y
  <2> QED
    BY <1>0, <1>2, <2>1 DEF Between
<1>5. B = W
  BY <1>3, <1>4
<1> DEFINE f == [i \in l .. h - 1 |-> i % IdxMod]
<1>6. f \in Surjection(l .. h - 1, W)
  BY DEF Surjection
<1>7. f \in Injection(l .. h - 1, W)
  <2>1. ASSUME NEW i \in l .. h - 1, NEW j \in l .. h - 1, f[i] = f[j] PROVE i = j
    <3>1. i \in Nat /\ j \in Nat /\ i % IdxMod = j % IdxMod /\ i <= j + QSize /\ j <= i + QSize
      BY <2>1, Sizes
    <3>2. CASE i <= j
      BY <3>1, <3>2, IndicesDiffer
    <3>3. CASE j <= i
      BY <3>1, <3>3, IndicesDiffer
    <3> QED
      BY <3>1, <3>2, <3>3
  <2>2. f \in [l .. h - 1 -> W] /\ DOMAIN f = l .. h - 1
    OBVIOUS
  <2> HIDE DEF f, W
  <2> QED
    BY <2>1, <2>2 DEF Injection, IsInjective
<1>8. IsFiniteSet(l .. h - 1) /\ Cardinality(l .. h - 1) = h - l
  <2>1. /\ l \in Int /\ h - 1 \in Int
        /\ h - l = IF l > h - 1 THEN 0 ELSE (h - 1) - l + 1
    OBVIOUS
  <2> QED
    BY <2>1, FS_Interval
<1> HIDE DEF f, W, B, x, y
<1>9. IsFiniteSet(W) /\ Cardinality(W) = h - l
  BY <1>6, <1>7, <1>8, FS_Surjection
<1> QED
  BY <1>5, <1>9 DEF W, B, x, y
------------------------------------------------------------------------------
CpuState == [at : Label, id : Desc, frame : Nat \cup {NULL}]

\* What the steps do to the allocator and to the core.
LEMMA Popped ==
  ASSUME Shapes, NEW n \in Nat, n <= Len(free), Pop(n)
  PROVE  /\ pmm' \in [stack : Seq(Nat), total_frames : RamSizes]
         /\ Ram' = Ram
         /\ Len(free)' = Len(free) - n
         /\ \A k \in 1 .. Len(free) - n : free'[k] = free[k]
<1> DEFINE s == pmm.stack
           t == SubSeq(s, 1, Len(s) - n)
<1>1. s \in Seq(Nat) /\ Len(s) \in Nat
  BY DEF Shapes
<1>2. \A i \in 1 .. Len(s) - n : s[i] \in Nat
  BY <1>1
<1>3. /\ t \in Seq(Nat) /\ Len(t) = Len(s) - n
      /\ \A i \in 1 .. Len(s) - n : t[i] = s[i]
  <2>0. n <= Len(s)
    BY DEF free
  <2> HIDE DEF s
  <2>1. PICK m \in Nat : m = Len(s) - n
    BY <1>1, <2>0
  <2>2. /\ 1 \in Int /\ m \in Int /\ m - 1 + 1 = m
        /\ \A i \in 1 .. m : 1 + i - 1 = i /\ s[i] \in Nat
    BY <1>2, <2>1
  <2>3. /\ SubSeq(s, 1, m) \in Seq(Nat)
        /\ Len(SubSeq(s, 1, m)) = IF 1 <= m THEN m - 1 + 1 ELSE 0
        /\ \A i \in 1 .. m - 1 + 1 : SubSeq(s, 1, m)[i] = s[1 + i - 1]
    BY <2>2, SubSeqProperties
  <2>4. t = SubSeq(s, 1, m)
    BY <2>1
  <2> HIDE DEF t
  <2>5. Len(t) = m /\ \A i \in 1 .. m : t[i] = s[i]
    BY <2>2, <2>3, <2>4
  <2> QED
    BY <2>1, <2>3, <2>4, <2>5
<1>4. pmm' = [pmm EXCEPT !.stack = t]
  BY DEF Pop
<1> HIDE DEF t
<1>5. pmm' \in [stack : Seq(Nat), total_frames : RamSizes] /\ pmm'.stack = t /\ Ram' = Ram
  BY <1>3, <1>4 DEF Shapes, Ram
<1> QED
  BY <1>3, <1>5 DEF free

\* Going on to another step of the handler.
LEMMA Went ==
  ASSUME Shapes, NEW label \in Label, Go(label)
  PROVE  cpu' \in CpuState /\ cpu'.at = label /\ cpu'.id = cpu.id /\ cpu'.frame = cpu.frame
BY DEF Shapes, Go, CpuState

\* A step keeps what the receive queue's positions say.
LEMMA RxKept ==
  ASSUME RxSound, UNCHANGED <<q["rx"], dev["rx"]>>,
         InPacket' => InPacket /\ cpu'.id = cpu.id
  PROVE  RxSound'
<1>1. PICK l \in Nat, u \in Nat, n \in Nat, a \in Nat : RxAt(l, u, n, a)
  BY DEF RxSound
<1>2. RxAt(l, u, n, a)'
  BY <1>1 DEF RxAt, Positions, Holder
<1> QED
  BY <1>2 DEF RxSound

\* A step that leaves the transmit queue alone.
LEMMA TxKept ==
  ASSUME TxSound, UNCHANGED <<q["tx"], dev["tx"], pmm, tx_desc_idx, overrun>>,
         cpu'.frame = cpu.frame, At("publish")' <=> At("publish")
  PROVE  TxSound'
<1>1. CASE overrun
  <2>1. TxOverrun
    BY <1>1 DEF TxSound
  <2>2. PICK f \in Nat : Lost(f)
    BY <2>1 DEF TxOverrun
  <2>3. free' = free /\ Ram' = Ram /\ Spare' = Spare
    BY DEF free, Ram, Spare
  <2>4. Lost(f)'
    BY <2>2, <2>3 DEF Lost
  <2>5. TxOverrun'
    BY <2>1, <2>3, <2>4 DEF TxOverrun
  <2> QED
    BY <1>1, <2>5 DEF TxSound
<1>2. CASE ~overrun
  <2>1. PICK l \in Nat, u \in Nat, n \in Nat, a \in Nat : TxAt(l, u, n, a) /\ FramesAt(l, a)
    BY <1>2 DEF TxSound, TxInOrder
  <2>2. TxAt(l, u, n, a)'
    BY <2>1 DEF TxAt, Positions, At
  <2>3. FramesAt(l, a)'
    BY <2>1 DEF FramesAt, At, Spare, Ram, free
  <2>4. TxInOrder'
    BY <2>2, <2>3 DEF TxInOrder
  <2> QED
    BY <1>2, <2>4 DEF TxSound
<1> QED
  BY <1>1, <1>2

\* A step of the driver or the device after net_init keeps the rings.
LEMMA SetUpKept ==
  ASSUME SetUp, Ready, Ready', rings' = rings, Ram' = Ram, q'["rx"].desc = q["rx"].desc
  PROVE  SetUp'
<1>1. /\ ~At("init rx") /\ ~At("init tx") /\ ~At("init rx")' /\ ~At("init tx")'
  BY DEF Ready, At
<1>2. /\ rings = [w \in Queue |-> rings[w]]
      /\ rings["rx"] = RingsBelow(Ram) /\ rings["tx"] = RingsBelow(Ram - RingSize)
      /\ q["rx"].desc = [d \in Desc |-> Ram - 2 * RingSize - 1 - d]
  BY <1>1 DEF SetUp
<1>3. RingsBelow(Ram)' = RingsBelow(Ram) /\ RingsBelow(Ram - RingSize)' = RingsBelow(Ram - RingSize)
  BY DEF RingsBelow
<1> QED
  BY <1>1, <1>2, <1>3 DEF SetUp

\* The initial state.
LEMMA NetStarts == Init => NetInv
<1> SUFFICES ASSUME Init PROVE NetInv
  OBVIOUS
<1>1. PICK n \in RamSizes : pmm = [stack |-> [k \in 1 .. n |-> k - 1], total_frames |-> n]
  BY DEF Init
<1>2. n \in Nat
  BY Sizes
<1> DEFINE s == [k \in 1 .. n |-> k - 1]
<1>3. s \in [1 .. n -> Nat] /\ \A k \in 1 .. n : s[k] = k - 1
  BY <1>2
<1> HIDE DEF s
<1>4. s \in Seq(Nat) /\ Len(s) = n
  BY <1>2, <1>3, SeqDef, LenProperties
<1>5. pmm.stack = s /\ pmm.total_frames = n /\ pmm \in [stack : Seq(Nat), total_frames : RamSizes]
  BY <1>1, <1>4 DEF s
<1>6. 0 \in Desc /\ 0 \in Idx
  BY Sizes DEF Desc, Idx
<1>7. EmptyQueue \in QueueState
  BY <1>6 DEF EmptyQueue, QueueState
<1>8. Shapes
  <2>1. dev \in [Queue -> [next : Idx, busy : Seq(Buffer)]]
    <3>1. [next |-> 0, busy |-> <<>>] \in [next : Idx, busy : Seq(Buffer)]
      BY <1>6
    <3> QED
      BY <3>1 DEF Init
  <2>2. q \in [Queue -> QueueState]
    BY <1>7 DEF Init
  <2>3. cpu \in CpuState
    BY <1>6 DEF Init, CpuState, Label
  <2> QED
    BY <1>5, <1>6, <2>1, <2>2, <2>3 DEF Shapes, Init, CpuState
<1>9. At("init rx") /\ ~Ready /\ cpu.frame = NULL
  BY DEF Init, At, Ready
<1>10. SetUp
  <2>2. rings = [w \in Queue |-> rings[w]] /\ rings["rx"] = NULL /\ rings["tx"] = NULL
    BY DEF Init, Queue
  <2>3. Len(free) = Ram /\ \A k \in 1 .. Len(free) : free[k] = k - 1
    BY <1>3, <1>4, <1>5 DEF free, Ram
  <2>4. Ram - 0 = Ram
    BY <1>2, <1>5 DEF Ram
  <2> QED
    BY <1>9, <2>2, <2>3, <2>4 DEF SetUp, Init
<1> QED
  BY <1>8, <1>9, <1>10 DEF NetInv
------------------------------------------------------------------------------
\* The memory that net_init finds is enough for it.
LEMMA Memory ==
  ASSUME Shapes
  PROVE  /\ Ram \in Nat /\ Spare \in Nat /\ Ram = 2 * RingSize + QSize + Spare
         /\ free \in Seq(Nat) /\ Len(free) \in Nat
<1>1. Ram \in RamSizes /\ free \in Seq(Nat)
  BY DEF Shapes, Ram, free
<1>2. Ram \in Nat /\ Ram >= 2 * RingSize + QSize
  BY <1>1, Sizes
<1> QED
  BY <1>1, <1>2, Sizes DEF Spare

\* What virtio_init_queue makes of a stack that still is in order.
LEMMA QueueTaken ==
  ASSUME Shapes, \A k \in 1 .. Len(free) : free[k] = k - 1, RingSize <= Len(free),
         NEW w \in Queue, virtio_init_queue(w)
  PROVE  /\ rings' = [rings EXCEPT ![w] = RingsBelow(Len(free))]
         /\ Len(free)' = Len(free) - RingSize
         /\ \A k \in 1 .. Len(free)' : free'[k] = k - 1
         /\ pmm' \in [stack : Seq(Nat), total_frames : RamSizes] /\ Ram' = Ram
<1> DEFINE t == Len(free)
<1>0. t \in Nat /\ RingSize \in Nat /\ RingSize = DescFrames + AvailFrames + UsedFrames
  BY Memory, Sizes
<1>1. Pop(RingSize)
  BY DEF virtio_init_queue, RingSize
<1>2. /\ pmm' \in [stack : Seq(Nat), total_frames : RamSizes] /\ Ram' = Ram
      /\ Len(free)' = t - RingSize
      /\ \A k \in 1 .. t - RingSize : free'[k] = free[k]
  BY <1>0, <1>1, Popped
<1>3. \A k \in 1 .. Len(free)' : free'[k] = k - 1
  <2>1. PICK m \in Nat : m = t - RingSize
    BY <1>0
  <2>2. \A k \in 1 .. m : k \in 1 .. t
    BY <1>0, <2>1
  <2>3. Len(free)' = m /\ \A k \in 1 .. m : free'[k] = free[k]
    BY <1>2, <2>1
  <2>4. \A k \in 1 .. m : free'[k] = k - 1
    BY <2>2, <2>3
  <2> QED
    BY <2>3, <2>4
<1>4. /\ free[t - DescFrames + 1] = t - DescFrames
      /\ free[t - DescFrames - AvailFrames + 1] = t - DescFrames - AvailFrames
      /\ free[t - DescFrames - AvailFrames - UsedFrames + 1] = t - RingSize
  <2>1. /\ t - DescFrames + 1 \in 1 .. t
        /\ t - DescFrames - AvailFrames + 1 \in 1 .. t
        /\ t - DescFrames - AvailFrames - UsedFrames + 1 \in 1 .. t
    BY <1>0, Sizes
  <2>2. /\ (t - DescFrames + 1) - 1 = t - DescFrames
        /\ (t - DescFrames - AvailFrames + 1) - 1 = t - DescFrames - AvailFrames
        /\ (t - DescFrames - AvailFrames - UsedFrames + 1) - 1 = t - RingSize
    BY <1>0, Sizes
  <2> QED
    BY <2>1, <2>2
<1>5. rings' = [rings EXCEPT ![w] = RingsBelow(t)]
  <2>1. rings' = [rings EXCEPT ![w] =
                    [desc  |-> free[t - DescFrames + 1],
                     avail |-> free[t - DescFrames - AvailFrames + 1],
                     used  |-> free[t - DescFrames - AvailFrames - UsedFrames + 1]]]
    BY DEF virtio_init_queue
  <2> QED
    BY <1>4, <2>1 DEF RingsBelow
<1> QED
  BY <1>2, <1>3, <1>5

\* virtio_init_queue for the receive queue, then for the transmit queue.
LEMMA InitQueueKeeps ==
  ASSUME NetInv, NEW w \in Queue, virtio_init_queue(w)
  PROVE  NetInv'
<1>0. Shapes /\ SetUp
  BY DEF NetInv
<1>1. ~Ready /\ UNCHANGED <<q, dev, tx_desc_idx, isr, overrun>>
  BY DEF virtio_init_queue, At, Ready
<1>2. /\ \A k \in 1 .. Len(free) : free[k] = k - 1
      /\ Len(free) = Ram - (IF At("init rx") THEN 0 ELSE
                            IF At("init tx") THEN RingSize ELSE 2 * RingSize)
      /\ q = [v \in Queue |-> EmptyQueue]
      /\ dev = [v \in Queue |-> [next |-> 0, busy |-> <<>>]]
      /\ tx_desc_idx = 0 /\ cpu.frame = NULL /\ ~overrun
      /\ rings = [v \in Queue |-> rings[v]]
      /\ rings["rx"] = IF At("init rx") THEN NULL ELSE RingsBelow(Ram)
      /\ rings["tx"] = IF At("init rx") \/ At("init tx") THEN NULL ELSE RingsBelow(Ram - RingSize)
  BY <1>0, <1>1 DEF SetUp
<1>3. CASE w = "rx"
  <2>1. At("init rx") /\ Go("init tx")
    BY <1>3 DEF virtio_init_queue
  <2>0. Len(free) = Ram - 0
    BY <1>2, <2>1
  <2>2. Len(free) = Ram /\ RingSize <= Len(free)
    BY <1>0, <2>0, Memory, Sizes
  <2>3. /\ rings' = [rings EXCEPT ![w] = RingsBelow(Ram)]
        /\ Len(free)' = Ram - RingSize
        /\ \A k \in 1 .. Len(free)' : free'[k] = k - 1
        /\ pmm' \in [stack : Seq(Nat), total_frames : RamSizes] /\ Ram' = Ram
    BY <1>0, <1>2, <2>2, QueueTaken
  <2>4. cpu' \in CpuState /\ cpu'.at = "init tx" /\ cpu'.frame = cpu.frame
    BY <1>0, <2>1, Went DEF Label
  <2>5. ~At("init rx")' /\ At("init tx")' /\ ~Ready'
    BY <2>4 DEF At, Ready
  <2>6. /\ rings' = [v \in Queue |-> rings'[v]]
        /\ rings'["rx"] = RingsBelow(Ram') /\ rings'["tx"] = NULL
    BY <1>2, <1>3, <2>1, <2>3 DEF Queue
  <2>7. Shapes'
    BY <1>0, <1>1, <2>3, <2>4 DEF Shapes, CpuState
  <2>8. SetUp'
    BY <1>1, <1>2, <2>3, <2>4, <2>5, <2>6 DEF SetUp
  <2> QED
    BY <2>5, <2>7, <2>8 DEF NetInv
<1>4. CASE w = "tx"
  <2>1. At("init tx") /\ ~At("init rx") /\ Go("fill")
    BY <1>4 DEF virtio_init_queue, At
  <2>0. Len(free) = Ram - RingSize
    BY <1>2, <2>1
  <2>2. Len(free) = Ram - RingSize /\ RingSize <= Len(free) /\ Ram \in Nat /\ RingSize \in Nat
    BY <1>0, <2>0, Memory, Sizes
  <2>3. /\ rings' = [rings EXCEPT ![w] = RingsBelow(Ram - RingSize)]
        /\ Len(free)' = (Ram - RingSize) - RingSize
        /\ \A k \in 1 .. Len(free)' : free'[k] = k - 1
        /\ pmm' \in [stack : Seq(Nat), total_frames : RamSizes] /\ Ram' = Ram
    BY <1>0, <1>2, <2>2, QueueTaken
  <2>4. cpu' \in CpuState /\ cpu'.at = "fill" /\ cpu'.frame = cpu.frame
    BY <1>0, <2>1, Went DEF Label
  <2>5. ~At("init rx")' /\ ~At("init tx")' /\ ~Ready'
    BY <2>4 DEF At, Ready
  <2>6. /\ rings' = [v \in Queue |-> rings'[v]]
        /\ rings'["rx"] = RingsBelow(Ram') /\ rings'["tx"] = RingsBelow(Ram' - RingSize)
    BY <1>2, <1>4, <2>1, <2>3 DEF Queue
  <2>7. Shapes'
    BY <1>0, <1>1, <2>3, <2>4 DEF Shapes, CpuState
  <2>8. Len(free)' = Ram' - 2 * RingSize
    BY <2>2, <2>3
  <2>9. SetUp'
    BY <1>1, <1>2, <2>3, <2>4, <2>5, <2>6, <2>8 DEF SetUp
  <2> QED
    BY <2>5, <2>7, <2>9 DEF NetInv
<1> QED
  BY <1>3, <1>4 DEF Queue

\* net_rx_fill: every receive descriptor is available, in order, and the
\* spare frames are what is left.
LEMMA FillKeeps ==
  ASSUME NetInv, net_rx_fill
  PROVE  NetInv'
<1>0. Shapes /\ SetUp
  BY DEF NetInv
<1>1. /\ ~Ready /\ At("fill") /\ ~At("init rx") /\ ~At("init tx") /\ Go("thread") /\ Pop(QSize)
      /\ UNCHANGED <<rings, dev, tx_desc_idx, isr, overrun>>
  BY DEF net_rx_fill, At, Ready
<1>2. /\ \A k \in 1 .. Len(free) : free[k] = k - 1
      /\ Len(free) = Ram - 2 * RingSize
      /\ q = [v \in Queue |-> EmptyQueue]
      /\ dev = [v \in Queue |-> [next |-> 0, busy |-> <<>>]]
      /\ tx_desc_idx = 0 /\ cpu.frame = NULL /\ ~overrun
      /\ rings = [v \in Queue |-> rings[v]]
      /\ rings["rx"] = RingsBelow(Ram) /\ rings["tx"] = RingsBelow(Ram - RingSize)
  BY <1>0, <1>1 DEF SetUp
<1>3. /\ Ram \in Nat /\ Spare \in Nat /\ Ram = 2 * RingSize + QSize + Spare
      /\ QSize \in Nat \ {0} /\ RingSize \in Nat /\ Len(free) = QSize + Spare
  <2>1. Len(free) = Ram - 2 * RingSize
    BY <1>2
  <2>2. /\ Ram \in Nat /\ Spare \in Nat /\ Ram = 2 * RingSize + QSize + Spare
    BY <1>0, Memory
  <2> QED
    BY <2>1, <2>2, Sizes
<1>4. /\ pmm' \in [stack : Seq(Nat), total_frames : RamSizes] /\ Ram' = Ram
      /\ Len(free)' = Spare
      /\ \A k \in 1 .. Spare : free'[k] = k - 1
  <2>1. Len(free) - QSize = Spare
    BY <1>3
  <2>2. QSize \in Nat /\ QSize <= Len(free)
    BY <1>3
  <2>3. /\ pmm' \in [stack : Seq(Nat), total_frames : RamSizes] /\ Ram' = Ram
        /\ Len(free)' = Len(free) - QSize
        /\ \A k \in 1 .. Len(free) - QSize : free'[k] = free[k]
    BY <1>0, <1>1, <2>2, Popped
  <2>4. \A k \in 1 .. Spare : k \in 1 .. Len(free)
    BY <1>3
  <2>5. \A k \in 1 .. Spare : free'[k] = free[k]
    BY <2>1, <2>3
  <2> QED
    BY <1>2, <2>1, <2>3, <2>4, <2>5
<1>5. /\ cpu' \in CpuState /\ cpu'.at = "thread" /\ cpu'.frame = NULL
      /\ ~InPacket' /\ ~At("publish")' /\ Ready' /\ ~At("init rx")' /\ ~At("init tx")'
  BY <1>0, <1>1, <1>2, Went DEF Label, InPacket, At, Ready
<1> DEFINE buffers == [d \in Desc |-> Ram - 2 * RingSize - 1 - d]
           order == [s \in Desc |-> s]
           r == [q.rx EXCEPT !.desc = buffers, !.avail = order, !.avail_idx = QSize]
<1>6. \A d \in Desc : free[Len(free) - d] = Ram - 2 * RingSize - 1 - d
  <2> TAKE d \in Desc
  <2>0. d \in Nat /\ d < QSize
    BY <1>3 DEF Desc
  <2>1. Len(free) - d \in 1 .. Len(free) /\ (Len(free) - d) - 1 = Ram - 2 * RingSize - 1 - d
    BY <2>0, <1>3
  <2>2. \A k \in 1 .. Len(free) : free[k] = k - 1
    BY <1>2
  <2> QED
    BY <2>1, <2>2
<1>7. q' = [q EXCEPT !.rx = r]
  BY <1>6 DEF net_rx_fill
<1>8. buffers \in [Desc -> Nat \cup {NULL}] /\ order \in [Desc -> Desc] /\ QSize \in Idx
  BY <1>3, Sizes DEF Desc, Idx
<1>9. q.rx \in QueueState /\ q["rx"] = EmptyQueue /\ q["tx"] = EmptyQueue
  BY <1>0, <1>2 DEF Shapes, Queue
<1> HIDE DEF buffers, order
<1>10. /\ r \in QueueState /\ r.desc = buffers /\ r.avail = order /\ r.avail_idx = QSize
       /\ r.used_idx = 0 /\ r.last_used_idx = 0
  <2>1. q["rx"].used_idx = 0 /\ q["rx"].last_used_idx = 0 /\ q["rx"] \in QueueState
    BY <1>9 DEF EmptyQueue
  <2> QED
    BY <1>8, <2>1 DEF QueueState
<1> HIDE DEF r
<1>11. q' \in [Queue -> QueueState] /\ q'["rx"] = r /\ q'["tx"] = EmptyQueue
  BY <1>0, <1>7, <1>9, <1>10 DEF Shapes, Queue
<1>12. dev'["rx"] = [next |-> 0, busy |-> <<>>] /\ dev'["tx"] = [next |-> 0, busy |-> <<>>]
  BY <1>1, <1>2 DEF Queue
<1>13. 0 % IdxMod = 0 /\ QSize % IdxMod = QSize /\ Len(<<>>) = 0
  BY Sizes, SmallRemainder
<1>14. Shapes'
  BY <1>0, <1>1, <1>4, <1>5, <1>11 DEF Shapes, CpuState
<1>15. SetUp'
  BY <1>1, <1>2, <1>4, <1>5, <1>10, <1>11 DEF SetUp, buffers
<1>16. RxSound'
  <2>1. Positions("rx", 0, 0, 0, QSize)'
    BY <1>3, <1>10, <1>11, <1>12, <1>13 DEF Positions
  <2>2. \A i \in 0 .. QSize - 1 : Holder(i, 0, 0)' = i
    <3> TAKE i \in 0 .. QSize - 1
    <3>1. i \in Desc /\ i % QSize = i /\ ~(i < 0) /\ QSize \in Nat \ {0}
      BY <1>3, SmallRemainder DEF Desc
    <3>2. order[i] = i
      BY <3>1 DEF order
    <3> QED
      BY <3>1, <3>2, <1>10, <1>11 DEF Holder
  <2>4. \A i, j \in 0 .. QSize - 1 : (Holder(i, 0, 0) = Holder(j, 0, 0))' => i = j
    BY <2>2
  <2>5. \A d \in Desc : \E i \in 0 .. QSize - 1 : Holder(i, 0, 0)' = d
    BY <2>2 DEF Desc
  <2>6. 0 .. 0 - 1 = {} /\ 1 .. 0 - 0 = {} /\ QSize = 0 + QSize
    BY <1>3
  <2>3. RxAt(0, 0, 0, QSize)'
    BY <1>5, <2>1, <2>4, <2>5, <2>6 DEF RxAt
  <2> QED
    BY <1>3, <2>3 DEF RxSound
<1>17. TxSound'
  <2>1. Positions("tx", 0, 0, 0, 0)'
    BY <1>3, <1>11, <1>12, <1>13 DEF Positions, EmptyQueue
  <2>2. TxAt(0, 0, 0, 0)'
    BY <1>1, <1>2, <1>3, <1>5, <1>13, <2>1 DEF TxAt, At
  <2>3. Spare' = Spare
    BY <1>4 DEF Spare
  <2>4. FramesAt(0, 0)'
    <3>1. \A f \in 0 .. Spare - 1 : f + 1 \in 1 .. Spare /\ (f + 1) - 1 = f
      BY <1>3
    <3>2. \A f \in 0 .. Spare - 1 : \E k \in 1 .. Spare : free'[k] = f
      BY <1>4, <3>1
    <3>3. 0 .. 0 - 1 = {}
      OBVIOUS
    <3>4. \A k \in 1 .. Spare : free'[k] \in 0 .. Spare - 1
      BY <1>3, <1>4
    <3>5. \A j, k \in 1 .. Spare : free'[j] = free'[k] => j = k
      BY <1>3, <1>4
    <3>6. \A d \in Desc : q'["tx"].desc[d] = NULL
      BY <1>11 DEF EmptyQueue
    <3> QED
      BY <1>4, <1>5, <2>3, <3>2, <3>3, <3>4, <3>5, <3>6 DEF FramesAt
  <2>5. TxInOrder'
    BY <2>2, <2>4 DEF TxInOrder
  <2> QED
    BY <1>1, <1>2, <2>5 DEF TxSound
<1> QED
  BY <1>14, <1>15, <1>16, <1>17 DEF NetInv
------------------------------------------------------------------------------
\* What a queue is after a step that changes some of it.
LEMMA QueueChanged ==
  ASSUME Shapes, NEW w \in Queue, NEW r \in QueueState, q' = [q EXCEPT ![w] = r]
  PROVE  /\ q' \in [Queue -> QueueState] /\ q'[w] = r
         /\ \A v \in Queue : v # w => q'[v] = q[v]
BY DEF Shapes

\* What the device knows of a queue after a step of its own.
LEMMA DeviceChanged ==
  ASSUME Shapes, NEW w \in Queue, NEW i \in Idx, NEW b \in Seq(Buffer),
         dev' = [dev EXCEPT ![w] = [next |-> i, busy |-> b]]
  PROVE  /\ dev' \in [Queue -> [next : Idx, busy : Seq(Buffer)]]
         /\ dev'[w].next = i /\ dev'[w].busy = b
         /\ \A v \in Queue : v # w => dev'[v] = dev[v]
BY DEF Shapes

\* The types of the parts of a queue.
LEMMA Parts ==
  ASSUME Shapes, NEW w \in Queue
  PROVE  /\ q[w] \in QueueState /\ q[w].desc \in [Desc -> Nat \cup {NULL}]
         /\ q[w].avail \in [Desc -> Desc] /\ q[w].used \in [Desc -> Desc]
         /\ dev[w].next \in Idx /\ dev[w].busy \in Seq(Buffer)
BY DEF Shapes, QueueState

\* A fetch of the descriptor at position n of queue w.
FetchOf(w, l, u, n, a) ==
  /\ n < a
  /\ Shapes'
  /\ Positions(w, l, u, n + 1, a)'
  /\ \A v \in Queue : v # w => dev'[v] = dev[v]
  /\ \A j \in 1 .. n - u : dev'[w].busy[j] = dev[w].busy[j]
  /\ dev'[w].busy[n - u + 1].id = q[w].avail[n % QSize]
  /\ dev'[w].busy[n - u + 1].addr = q[w].desc[q[w].avail[n % QSize]]

\* Where the available buffer lies that the device fetches.
LEMMA FetchedAt ==
  ASSUME Shapes, NEW w \in Queue, Fetch(w),
         NEW l \in Nat, NEW u \in Nat, NEW n \in Nat, NEW a \in Nat, Positions(w, l, u, n, a),
         q[w].desc[q[w].avail[n % QSize]] \in Nat
  PROVE  FetchOf(w, l, u, n, a)
<1> DEFINE d == q[w].avail[n % QSize]
           e == [id |-> d, addr |-> q[w].desc[d]]
           b == dev[w].busy
<1>1. n < a
  BY DEF Fetch, Positions
<1>2. d \in Desc /\ q[w].desc[d] \in Nat
  BY Parts, PositionIs
<1>3. Slot(dev[w].next) = n % QSize /\ Inc(dev[w].next) = (n + 1) % IdxMod
      /\ (n + 1) % IdxMod \in Idx
  BY PositionIs DEF Positions
<1>4. e \in Buffer /\ e.id = d /\ e.addr = q[w].desc[d]
  BY <1>2 DEF Buffer
<1>5. b \in Seq(Buffer) /\ Len(b) = n - u
  BY Parts DEF Positions
<1>6. dev' = [dev EXCEPT ![w] = [next |-> (n + 1) % IdxMod, busy |-> Append(b, e)]]
  BY <1>3 DEF Fetch
<1> HIDE DEF e, b, d
<1>7. /\ Append(b, e) \in Seq(Buffer) /\ Len(Append(b, e)) = n - u + 1
      /\ \A j \in 1 .. n - u : Append(b, e)[j] = b[j]
      /\ Append(b, e)[n - u + 1] = e
  BY <1>4, <1>5, AppendProperties
<1>8. /\ dev' \in [Queue -> [next : Idx, busy : Seq(Buffer)]]
      /\ dev'[w].next = (n + 1) % IdxMod /\ dev'[w].busy = Append(b, e)
      /\ \A v \in Queue : v # w => dev'[v] = dev[v]
  BY <1>3, <1>6, <1>7, DeviceChanged
<1>9. Shapes'
  BY <1>8 DEF Shapes, Fetch, CpuState
<1>10. Positions(w, l, u, n + 1, a)'
  <2>1. u <= n + 1 /\ n + 1 <= a /\ n - u + 1 = (n + 1) - u
    BY <1>1 DEF Positions
  <2>2. q' = q /\ Len(dev'[w].busy) = (n + 1) - u
    BY <1>7, <1>8, <2>1 DEF Fetch
  <2> QED
    BY <1>8, <2>1, <2>2 DEF Positions
<1> QED
  BY <1>1, <1>4, <1>7, <1>8, <1>9, <1>10 DEF FetchOf, b, d

\* The device takes a receive buffer.
LEMMA FetchRxKeeps ==
  ASSUME NetInv, Fetch("rx")
  PROVE  NetInv'
<1>0. Shapes /\ SetUp /\ Ready /\ RxSound /\ TxSound /\ "rx" \in Queue /\ "tx" \in Queue
  BY DEF NetInv, Fetch, Queue
<1>1. PICK l \in Nat, u \in Nat, n \in Nat, a \in Nat : RxAt(l, u, n, a)
  BY <1>0 DEF RxSound
<1>2. UNCHANGED <<pmm, rings, q, tx_desc_idx, isr, cpu, overrun>>
  BY DEF Fetch
<1>3. Positions("rx", l, u, n, a)
  BY <1>1 DEF RxAt
<1>4. \A d \in Desc : q["rx"].desc[d] \in Nat
  <2>1. \A d \in Desc : Ram - 2 * RingSize - 1 - d \in Nat
    BY <1>0, Memory, Sizes DEF Desc
  <2> QED
    BY <1>0, <2>1 DEF SetUp
<1>5. q["rx"].avail[n % QSize] \in Desc
  BY <1>0, Parts, PositionIs
<1>6. /\ n < a
      /\ Shapes'
      /\ Positions("rx", l, u, n + 1, a)'
      /\ dev'["tx"] = dev["tx"]
      /\ \A j \in 1 .. n - u : dev'["rx"].busy[j] = dev["rx"].busy[j]
      /\ dev'["rx"].busy[n - u + 1].id = q["rx"].avail[n % QSize]
      /\ dev'["rx"].busy[n - u + 1].addr = q["rx"].desc[q["rx"].avail[n % QSize]]
  <2>1. q["rx"].desc[q["rx"].avail[n % QSize]] \in Nat
    BY <1>4, <1>5
  <2>2. FetchOf("rx", l, u, n, a)
    BY <1>0, <1>3, <2>1, FetchedAt
  <2>3. dev'["tx"] = dev["tx"]
    BY <1>0, <2>2 DEF FetchOf
  <2> QED
    BY <2>2, <2>3 DEF FetchOf
<1>7. ASSUME NEW i \in l .. a - 1 PROVE Holder(i, u, n + 1)' = Holder(i, u, n)
  <2>0. l <= u /\ u <= n
    BY <1>3 DEF Positions
  <2>1. CASE i < u
    <3>1. i < n + 1
      BY <2>0, <2>1
    <3> QED
      BY <1>2, <2>1, <3>1 DEF Holder
  <2>2. CASE u <= i /\ i < n
    <3>1. i < n + 1 /\ ~(i < u) /\ i - u + 1 \in 1 .. n - u
      BY <2>0, <2>2
    <3> QED
      BY <1>2, <1>6, <2>2, <3>1 DEF Holder
  <2>3. CASE i = n
    <3>1. i < n + 1 /\ ~(i < u) /\ ~(i < n) /\ i - u + 1 = n - u + 1
      BY <2>0, <2>3
    <3> QED
      BY <1>2, <1>6, <2>3, <3>1 DEF Holder
  <2>4. CASE i > n
    <3>1. ~(i < n + 1) /\ ~(i < u) /\ ~(i < n)
      BY <2>0, <2>4
    <3> QED
      BY <1>2, <3>1 DEF Holder
  <2> QED
    BY <2>1, <2>2, <2>3, <2>4
<1>8. RxAt(l, u, n + 1, a)'
  <2>1. \A k \in 1 .. (n + 1) - u :
          dev'["rx"].busy[k].addr = q'["rx"].desc[dev'["rx"].busy[k].id]
    <3> TAKE k \in 1 .. (n + 1) - u
    <3>1. CASE k \in 1 .. n - u
      BY <1>1, <1>2, <1>6, <3>1 DEF RxAt
    <3>2. CASE k = n - u + 1
      BY <1>2, <1>6, <3>2
    <3> QED
      BY <3>1, <3>2
  <2>2. InPacket' => l < u /\ cpu'.id = q'["rx"].used[l % QSize]
    BY <1>1, <1>2 DEF RxAt, InPacket
  <2>3. a = l + QSize /\ Positions("rx", l, u, n + 1, a)'
    BY <1>1, <1>6 DEF RxAt
  <2>4. \A i, j \in l .. a - 1 : Holder(i, u, n + 1)' = Holder(j, u, n + 1)' => i = j
    BY <1>1, <1>7 DEF RxAt
  <2>5. \A d \in Desc : \E i \in l .. a - 1 : Holder(i, u, n + 1)' = d
    BY <1>1, <1>7 DEF RxAt
  <2> QED
    BY <2>1, <2>2, <2>3, <2>4, <2>5 DEF RxAt
<1>9. TxSound'
  BY <1>0, <1>2, <1>6, TxKept DEF At
<1>10. Ready' /\ SetUp'
  BY <1>0, <1>2, SetUpKept DEF Ready, Ram
<1>11. RxSound'
  <2>1. n + 1 \in Nat
    OBVIOUS
  <2> QED
    BY <1>8, <2>1 DEF RxSound
<1> QED
  BY <1>6, <1>9, <1>10, <1>11 DEF NetInv

\* The spare frames stay where they are when nothing touches them.
LEMMA FramesKept ==
  ASSUME NEW l \in Nat, NEW a \in Nat, FramesAt(l, a), pmm' = pmm, cpu' = cpu,
         q'["tx"].desc = q["tx"].desc
  PROVE  FramesAt(l, a)'
BY DEF FramesAt, At, Spare, Ram, free

\* Where frames come from after an overrun.
Places == {free[k] : k \in 1 .. Len(free)} \cup {q["tx"].desc[d] : d \in Desc}

\* A step that only moves frames between the stack, the descriptors, the device
\* and net_send's hand does not find the lost one.
LEMMA OverrunKept ==
  ASSUME TxOverrun, Ram' = Ram, Len(free)' <= Ram, tx_desc_idx' = q'["tx"].avail_idx,
         \A k \in 1 .. Len(free)' : free'[k] \in Places,
         \A d \in Desc : q'["tx"].desc[d] \in Places,
         \A k \in 1 .. Len(dev["tx"].busy)' :
           \/ dev'["tx"].busy[k].addr \in Places
           \/ \E j \in 1 .. Len(dev["tx"].busy) : dev'["tx"].busy[k].addr = dev["tx"].busy[j].addr,
         cpu'.frame \in Places \cup {cpu.frame, NULL}
  PROVE  TxOverrun'
<1>1. Spare' = Spare
  BY DEF Spare
<1>2. PICK f \in Nat : Lost(f)
  BY DEF TxOverrun
<1>3. \A g \in Places : g \in 0 .. Spare - 1 /\ g # f
  BY <1>2 DEF TxOverrun, Places, Lost
<1>4. cpu.frame \in (0 .. Spare - 1) \cup {NULL} /\ cpu.frame # f /\ NULL # f
  BY <1>2, Sizes DEF TxOverrun, Lost
<1>5. cpu'.frame \in (0 .. Spare - 1) \cup {NULL} /\ cpu'.frame # f
  BY <1>3, <1>4
<1>6. Lost(f)'
  BY <1>1, <1>2, <1>3, <1>5 DEF Lost
<1>7. \A k \in 1 .. Len(dev["tx"].busy)' : dev'["tx"].busy[k].addr \in 0 .. Spare - 1
  BY <1>3 DEF TxOverrun
<1> QED
  BY <1>1, <1>3, <1>5, <1>6, <1>7 DEF TxOverrun

\* The device takes a reply after an overrun,
LEMMA FetchTxOverrun ==
  ASSUME NetInv, overrun, Fetch("tx")
  PROVE  NetInv'
<1>0. Shapes /\ SetUp /\ Ready /\ RxSound /\ TxOverrun /\ "rx" \in Queue /\ "tx" \in Queue
  BY DEF NetInv, Fetch, Queue, TxSound
<1>1. UNCHANGED <<pmm, rings, q, tx_desc_idx, isr, cpu, overrun>>
  BY DEF Fetch
<1>2. PICK b \in Seq(Buffer), i \in Idx : b = dev["tx"].busy /\ i = dev["tx"].next
  BY <1>0, Parts
<1>3. PICK d \in Desc : d = q["tx"].avail[Slot(i)]
  <2>1. Slot(i) \in Desc
    <3>1. i \in Nat
      BY DEF Idx
    <3> QED
      BY <3>1, PositionIs DEF Slot
  <2> QED
    BY <1>0, <2>1, Parts
<1>4. PICK g \in Nat : g = q["tx"].desc[d]
  BY <1>0 DEF TxOverrun
<1> DEFINE e == [id |-> d, addr |-> g]
<1>5. e \in Buffer /\ e.addr = g
  BY DEF Buffer
<1>6. dev' = [dev EXCEPT !["tx"] = [next |-> Inc(i), busy |-> Append(b, e)]]
  BY <1>2, <1>3, <1>4 DEF Fetch
<1> HIDE DEF e
<1>7. /\ Append(b, e) \in Seq(Buffer) /\ Len(Append(b, e)) = Len(b) + 1
      /\ \A j \in 1 .. Len(b) : Append(b, e)[j] = b[j]
      /\ Append(b, e)[Len(b) + 1] = e /\ Len(b) \in Nat
  BY <1>5, AppendProperties
<1>8. /\ dev' \in [Queue -> [next : Idx, busy : Seq(Buffer)]]
      /\ dev'["tx"].busy = Append(b, e) /\ dev'["rx"] = dev["rx"]
  <2>1. Inc(i) \in Idx
    BY IncIs
  <2> QED
    BY <1>0, <1>6, <1>7, <2>1, DeviceChanged
<1>9. Shapes'
  BY <1>0, <1>1, <1>8 DEF Shapes
<1>10. \A k \in 1 .. Len(b) + 1 : k \in 1 .. Len(b) \/ k = Len(b) + 1
  BY <1>7
<1>11. TxOverrun'
  <2>1. free' = free /\ Ram' = Ram
    BY <1>1 DEF free, Ram
  <2>2. g \in Places
    BY <1>4 DEF Places
  <2>3. \A k \in 1 .. Len(dev["tx"].busy)' :
          \/ dev'["tx"].busy[k].addr \in Places
          \/ \E j \in 1 .. Len(dev["tx"].busy) : dev'["tx"].busy[k].addr = dev["tx"].busy[j].addr
    BY <1>2, <1>5, <1>7, <1>8, <1>10, <2>2
  <2>4. /\ \A k \in 1 .. Len(free) : free[k] \in Places
        /\ \A c \in Desc : q["tx"].desc[c] \in Places
    BY DEF Places
  <2>5. Len(free)' <= Ram /\ tx_desc_idx' = q'["tx"].avail_idx
    BY <1>0, <1>1, <2>1 DEF TxOverrun
  <2> QED
    BY <1>0, <1>1, <2>1, <2>3, <2>4, <2>5, OverrunKept
<1>12. RxSound'
  BY <1>0, <1>1, <1>8, RxKept DEF InPacket
<1>13. Ready' /\ SetUp'
  BY <1>0, <1>1, SetUpKept DEF Ready, Ram
<1> QED
  BY <1>1, <1>9, <1>11, <1>12, <1>13 DEF NetInv, TxSound

\* ... and before one.
LEMMA FetchTxKeeps ==
  ASSUME NetInv, ~overrun, Fetch("tx")
  PROVE  NetInv'
<1>0. Shapes /\ SetUp /\ Ready /\ RxSound /\ TxSound /\ "rx" \in Queue /\ "tx" \in Queue
  BY DEF NetInv, Fetch, Queue
<1>1. PICK l \in Nat, u \in Nat, n \in Nat, a \in Nat : TxAt(l, u, n, a) /\ FramesAt(l, a)
  BY <1>0 DEF TxSound, TxInOrder
<1>2. UNCHANGED <<pmm, rings, q, tx_desc_idx, isr, cpu, overrun>>
  BY DEF Fetch
<1>3. Positions("tx", l, u, n, a)
  BY <1>1 DEF TxAt
<1>4. n \in l .. a - 1
  BY <1>3 DEF Positions, Fetch
<1>5. q["tx"].avail[n % QSize] = n % QSize /\ q["tx"].desc[n % QSize] \in Nat
  BY <1>1, <1>4 DEF TxAt, FramesAt
<1>6. /\ n < a
      /\ Shapes'
      /\ Positions("tx", l, u, n + 1, a)'
      /\ dev'["rx"] = dev["rx"]
      /\ \A j \in 1 .. n - u : dev'["tx"].busy[j] = dev["tx"].busy[j]
      /\ dev'["tx"].busy[n - u + 1].id = n % QSize
      /\ dev'["tx"].busy[n - u + 1].addr = q["tx"].desc[n % QSize]
  <2>1. q["tx"].desc[q["tx"].avail[n % QSize]] \in Nat
    BY <1>5
  <2>2. FetchOf("tx", l, u, n, a)
    BY <1>0, <1>3, <2>1, FetchedAt
  <2>3. dev'["rx"] = dev["rx"]
    BY <1>0, <2>2 DEF FetchOf
  <2> QED
    BY <1>5, <2>2, <2>3 DEF FetchOf
<1>7. TxAt(l, u, n + 1, a)'
  <2>1. ASSUME NEW i \in u .. (n + 1) - 1
        PROVE  /\ dev'["tx"].busy[i - u + 1].id = i % QSize
               /\ dev'["tx"].busy[i - u + 1].addr = q["tx"].desc[i % QSize]
    <3>1. CASE i \in u .. n - 1
      <4>1. i - u + 1 \in 1 .. n - u
        BY <1>3, <3>1 DEF Positions
      <4> QED
        BY <1>1, <1>6, <3>1, <4>1 DEF TxAt
    <3>2. CASE i = n
      BY <1>6, <3>2
    <3> QED
      BY <3>1, <3>2
  <2> QED
    BY <1>1, <1>2, <1>6, <2>1 DEF TxAt, At
<1>8. FramesAt(l, a)'
  BY <1>1, <1>2, FramesKept
<1>9. RxSound'
  BY <1>0, <1>2, <1>6, RxKept DEF InPacket
<1>10. Ready' /\ SetUp'
  BY <1>0, <1>2, SetUpKept DEF Ready, Ram
<1>11. TxSound'
  <2>1. n + 1 \in Nat
    OBVIOUS
  <2>2. TxInOrder'
    BY <1>7, <1>8, <2>1 DEF TxInOrder
  <2> QED
    BY <1>2, <2>2 DEF TxSound
<1> QED
  BY <1>6, <1>9, <1>10, <1>11 DEF NetInv
------------------------------------------------------------------------------
\* Taking the k-th buffer out of those that the device works on.
Without(b, k) == SubSeq(b, 1, k - 1) \o SubSeq(b, k + 1, Len(b))

\* What is left, and where.
LEMMA Removed ==
  ASSUME NEW S, NEW b \in Seq(S), NEW k \in 1 .. Len(b)
  PROVE  /\ Without(b, k) \in Seq(S) /\ Len(Without(b, k)) = Len(b) - 1
         /\ \A j \in 1 .. k - 1 : Without(b, k)[j] = b[j]
         /\ \A j \in k .. Len(b) - 1 : Without(b, k)[j] = b[j + 1]
<1> DEFINE t == Without(b, k)
<1>1. PICK z \in Nat : z = Len(b) /\ k \in Nat /\ 1 <= k /\ k <= z
  OBVIOUS
<1> DEFINE x == SubSeq(b, 1, k - 1)
           y == SubSeq(b, k + 1, z)
<1>2. \A i \in 1 .. z : b[i] \in S
  BY <1>1
<1>3. /\ x \in Seq(S) /\ Len(x) = k - 1 /\ \A j \in 1 .. k - 1 : x[j] = b[j]
  <2>1. PICK m \in Nat : m = k - 1 /\ m <= z
    BY <1>1
  <2>2. /\ 1 \in Int /\ m \in Int /\ m - 1 + 1 = m
        /\ \A i \in 1 .. m : 1 + i - 1 = i /\ b[i] \in S
    BY <1>2, <2>1
  <2>3. /\ SubSeq(b, 1, m) \in Seq(S)
        /\ Len(SubSeq(b, 1, m)) = IF 1 <= m THEN m - 1 + 1 ELSE 0
        /\ \A i \in 1 .. m - 1 + 1 : SubSeq(b, 1, m)[i] = b[1 + i - 1]
    BY <2>2, SubSeqProperties
  <2>4. x = SubSeq(b, 1, m)
    BY <2>1
  <2> HIDE DEF x
  <2>5. Len(x) = m /\ \A i \in 1 .. m : x[i] = b[i]
    BY <2>2, <2>3, <2>4
  <2> QED
    BY <2>1, <2>3, <2>4, <2>5
<1>4. /\ y \in Seq(S) /\ Len(y) = z - k /\ \A j \in 1 .. z - k : y[j] = b[k + j]
  <2>0. k + 1 \in Nat /\ z - k \in Nat
    BY <1>1
  <2>1. PICK m \in Nat, o \in Nat : m = k + 1 /\ o = z - k
    BY <2>0
  <2>2. /\ m \in Int /\ z \in Int /\ z - m + 1 = o
        /\ \A i \in m .. z : b[i] \in S
        /\ \A i \in 1 .. o : m + i - 1 = k + i
    BY <1>1, <1>2, <2>1
  <2>3. /\ SubSeq(b, m, z) \in Seq(S)
        /\ Len(SubSeq(b, m, z)) = IF m <= z THEN z - m + 1 ELSE 0
        /\ \A i \in 1 .. z - m + 1 : SubSeq(b, m, z)[i] = b[m + i - 1]
    BY <2>2, SubSeqProperties
  <2>4. y = SubSeq(b, m, z)
    BY <2>1
  <2> HIDE DEF y
  <2>5. Len(y) = o /\ \A i \in 1 .. o : y[i] = b[k + i]
    BY <1>1, <2>1, <2>2, <2>3, <2>4
  <2> QED
    BY <2>1, <2>3, <2>4, <2>5
<1>5. t = x \o y
  BY <1>1 DEF Without
<1> HIDE DEF x, y, t
<1>6. /\ t \in Seq(S) /\ Len(t) = Len(x) + Len(y)
      /\ \A i \in 1 .. Len(x) + Len(y) : t[i] = IF i <= Len(x) THEN x[i] ELSE y[i - Len(x)]
  <2>1. x \in Seq(S) /\ y \in Seq(S)
    BY <1>3, <1>4
  <2>2. /\ x \o y \in Seq(S) /\ Len(x \o y) = Len(x) + Len(y)
        /\ \A i \in 1 .. Len(x) + Len(y) :
             (x \o y)[i] = IF i <= Len(x) THEN x[i] ELSE y[i - Len(x)]
    BY <2>1, ConcatProperties
  <2> QED
    BY <1>5, <2>2
<1>7. Len(t) = z - 1
  <2>1. Len(x) + Len(y) = z - 1
    BY <1>1, <1>3, <1>4
  <2> QED
    BY <1>6, <2>1
<1>8. ASSUME NEW j \in 1 .. k - 1 PROVE t[j] = b[j]
  <2>1. j \in 1 .. Len(x) + Len(y) /\ j <= Len(x)
    BY <1>1, <1>3, <1>4
  <2> QED
    BY <1>3, <1>6, <2>1
<1>9. ASSUME NEW j \in k .. z - 1 PROVE t[j] = b[j + 1]
  <2>1. /\ j \in 1 .. Len(x) + Len(y) /\ ~(j <= Len(x)) /\ j - Len(x) = j - (k - 1)
        /\ j - (k - 1) \in 1 .. z - k /\ k + (j - (k - 1)) = j + 1
    BY <1>1, <1>3, <1>4
  <2>2. t[j] = y[j - (k - 1)]
    BY <1>6, <2>1
  <2> QED
    BY <1>4, <2>1, <2>2
<1> QED
  BY <1>1, <1>6, <1>7, <1>8, <1>9 DEF t

\* Writing an entry of a used ring.
WithUsed(r, s, d, i) == [r EXCEPT !.used[s] = d, !.used_idx = i]

\* The rest of the queue stays.
LEMMA UsedWritten ==
  ASSUME NEW r \in QueueState, NEW s \in Desc, NEW d \in Desc, NEW i \in Idx
  PROVE  /\ WithUsed(r, s, d, i) \in QueueState
         /\ WithUsed(r, s, d, i).used_idx = i
         /\ WithUsed(r, s, d, i).desc = r.desc
         /\ WithUsed(r, s, d, i).avail = r.avail
         /\ WithUsed(r, s, d, i).avail_idx = r.avail_idx
         /\ WithUsed(r, s, d, i).last_used_idx = r.last_used_idx
         /\ WithUsed(r, s, d, i).used[s] = d
         /\ \A z \in Desc : z # s => WithUsed(r, s, d, i).used[z] = r.used[z]
<1> DEFINE t == WithUsed(r, s, d, i)
<1>1. r.used \in [Desc -> Desc]
  BY DEF QueueState
<1>2. [r.used EXCEPT ![s] = d] \in [Desc -> Desc]
  BY <1>1
<1>3. t = [r EXCEPT !.used = [r.used EXCEPT ![s] = d], !.used_idx = i]
  BY DEF WithUsed
<1> DEFINE v == [r.used EXCEPT ![s] = d]
<1>4. t = [r EXCEPT !.used = v, !.used_idx = i] /\ v \in [Desc -> Desc]
  BY <1>2, <1>3
<1>5. v[s] = d /\ \A z \in Desc : z # s => v[z] = r.used[z]
  BY <1>1
<1> HIDE DEF v, t
<1>6. /\ t \in QueueState /\ t.used_idx = i /\ t.desc = r.desc
      /\ t.avail = r.avail /\ t.avail_idx = r.avail_idx /\ t.last_used_idx = r.last_used_idx
      /\ t.used[s] = d /\ \A z \in Desc : z # s => t.used[z] = r.used[z]
  BY <1>4, <1>5 DEF QueueState
<1> QED
  BY <1>6 DEF t

\* The device is done with its k-th buffer.
UseOf(w, k) ==
  /\ dev' = [dev EXCEPT ![w] = [next |-> dev[w].next, busy |-> Without(dev[w].busy, k)]]
  /\ q' = [q EXCEPT ![w] =
             WithUsed(q[w], Slot(q[w].used_idx), dev[w].busy[k].id, Inc(q[w].used_idx))]
  /\ isr' = TRUE /\ UNCHANGED <<pmm, rings, tx_desc_idx, cpu, overrun>>

Returned(w, k, l, u, n, a) ==
  /\ k \in 1 .. n - u
  /\ Shapes'
  /\ Positions(w, l, u + 1, n, a)'
  /\ \A v \in Queue : v # w => dev'[v] = dev[v] /\ q'[v] = q[v]
  /\ q'[w].desc = q[w].desc /\ q'[w].avail = q[w].avail
  /\ q'[w].used[u % QSize] = dev[w].busy[k].id
  /\ \A i \in l .. u - 1 : q'[w].used[i % QSize] = q[w].used[i % QSize]
  /\ \A j \in 1 .. k - 1 : dev'[w].busy[j] = dev[w].busy[j]
  /\ \A j \in k .. n - u - 1 : dev'[w].busy[j] = dev[w].busy[j + 1]

\* Use(w) for the k-th buffer: one more used, one less with the device.
LEMMA UsedAt ==
  ASSUME Shapes, NEW w \in Queue, NEW k \in DOMAIN dev[w].busy, UseOf(w, k),
         NEW l \in Nat, NEW u \in Nat, NEW n \in Nat, NEW a \in Nat, Positions(w, l, u, n, a)
  PROVE  Returned(w, k, l, u, n, a)
<1> DEFINE b == dev[w].busy
           t == Without(b, k)
           r == WithUsed(q[w], u % QSize, b[k].id, (u + 1) % IdxMod)
<1>1. b \in Seq(Buffer) /\ Len(b) = n - u /\ dev[w].next \in Idx /\ q[w] \in QueueState
  BY Parts DEF Positions
<1>2. k \in 1 .. n - u
  BY <1>1
<1>3. b[k] \in Buffer /\ b[k].id \in Desc
  <2> HIDE DEF b
  <2>1. b[k] \in Buffer
    BY <1>1, <1>2
  <2> QED
    BY <2>1 DEF Buffer
<1>4. /\ t \in Seq(Buffer) /\ Len(t) = n - u - 1
      /\ \A j \in 1 .. k - 1 : t[j] = b[j]
      /\ \A j \in k .. n - u - 1 : t[j] = b[j + 1]
  <2>1. k \in 1 .. Len(b)
    BY <1>1, <1>2
  <2> HIDE DEF b
  <2>2. /\ t \in Seq(Buffer) /\ Len(t) = Len(b) - 1
        /\ \A j \in 1 .. k - 1 : t[j] = b[j]
        /\ \A j \in k .. Len(b) - 1 : t[j] = b[j + 1]
    BY <1>1, <2>1, Removed
  <2> QED
    BY <1>1, <2>2
<1>5. /\ Slot(q[w].used_idx) = u % QSize /\ Inc(q[w].used_idx) = (u + 1) % IdxMod
      /\ u % QSize \in Desc /\ (u + 1) % IdxMod \in Idx
  <2>1. u + 1 \in Nat
    OBVIOUS
  <2> QED
    BY <2>1, PositionIs DEF Positions
<1>6. dev' = [dev EXCEPT ![w] = [next |-> dev[w].next, busy |-> t]]
  BY DEF UseOf
<1>7. q' = [q EXCEPT ![w] = r]
  BY <1>5 DEF UseOf
<1>8. /\ r \in QueueState /\ r.used_idx = (u + 1) % IdxMod /\ r.desc = q[w].desc
      /\ r.avail = q[w].avail /\ r.avail_idx = q[w].avail_idx
      /\ r.last_used_idx = q[w].last_used_idx
      /\ r.used[u % QSize] = b[k].id
      /\ \A z \in Desc : z # u % QSize => r.used[z] = q[w].used[z]
  <2> HIDE DEF b
  <2>1. PICK x \in QueueState, s \in Desc, d \in Desc, i \in Idx :
          x = q[w] /\ s = u % QSize /\ d = b[k].id /\ i = (u + 1) % IdxMod
    BY <1>1, <1>3, <1>5
  <2>2. r = WithUsed(x, s, d, i)
    BY <2>1
  <2> HIDE DEF r
  <2>3. /\ r \in QueueState /\ r.used_idx = i /\ r.desc = x.desc
        /\ r.avail = x.avail /\ r.avail_idx = x.avail_idx
        /\ r.last_used_idx = x.last_used_idx
        /\ r.used[s] = d
        /\ \A z \in Desc : z # s => r.used[z] = x.used[z]
    BY <2>2, UsedWritten
  <2> QED
    BY <2>1, <2>3
<1> HIDE DEF b, t, r
<1>9. /\ q' \in [Queue -> QueueState] /\ q'[w] = r
      /\ \A v \in Queue : v # w => q'[v] = q[v]
  BY <1>7, <1>8, QueueChanged
<1>10. /\ dev' \in [Queue -> [next : Idx, busy : Seq(Buffer)]]
       /\ dev'[w].next = dev[w].next /\ dev'[w].busy = t
       /\ \A v \in Queue : v # w => dev'[v] = dev[v]
  BY <1>1, <1>4, <1>6, DeviceChanged
<1>11. Shapes'
  BY <1>9, <1>10 DEF Shapes, CpuState, UseOf
<1>12. l <= u /\ u + 1 <= n /\ n <= a /\ a <= l + QSize /\ n - u - 1 = n - (u + 1)
  BY <1>2 DEF Positions
<1>13. Positions(w, l, u + 1, n, a)'
  <2>1. l <= u + 1
    BY <1>12
  <2>2. Len(dev'[w].busy) = n - (u + 1)
    BY <1>4, <1>10, <1>12
  <2> QED
    BY <1>8, <1>9, <1>10, <1>12, <2>1, <2>2 DEF Positions
<1>14. ASSUME NEW i \in l .. u - 1 PROVE r.used[i % QSize] = q[w].used[i % QSize]
  <2>2. QSize \in Nat \ {0}
    BY Sizes
  <2>0. QSize \in Nat \ {0} /\ u <= l + QSize
    BY <1>12, <2>2
  <2>1. i \in Nat /\ i < u + QSize /\ u < i + QSize /\ i # u
    BY <1>12, <2>0
  <2>3. i % QSize \in Desc /\ i % QSize # u % QSize
    BY <2>1, PositionIs, SlotsDiffer
  <2> QED
    BY <1>8, <2>3
<1> QED
  BY <1>2, <1>4, <1>8, <1>9, <1>10, <1>11, <1>13, <1>14 DEF b, Returned

\* The used receive buffer moves to the end of the used ones, those that the
\* device had taken before it move up.
LEMMA UseRxKeeps ==
  ASSUME NetInv, Use("rx"), Ready
  PROVE  NetInv'
<1>0. Shapes /\ SetUp /\ RxSound /\ TxSound /\ "rx" \in Queue /\ "tx" \in Queue
  BY DEF NetInv, Queue
<1>1. PICK l \in Nat, u \in Nat, n \in Nat, a \in Nat : RxAt(l, u, n, a)
  BY <1>0 DEF RxSound
<1>2. UNCHANGED <<pmm, rings, tx_desc_idx, cpu, overrun>>
  BY DEF Use
<1>3. Positions("rx", l, u, n, a)
  BY <1>1 DEF RxAt
<1>4. PICK k \in DOMAIN dev["rx"].busy :
        /\ k \in 1 .. n - u
        /\ Shapes'
        /\ Positions("rx", l, u + 1, n, a)'
        /\ dev'["tx"] = dev["tx"] /\ q'["tx"] = q["tx"]
        /\ q'["rx"].desc = q["rx"].desc /\ q'["rx"].avail = q["rx"].avail
        /\ q'["rx"].used[u % QSize] = dev["rx"].busy[k].id
        /\ \A i \in l .. u - 1 : q'["rx"].used[i % QSize] = q["rx"].used[i % QSize]
        /\ \A j \in 1 .. k - 1 : dev'["rx"].busy[j] = dev["rx"].busy[j]
        /\ \A j \in k .. n - u - 1 : dev'["rx"].busy[j] = dev["rx"].busy[j + 1]
  <2>1. PICK k \in DOMAIN dev["rx"].busy : UseOf("rx", k)
    BY DEF Use, UseOf, Without, WithUsed
  <2>2. Returned("rx", k, l, u, n, a)
    BY <1>0, <1>3, <2>1, UsedAt
  <2> QED
    BY <1>0, <2>2 DEF Returned
<1>5. /\ k \in Nat /\ 1 <= k /\ k <= n - u
      /\ l <= u /\ u < n /\ n <= a /\ a <= l + QSize
  BY <1>3, <1>4 DEF Positions
<1> DEFINE s == [i \in l .. a - 1 |->
                   IF i = u THEN u + k - 1 ELSE IF u < i /\ i < u + k THEN i - 1 ELSE i]
<1>6. /\ s \in [l .. a - 1 -> l .. a - 1]
      /\ \A i, j \in l .. a - 1 : s[i] = s[j] => i = j
      /\ \A i \in l .. a - 1 : \E j \in l .. a - 1 : s[j] = i
  <2>1. s \in [l .. a - 1 -> l .. a - 1]
    BY <1>5
  <2>2. \A i, j \in l .. a - 1 : s[i] = s[j] => i = j
    BY <1>5
  <2>3. ASSUME NEW i \in l .. a - 1 PROVE \E j \in l .. a - 1 : s[j] = i
    <3>1. CASE i = u + k - 1
      <4>1. u \in l .. a - 1 /\ s[u] = i
        BY <1>5, <3>1
      <4> QED
        BY <4>1
    <3>2. CASE u <= i /\ i < u + k - 1
      <4>1. i + 1 \in l .. a - 1 /\ s[i + 1] = i
        BY <1>5, <3>2
      <4> QED
        BY <4>1
    <3>3. CASE i < u \/ i > u + k - 1
      <4>1. s[i] = i
        BY <1>5, <3>3
      <4> QED
        BY <4>1
    <3> QED
      BY <1>5, <3>1, <3>2, <3>3
  <2> QED
    BY <2>1, <2>2, <2>3
<1>7. ASSUME NEW i \in l .. a - 1 PROVE Holder(i, u + 1, n)' = Holder(s[i], u, n)
  <2>1. CASE i < u
    <3>1. i < u + 1 /\ s[i] = i /\ i \in l .. u - 1
      BY <1>5, <2>1
    <3> HIDE DEF s
    <3> QED
      BY <1>4, <2>1, <3>1 DEF Holder
  <2>2. CASE i = u
    <3>1. /\ i < u + 1 /\ s[i] = u + k - 1 /\ ~(u + k - 1 < u) /\ u + k - 1 < n
          /\ u + k - 1 - u + 1 = k
      BY <1>5, <2>2
    <3> HIDE DEF s
    <3> QED
      BY <1>4, <2>2, <3>1 DEF Holder
  <2>3. CASE u < i /\ i < u + k
    <3>1. /\ ~(i < u + 1) /\ i < n /\ s[i] = i - 1 /\ ~(i - 1 < u) /\ i - 1 < n
          /\ i - (u + 1) + 1 = i - u /\ i - u \in 1 .. k - 1 /\ i - 1 - u + 1 = i - u
      BY <1>5, <2>3
    <3> HIDE DEF s
    <3>2. Holder(i, u + 1, n)' = dev'["rx"].busy[i - u].id
      BY <3>1 DEF Holder
    <3>3. Holder(i - 1, u, n) = dev["rx"].busy[i - u].id
      BY <3>1 DEF Holder
    <3> QED
      BY <1>4, <3>1, <3>2, <3>3
  <2>4. CASE u + k <= i /\ i < n
    <3>1. /\ ~(i < u + 1) /\ s[i] = i /\ ~(i < u) /\ i - (u + 1) + 1 = i - u
          /\ i - u \in k .. n - u - 1
      BY <1>5, <2>4
    <3> HIDE DEF s
    <3>2. Holder(i, u + 1, n)' = dev'["rx"].busy[i - u].id
      BY <2>4, <3>1 DEF Holder
    <3>3. Holder(i, u, n) = dev["rx"].busy[i - u + 1].id
      BY <2>4, <3>1 DEF Holder
    <3> QED
      BY <1>4, <3>1, <3>2, <3>3
  <2>5. CASE n <= i
    <3>1. ~(i < u + 1) /\ ~(i < u) /\ ~(i < n) /\ s[i] = i
      BY <1>5, <2>5
    <3> HIDE DEF s
    <3> QED
      BY <1>4, <3>1 DEF Holder
  <2> QED
    BY <1>5, <2>1, <2>2, <2>3, <2>4, <2>5
<1> HIDE DEF s
<1>8. /\ \A i, j \in l .. a - 1 : (Holder(i, u + 1, n) = Holder(j, u + 1, n))' => i = j
      /\ \A d \in Desc : \E i \in l .. a - 1 : Holder(i, u + 1, n)' = d
  <2>1. /\ \A i, j \in l .. a - 1 : Holder(i, u, n) = Holder(j, u, n) => i = j
        /\ \A d \in Desc : \E i \in l .. a - 1 : Holder(i, u, n) = d
    BY <1>1 DEF RxAt
  <2>2. ASSUME NEW i \in l .. a - 1, NEW j \in l .. a - 1,
               (Holder(i, u + 1, n) = Holder(j, u + 1, n))'
        PROVE  i = j
    <3>1. Holder(s[i], u, n) = Holder(s[j], u, n) /\ s[i] \in l .. a - 1 /\ s[j] \in l .. a - 1
      BY <1>6, <1>7, <2>2
    <3> QED
      BY <1>6, <2>1, <3>1
  <2>3. ASSUME NEW d \in Desc PROVE \E i \in l .. a - 1 : Holder(i, u + 1, n)' = d
    <3>1. PICK i \in l .. a - 1 : Holder(i, u, n) = d
      BY <2>1
    <3>2. PICK j \in l .. a - 1 : s[j] = i
      BY <1>6
    <3> QED
      BY <1>7, <3>1, <3>2
  <2> QED
    BY <2>2, <2>3
<1>9. RxAt(l, u + 1, n, a)'
  <2>1. ASSUME NEW j \in 1 .. n - (u + 1)
        PROVE  dev'["rx"].busy[j].addr = q'["rx"].desc[dev'["rx"].busy[j].id]
    <3>0. \A i \in 1 .. n - u : dev["rx"].busy[i].addr = q["rx"].desc[dev["rx"].busy[i].id]
      BY <1>1 DEF RxAt
    <3>1. CASE j < k
      <4>1. j \in 1 .. k - 1 /\ j \in 1 .. n - u
        BY <1>5, <3>1
      <4> QED
        BY <1>4, <3>0, <4>1
    <3>2. CASE k <= j
      <4>1. j \in k .. n - u - 1 /\ j + 1 \in 1 .. n - u
        BY <1>5, <3>2
      <4> QED
        BY <1>4, <3>0, <4>1
    <3> QED
      BY <1>5, <3>1, <3>2
  <2>2. InPacket' => l < u + 1 /\ cpu'.id = q'["rx"].used[l % QSize]
    <3> SUFFICES ASSUME InPacket PROVE l < u + 1 /\ cpu.id = q'["rx"].used[l % QSize]
      BY <1>2 DEF InPacket
    <3>1. l < u /\ cpu.id = q["rx"].used[l % QSize]
      BY <1>1 DEF RxAt
    <3>2. l \in l .. u - 1 /\ l < u + 1
      BY <3>1
    <3> QED
      BY <1>4, <3>1, <3>2
  <2>3. a = l + QSize
    BY <1>1 DEF RxAt
  <2> QED
    BY <1>4, <1>8, <2>1, <2>2, <2>3 DEF RxAt
<1>10. RxSound'
  <2>1. u + 1 \in Nat
    OBVIOUS
  <2> QED
    BY <1>9, <2>1 DEF RxSound
<1>11. TxSound'
  BY <1>0, <1>2, <1>4, TxKept DEF At
<1>12. Ready' /\ SetUp'
  BY <1>0, <1>2, <1>4, SetUpKept DEF Ready, Ram
<1> QED
  BY <1>4, <1>10, <1>11, <1>12 DEF NetInv

\* The device returns a reply after an overrun.
LEMMA UseTxOverrun ==
  ASSUME NetInv, overrun, Use("tx"), Ready
  PROVE  NetInv'
<1>0. Shapes /\ SetUp /\ RxSound /\ TxOverrun /\ "rx" \in Queue /\ "tx" \in Queue
  BY DEF NetInv, Queue, TxSound
<1>1. UNCHANGED <<pmm, rings, tx_desc_idx, cpu, overrun>> /\ isr' = TRUE
  BY DEF Use
<1>2. PICK k \in DOMAIN dev["tx"].busy : UseOf("tx", k)
  BY DEF Use, UseOf, Without, WithUsed
<1>3. PICK b \in Seq(Buffer), i \in Idx, x \in QueueState :
        b = dev["tx"].busy /\ i = dev["tx"].next /\ x = q["tx"]
  BY <1>0, Parts
<1>4. Len(b) \in Nat /\ k \in 1 .. Len(b) /\ b[k].id \in Desc
  <2>1. Len(b) \in Nat /\ k \in 1 .. Len(b) /\ b[k] \in Buffer
    BY <1>3
  <2> QED
    BY <2>1 DEF Buffer
<1>5. PICK z \in Desc, d \in Desc, c \in Idx :
        z = Slot(q["tx"].used_idx) /\ d = b[k].id /\ c = Inc(q["tx"].used_idx)
  <2>1. x.used_idx \in Idx
    BY DEF QueueState
  <2>2. x.used_idx \in Nat
    BY <2>1 DEF Idx
  <2>3. Slot(x.used_idx) \in Desc /\ Inc(x.used_idx) \in Idx
    BY <2>1, <2>2, PositionIs, IncIs DEF Slot
  <2> QED
    BY <1>3, <1>4, <2>3
<1> DEFINE t == Without(b, k)
           r == WithUsed(x, z, d, c)
<1>6. /\ dev' = [dev EXCEPT !["tx"] = [next |-> i, busy |-> t]]
      /\ q' = [q EXCEPT !["tx"] = r]
  BY <1>2, <1>3, <1>5 DEF UseOf
<1>7. /\ t \in Seq(Buffer) /\ Len(t) = Len(b) - 1
      /\ \A j \in 1 .. k - 1 : t[j] = b[j]
      /\ \A j \in k .. Len(b) - 1 : t[j] = b[j + 1]
  BY <1>4, Removed
<1>8. r \in QueueState /\ r.desc = x.desc /\ r.avail_idx = x.avail_idx
  BY UsedWritten
<1> HIDE DEF t, r
<1>9. /\ q' \in [Queue -> QueueState] /\ q'["tx"] = r /\ q'["rx"] = q["rx"]
      /\ dev' \in [Queue -> [next : Idx, busy : Seq(Buffer)]]
      /\ dev'["tx"].busy = t /\ dev'["rx"] = dev["rx"]
  <2>1. q' \in [Queue -> QueueState] /\ q'["tx"] = r /\ q'["rx"] = q["rx"]
    BY <1>0, <1>6, <1>8, QueueChanged
  <2>2. /\ dev' \in [Queue -> [next : Idx, busy : Seq(Buffer)]]
        /\ dev'["tx"].busy = t /\ dev'["rx"] = dev["rx"]
    BY <1>0, <1>6, <1>7, DeviceChanged
  <2> QED
    BY <2>1, <2>2
<1>10. Shapes'
  BY <1>0, <1>1, <1>9 DEF Shapes
<1>11. TxOverrun'
  <2>1. free' = free /\ Ram' = Ram
    BY <1>1 DEF free, Ram
  <2>2. ASSUME NEW j \in 1 .. Len(b) - 1
        PROVE  \E m \in 1 .. Len(b) : t[j].addr = b[m].addr
    <3>1. CASE j \in 1 .. k - 1
      BY <1>4, <1>7, <3>1
    <3>2. CASE j \in k .. Len(b) - 1
      <4>1. j + 1 \in 1 .. Len(b)
        BY <1>4, <3>2
      <4> QED
        BY <1>7, <3>2, <4>1
    <3> QED
      BY <1>4, <3>1, <3>2
  <2>3. \A j \in 1 .. Len(dev["tx"].busy)' :
          \E m \in 1 .. Len(dev["tx"].busy) : dev'["tx"].busy[j].addr = dev["tx"].busy[m].addr
    BY <1>3, <1>7, <1>9, <2>2
  <2>4. /\ \A j \in 1 .. Len(free) : free[j] \in Places
        /\ \A e \in Desc : q["tx"].desc[e] \in Places
    BY DEF Places
  <2>5. Len(free)' <= Ram /\ tx_desc_idx' = q'["tx"].avail_idx
    BY <1>0, <1>1, <1>3, <1>8, <1>9, <2>1 DEF TxOverrun
  <2>6. q'["tx"].desc = q["tx"].desc
    BY <1>3, <1>8, <1>9
  <2> QED
    BY <1>0, <1>1, <2>1, <2>3, <2>4, <2>5, <2>6, OverrunKept
<1>12. RxSound'
  BY <1>0, <1>1, <1>9, RxKept DEF InPacket
<1>13. Ready' /\ SetUp'
  BY <1>0, <1>1, <1>9, SetUpKept DEF Ready, Ram
<1> QED
  BY <1>1, <1>10, <1>11, <1>12, <1>13 DEF NetInv, TxSound

\* Before one, replies come back in the order in which they were sent.
LEMMA UseTxKeeps ==
  ASSUME NetInv, ~overrun, Use("tx"), Ready
  PROVE  NetInv'
<1>0. Shapes /\ SetUp /\ RxSound /\ TxSound /\ "rx" \in Queue /\ "tx" \in Queue
  BY DEF NetInv, Queue
<1>1. PICK l \in Nat, u \in Nat, n \in Nat, a \in Nat : TxAt(l, u, n, a) /\ FramesAt(l, a)
  BY <1>0 DEF TxSound, TxInOrder
<1>2. UNCHANGED <<pmm, rings, tx_desc_idx, cpu, overrun>>
  BY DEF Use
<1>3. Positions("tx", l, u, n, a)
  BY <1>1 DEF TxAt
<1>4. /\ 1 \in 1 .. n - u
      /\ Shapes'
      /\ Positions("tx", l, u + 1, n, a)'
      /\ dev'["rx"] = dev["rx"] /\ q'["rx"] = q["rx"]
      /\ q'["tx"].desc = q["tx"].desc /\ q'["tx"].avail = q["tx"].avail
      /\ q'["tx"].used[u % QSize] = dev["tx"].busy[1].id
      /\ \A i \in l .. u - 1 : q'["tx"].used[i % QSize] = q["tx"].used[i % QSize]
      /\ \A j \in 1 .. n - u - 1 : dev'["tx"].busy[j] = dev["tx"].busy[j + 1]
  <2>1. PICK k \in DOMAIN dev["tx"].busy : k = 1 /\ UseOf("tx", k)
    BY DEF Use, UseOf, Without, WithUsed
  <2>2. Returned("tx", k, l, u, n, a)
    BY <1>0, <1>3, <2>1, UsedAt
  <2> QED
    BY <1>0, <2>1, <2>2 DEF Returned
<1>5. l <= u /\ u < n /\ n <= a /\ a <= l + QSize
  BY <1>3, <1>4 DEF Positions
<1>6. dev["tx"].busy[1].id = u % QSize
  <2>1. u \in u .. n - 1 /\ u - u + 1 = 1
    BY <1>5
  <2> QED
    BY <1>1, <2>1 DEF TxAt
<1>7. TxAt(l, u + 1, n, a)'
  <2>1. ASSUME NEW i \in l .. (u + 1) - 1 PROVE q'["tx"].used[i % QSize] = i % QSize
    <3>1. CASE i \in l .. u - 1
      BY <1>1, <1>4, <3>1 DEF TxAt
    <3>2. CASE i = u
      BY <1>4, <1>6, <3>2
    <3> QED
      BY <3>1, <3>2
  <2>2. ASSUME NEW i \in u + 1 .. n - 1
        PROVE  /\ dev'["tx"].busy[i - (u + 1) + 1].id = i % QSize
               /\ dev'["tx"].busy[i - (u + 1) + 1].addr = q'["tx"].desc[i % QSize]
    <3>1. i - (u + 1) + 1 = i - u /\ i - u \in 1 .. n - u - 1 /\ i \in u .. n - 1
      BY <1>5
    <3>2. /\ dev["tx"].busy[i - u + 1].id = i % QSize
          /\ dev["tx"].busy[i - u + 1].addr = q["tx"].desc[i % QSize]
      BY <1>1, <3>1 DEF TxAt
    <3> QED
      BY <1>4, <3>1, <3>2
  <2> QED
    BY <1>1, <1>2, <1>4, <2>1, <2>2 DEF TxAt, At
<1>8. FramesAt(l, a)'
  BY <1>1, <1>2, <1>4, FramesKept
<1>9. RxSound'
  BY <1>0, <1>2, <1>4, RxKept DEF InPacket
<1>10. Ready' /\ SetUp'
  BY <1>0, <1>2, <1>4, SetUpKept DEF Ready, Ram
<1>11. TxSound'
  <2>1. u + 1 \in Nat
    OBVIOUS
  <2>2. TxInOrder'
    BY <1>7, <1>8, <2>1 DEF TxInOrder
  <2> QED
    BY <1>2, <2>2 DEF TxSound
<1> QED
  BY <1>4, <1>9, <1>10, <1>11 DEF NetInv
------------------------------------------------------------------------------
\* Steps of the handler that only change where the core is.
LEMMA GoKeeps ==
  ASSUME NetInv, Ready, Ready', SetUp', UNCHANGED <<pmm, q, dev, tx_desc_idx, overrun>>,
         isr' \in BOOLEAN, cpu' \in CpuState, cpu'.frame = cpu.frame,
         InPacket' => InPacket /\ cpu'.id = cpu.id,
         ~At("publish"), ~At("publish")'
  PROVE  NetInv'
<1>0. Shapes /\ RxSound /\ TxSound
  BY DEF NetInv
<1>1. Shapes'
  BY <1>0 DEF Shapes, CpuState
<1>2. RxSound'
  BY <1>0, RxKept
<1>3. TxSound'
  BY <1>0, TxKept DEF At
<1> QED
  BY <1>1, <1>2, <1>3 DEF NetInv

\* The interrupt, the end of the receive loop and the end of the handler.
LEMMA IrqKeeps ==
  ASSUME NetInv, virtio_net_handle_irq \/ RxDone \/ IrqDone
  PROVE  NetInv'
<1>0. Shapes /\ SetUp
  BY DEF NetInv
<1>1. PICK label \in {"rx", "tx", "thread"} : Go(label)
  BY DEF virtio_net_handle_irq, RxDone, IrqDone
<1>2. cpu' \in CpuState /\ cpu'.at = label /\ cpu'.frame = cpu.frame
  BY <1>0, <1>1, Went DEF Label
<1>3. /\ Ready /\ ~At("publish") /\ UNCHANGED <<pmm, rings, q, dev, tx_desc_idx, overrun>>
  BY DEF virtio_net_handle_irq, RxDone, IrqDone, Ready, At
<1>4. isr' \in BOOLEAN
  BY <1>0 DEF virtio_net_handle_irq, RxDone, IrqDone, Shapes
<1>5. Ready' /\ ~InPacket' /\ ~At("publish")'
  BY <1>2 DEF Ready, InPacket, At
<1>6. SetUp'
  BY <1>0, <1>3, <1>5, SetUpKept DEF Ram
<1> QED
  BY <1>2, <1>3, <1>4, <1>5, <1>6, GoKeeps

\* net_poll_rx takes the first of the used descriptors.
LEMMA PollKeeps ==
  ASSUME NetInv, net_poll_rx
  PROVE  NetInv'
<1>0. Shapes /\ SetUp /\ RxSound /\ TxSound /\ Ready /\ "rx" \in Queue /\ At("rx")
  BY DEF NetInv, net_poll_rx, Ready, At, Queue
<1>1. UNCHANGED <<pmm, rings, q, dev, tx_desc_idx, isr, overrun>>
  BY DEF net_poll_rx
<1>2. PICK l \in Nat, u \in Nat, n \in Nat, a \in Nat : RxAt(l, u, n, a)
  BY <1>0 DEF RxSound
<1>3. Positions("rx", l, u, n, a)
  BY <1>2 DEF RxAt
<1>4. l < u
  BY <1>3 DEF Positions, net_poll_rx
<1>5. PICK reaction \in Reactions : ethernet_handle_packet(reaction)
  BY DEF net_poll_rx
<1> DEFINE d == q["rx"].used[l % QSize]
           label == IF reaction = "reply" THEN "send" ELSE "recycle"
<1>6. d \in Desc /\ Slot(q["rx"].last_used_idx) = l % QSize
  BY <1>0, <1>3, Parts, PositionIs DEF Positions
<1>7. cpu' = [cpu EXCEPT !.at = label, !.id = d]
  BY <1>5, <1>6 DEF ethernet_handle_packet
<1>8. label \in {"send", "recycle"}
  OBVIOUS
<1> HIDE DEF d, label
<1>10. cpu' \in CpuState /\ cpu'.at = label /\ cpu'.id = d /\ cpu'.frame = cpu.frame
  BY <1>0, <1>6, <1>7, <1>8 DEF Shapes, CpuState, Label
<1>11. Shapes'
  BY <1>0, <1>1, <1>10 DEF Shapes, CpuState
<1>12. Ready' /\ SetUp'
  BY <1>0, <1>1, <1>8, <1>10, SetUpKept DEF Ready, Ram
<1>13. RxAt(l, u, n, a)'
  BY <1>1, <1>2, <1>4, <1>10 DEF RxAt, Positions, Holder, d
<1>14. RxSound'
  BY <1>13 DEF RxSound
<1>15. TxSound'
  <2>1. ~At("publish") /\ ~At("publish")'
    BY <1>0, <1>8, <1>10 DEF At
  <2> QED
    BY <1>0, <1>1, <1>10, <2>1, TxKept
<1> QED
  BY <1>11, <1>12, <1>14, <1>15 DEF NetInv

\* Writing an entry of an available ring.
WithAvail(r, s, d, i, j) == [r EXCEPT !.avail[s] = d, !.avail_idx = i, !.last_used_idx = j]

\* The rest of the queue stays.
LEMMA AvailWritten ==
  ASSUME NEW r \in QueueState, NEW s \in Desc, NEW d \in Desc, NEW i \in Idx, NEW j \in Idx
  PROVE  /\ WithAvail(r, s, d, i, j) \in QueueState
         /\ WithAvail(r, s, d, i, j).avail_idx = i
         /\ WithAvail(r, s, d, i, j).last_used_idx = j
         /\ WithAvail(r, s, d, i, j).desc = r.desc
         /\ WithAvail(r, s, d, i, j).used = r.used
         /\ WithAvail(r, s, d, i, j).used_idx = r.used_idx
         /\ WithAvail(r, s, d, i, j).avail[s] = d
         /\ \A z \in Desc : z # s => WithAvail(r, s, d, i, j).avail[z] = r.avail[z]
<1> DEFINE t == WithAvail(r, s, d, i, j)
           v == [r.avail EXCEPT ![s] = d]
<1>1. r.avail \in [Desc -> Desc]
  BY DEF QueueState
<1>2. v \in [Desc -> Desc]
  BY <1>1
<1>3. t = [r EXCEPT !.avail = v, !.avail_idx = i, !.last_used_idx = j]
  BY DEF WithAvail
<1>4. v[s] = d /\ \A z \in Desc : z # s => v[z] = r.avail[z]
  BY <1>1
<1> HIDE DEF v, t
<1>5. /\ t \in QueueState /\ t.avail_idx = i /\ t.last_used_idx = j /\ t.desc = r.desc
      /\ t.used = r.used /\ t.used_idx = r.used_idx
      /\ t.avail[s] = d /\ \A z \in Desc : z # s => t.avail[z] = r.avail[z]
  BY <1>2, <1>3, <1>4 DEF QueueState
<1> QED
  BY <1>5 DEF t

\* The descriptor goes from the first used position to the last available one.
LEMMA RecycleKeeps ==
  ASSUME NetInv, Recycle
  PROVE  NetInv'
<1>0. /\ Shapes /\ SetUp /\ RxSound /\ TxSound /\ Ready /\ "rx" \in Queue /\ "tx" \in Queue
      /\ At("recycle") /\ InPacket
  BY DEF NetInv, Recycle, Ready, At, Queue, InPacket
<1>1. UNCHANGED <<pmm, rings, dev, tx_desc_idx, isr, overrun>> /\ Go("rx")
  BY DEF Recycle
<1>2. PICK l \in Nat, u \in Nat, n \in Nat, a \in Nat : RxAt(l, u, n, a)
  BY <1>0 DEF RxSound
<1>3. Positions("rx", l, u, n, a)
  BY <1>2 DEF RxAt
<1>4. l < u /\ cpu.id = q["rx"].used[l % QSize] /\ a = l + QSize
  BY <1>0, <1>2 DEF RxAt
<1>5. l + 1 \in Nat /\ a + 1 \in Nat /\ QSize \in Nat \ {0} /\ u <= n /\ n <= a
  BY <1>3, Sizes DEF Positions
<1> DEFINE r == WithAvail(q["rx"], a % QSize, cpu.id, (a + 1) % IdxMod, (l + 1) % IdxMod)
<1>6. /\ q["rx"] \in QueueState /\ a % QSize \in Desc /\ cpu.id \in Desc
      /\ (a + 1) % IdxMod \in Idx /\ (l + 1) % IdxMod \in Idx
  BY <1>0, <1>5, Parts, PositionIs DEF Shapes
<1>7. /\ Slot(q["rx"].avail_idx) = a % QSize /\ Inc(q["rx"].avail_idx) = (a + 1) % IdxMod
      /\ Inc(q["rx"].last_used_idx) = (l + 1) % IdxMod
  BY <1>3, PositionIs DEF Positions
<1>8. q' = [q EXCEPT !["rx"] = r]
  BY <1>7 DEF Recycle, WithAvail
<1>9. /\ r \in QueueState /\ r.avail_idx = (a + 1) % IdxMod /\ r.last_used_idx = (l + 1) % IdxMod
      /\ r.desc = q["rx"].desc /\ r.used = q["rx"].used /\ r.used_idx = q["rx"].used_idx
      /\ r.avail[a % QSize] = cpu.id
      /\ \A z \in Desc : z # a % QSize => r.avail[z] = q["rx"].avail[z]
  <2>1. PICK x \in QueueState, z \in Desc, d \in Desc, i \in Idx, j \in Idx :
          /\ x = q["rx"] /\ z = a % QSize /\ d = cpu.id
          /\ i = (a + 1) % IdxMod /\ j = (l + 1) % IdxMod
    BY <1>6
  <2>2. r = WithAvail(x, z, d, i, j)
    BY <2>1
  <2> HIDE DEF r
  <2>3. /\ r \in QueueState /\ r.avail_idx = i /\ r.last_used_idx = j
        /\ r.desc = x.desc /\ r.used = x.used /\ r.used_idx = x.used_idx /\ r.avail[z] = d
        /\ \A y \in Desc : y # z => r.avail[y] = x.avail[y]
    <3>1. /\ WithAvail(x, z, d, i, j) \in QueueState
          /\ WithAvail(x, z, d, i, j).avail_idx = i
          /\ WithAvail(x, z, d, i, j).last_used_idx = j
          /\ WithAvail(x, z, d, i, j).desc = x.desc
          /\ WithAvail(x, z, d, i, j).used = x.used
          /\ WithAvail(x, z, d, i, j).used_idx = x.used_idx
          /\ WithAvail(x, z, d, i, j).avail[z] = d
          /\ \A y \in Desc : y # z => WithAvail(x, z, d, i, j).avail[y] = x.avail[y]
      BY AvailWritten
    <3> QED
      BY <2>2, <3>1
  <2> QED
    BY <2>1, <2>3
<1> HIDE DEF r
<1>10. q' \in [Queue -> QueueState] /\ q'["rx"] = r /\ q'["tx"] = q["tx"]
  BY <1>0, <1>8, <1>9, QueueChanged
<1>11. cpu' \in CpuState /\ cpu'.at = "rx" /\ cpu'.frame = cpu.frame
  BY <1>0, <1>1, Went DEF Label
<1>12. Shapes'
  BY <1>0, <1>1, <1>10, <1>11 DEF Shapes, CpuState
<1>13. Ready' /\ ~InPacket' /\ SetUp'
  <2>1. Ready' /\ ~InPacket'
    BY <1>11 DEF Ready, InPacket
  <2> QED
    BY <1>0, <1>1, <1>9, <1>10, <2>1, SetUpKept DEF Ram
<1>14. TxSound'
  BY <1>0, <1>1, <1>10, <1>11, TxKept DEF At
<1> DEFINE s == [i \in l + 1 .. a |-> IF i = a THEN l ELSE i]
<1>15. /\ s \in [l + 1 .. a -> l .. a - 1]
       /\ \A i, j \in l + 1 .. a : s[i] = s[j] => i = j
       /\ \A i \in l .. a - 1 : \E j \in l + 1 .. a : s[j] = i
  <2>1. s \in [l + 1 .. a -> l .. a - 1]
    BY <1>4, <1>5
  <2>2. \A i, j \in l + 1 .. a : s[i] = s[j] => i = j
    BY <1>4, <1>5
  <2>3. ASSUME NEW i \in l .. a - 1 PROVE \E j \in l + 1 .. a : s[j] = i
    <3>1. CASE i = l
      <4>1. a \in l + 1 .. a /\ s[a] = i
        BY <1>4, <1>5, <3>1
      <4> QED
        BY <4>1
    <3>2. CASE i # l
      <4>1. i \in l + 1 .. a /\ s[i] = i
        BY <1>4, <1>5, <3>2
      <4> QED
        BY <4>1
    <3> QED
      BY <3>1, <3>2
  <2> QED
    BY <2>1, <2>2, <2>3
<1>16. ASSUME NEW i \in l + 1 .. a PROVE Holder(i, u, n)' = Holder(s[i], u, n)
  <2>1. CASE i < u
    <3>1. s[i] = i
      BY <1>5, <2>1
    <3> HIDE DEF s
    <3> QED
      BY <1>9, <1>10, <2>1, <3>1 DEF Holder
  <2>2. CASE u <= i /\ i < n
    <3>1. s[i] = i /\ ~(i < u)
      BY <1>5, <2>2
    <3> HIDE DEF s
    <3> QED
      BY <1>1, <2>2, <3>1 DEF Holder
  <2>3. CASE n <= i /\ i < a
    <3>1. s[i] = i /\ ~(i < u) /\ ~(i < n) /\ i \in Nat /\ i # a /\ i < a + QSize /\ a < i + QSize
      BY <1>4, <1>5, <2>3
    <3> HIDE DEF s
    <3>2. i % QSize \in Desc /\ i % QSize # a % QSize
      BY <3>1, PositionIs, SlotsDiffer
    <3> QED
      BY <1>9, <1>10, <3>1, <3>2 DEF Holder
  <2>4. CASE i = a
    <3>1. s[i] = l /\ ~(i < u) /\ ~(i < n)
      BY <1>4, <1>5, <2>4
    <3> HIDE DEF s
    <3> QED
      BY <1>4, <1>9, <1>10, <2>4, <3>1 DEF Holder
  <2> QED
    BY <1>5, <2>1, <2>2, <2>3, <2>4
<1> HIDE DEF s
<1>17. /\ \A i, j \in l + 1 .. a : (Holder(i, u, n) = Holder(j, u, n))' => i = j
       /\ \A d \in Desc : \E i \in l + 1 .. a : Holder(i, u, n)' = d
  <2>1. /\ \A i, j \in l .. a - 1 : Holder(i, u, n) = Holder(j, u, n) => i = j
        /\ \A d \in Desc : \E i \in l .. a - 1 : Holder(i, u, n) = d
    BY <1>2 DEF RxAt
  <2>2. ASSUME NEW i \in l + 1 .. a, NEW j \in l + 1 .. a,
               (Holder(i, u, n) = Holder(j, u, n))'
        PROVE  i = j
    <3>1. Holder(s[i], u, n) = Holder(s[j], u, n) /\ s[i] \in l .. a - 1 /\ s[j] \in l .. a - 1
      BY <1>15, <1>16, <2>2
    <3> QED
      BY <1>15, <2>1, <3>1
  <2>3. ASSUME NEW d \in Desc PROVE \E i \in l + 1 .. a : Holder(i, u, n)' = d
    <3>1. PICK i \in l .. a - 1 : Holder(i, u, n) = d
      BY <2>1
    <3>2. PICK j \in l + 1 .. a : s[j] = i
      BY <1>15
    <3> QED
      BY <1>16, <3>1, <3>2
  <2> QED
    BY <2>2, <2>3
<1>18. RxAt(l + 1, u, n, a + 1)'
  <2>1. l + 1 <= u /\ n <= a + 1 /\ a + 1 <= (l + 1) + QSize /\ a + 1 = (l + 1) + QSize
        /\ (a + 1) - 1 = a
    BY <1>4, <1>5
  <2>2. Positions("rx", l + 1, u, n, a + 1)'
    BY <1>1, <1>3, <1>5, <1>9, <1>10, <2>1 DEF Positions
  <2>3. \A k \in 1 .. n - u : dev'["rx"].busy[k].addr = q'["rx"].desc[dev'["rx"].busy[k].id]
    BY <1>1, <1>2, <1>9, <1>10 DEF RxAt
  <2> QED
    BY <1>13, <1>17, <2>1, <2>2, <2>3 DEF RxAt
<1>19. RxSound'
  BY <1>5, <1>18 DEF RxSound
<1> QED
  BY <1>12, <1>13, <1>14, <1>19 DEF NetInv
------------------------------------------------------------------------------
\* The frames on the stack are distinct spare frames, so the stack has room
\* for every frame that comes back.
LEMMA StackHasRoom ==
  ASSUME Shapes, NEW l \in Nat, NEW a \in Nat, FramesAt(l, a)
  PROVE  Len(free) <= Spare /\ Spare < Ram
<1>1. Ram \in Nat /\ Spare \in Nat /\ Len(free) \in Nat /\ free \in Seq(Nat) /\ Spare < Ram
  BY Memory, Sizes
<1>2. /\ \A k \in 1 .. Len(free) : free[k] \in 0 .. Spare - 1
      /\ \A j, k \in 1 .. Len(free) : free[j] = free[k] => j = k
  BY DEF FramesAt
<1>3. free \in Injection(1 .. Len(free), 0 .. Spare - 1)
  <2>1. DOMAIN free = 1 .. Len(free) /\ free = [k \in 1 .. Len(free) |-> free[k]]
    BY <1>1
  <2>2. free \in [1 .. Len(free) -> 0 .. Spare - 1]
    BY <1>2, <2>1
  <2> QED
    BY <1>2, <2>1, <2>2 DEF Injection, IsInjective
<1>4. IsFiniteSet(0 .. Spare - 1) /\ Cardinality(0 .. Spare - 1) = Spare
  <2>1. 0 \in Int /\ Spare - 1 \in Int /\ Spare = IF 0 > Spare - 1 THEN 0 ELSE (Spare - 1) - 0 + 1
    BY <1>1
  <2> QED
    BY <2>1, FS_Interval
<1>5. Cardinality(1 .. Len(free)) = Len(free)
  <2>1. 1 \in Int /\ Len(free) \in Int
        /\ Len(free) = IF 1 > Len(free) THEN 0 ELSE Len(free) - 1 + 1
    BY <1>1
  <2> QED
    BY <2>1, FS_Interval
<1>6. Cardinality(1 .. Len(free)) <= Cardinality(0 .. Spare - 1)
  BY <1>3, <1>4, FS_Injection
<1> QED
  BY <1>1, <1>4, <1>5, <1>6

\* net_send writes a descriptor and an available entry, of a slot that is not out.
WithSent(r, h, f) == [r EXCEPT !.desc[h] = f, !.avail[h] = h]

\* The rest of the queue stays.
LEMMA SentWritten ==
  ASSUME NEW r \in QueueState, NEW h \in Desc, NEW f \in Nat
  PROVE  /\ WithSent(r, h, f) \in QueueState
         /\ WithSent(r, h, f).avail_idx = r.avail_idx
         /\ WithSent(r, h, f).last_used_idx = r.last_used_idx
         /\ WithSent(r, h, f).used = r.used
         /\ WithSent(r, h, f).used_idx = r.used_idx
         /\ WithSent(r, h, f).avail[h] = h /\ WithSent(r, h, f).desc[h] = f
         /\ \A z \in Desc : z # h => WithSent(r, h, f).avail[z] = r.avail[z]
         /\ \A z \in Desc : z # h => WithSent(r, h, f).desc[z] = r.desc[z]
<1> DEFINE t == WithSent(r, h, f)
           v == [r.avail EXCEPT ![h] = h]
           e == [r.desc EXCEPT ![h] = f]
<1>1. r.avail \in [Desc -> Desc] /\ r.desc \in [Desc -> Nat \cup {NULL}]
  BY DEF QueueState
<1>2. v \in [Desc -> Desc] /\ e \in [Desc -> Nat \cup {NULL}]
  BY <1>1
<1>3. t = [r EXCEPT !.desc = e, !.avail = v]
  BY DEF WithSent
<1>4. /\ v[h] = h /\ \A z \in Desc : z # h => v[z] = r.avail[z]
      /\ e[h] = f /\ \A z \in Desc : z # h => e[z] = r.desc[z]
  BY <1>1
<1> HIDE DEF v, e, t
<1>5. /\ t \in QueueState /\ t.avail_idx = r.avail_idx /\ t.last_used_idx = r.last_used_idx
      /\ t.used = r.used /\ t.used_idx = r.used_idx /\ t.desc = e /\ t.avail = v
  BY <1>2, <1>3 DEF QueueState
<1> QED
  BY <1>4, <1>5 DEF t

\* What net_send does with the last of z free frames and descriptor h.
Filled(h, f, z) ==
  /\ Shapes' /\ Ready' /\ SetUp' /\ RxSound'
  /\ ~At("publish") /\ UNCHANGED <<dev, tx_desc_idx>>
  /\ z = Len(free) /\ 1 <= z /\ f = free[z]
  /\ Ram' = Ram /\ Len(free)' = z - 1
  /\ \A k \in 1 .. z - 1 : free'[k] = free[k]
  /\ h = Slot(tx_desc_idx)
  /\ q'["tx"].avail_idx = q["tx"].avail_idx
  /\ q'["tx"].last_used_idx = q["tx"].last_used_idx
  /\ q'["tx"].used = q["tx"].used /\ q'["tx"].used_idx = q["tx"].used_idx
  /\ q'["tx"].avail[h] = h /\ q'["tx"].desc[h] = f
  /\ \A d \in Desc : d # h => q'["tx"].avail[d] = q["tx"].avail[d]
  /\ \A d \in Desc : d # h => q'["tx"].desc[d] = q["tx"].desc[d]
  /\ cpu'.at = "publish" /\ cpu'.frame = f
  /\ overrun' = (overrun \/ Cardinality(Out) >= QSize)

\* The core is in net_send, and the rest follows from its assignments.
LEMMA SendFills ==
  ASSUME NetInv, net_send, free # <<>>, tx_desc_idx = q["tx"].avail_idx
  PROVE  \E h \in Desc, f \in Nat, z \in Nat : Filled(h, f, z)
<1>0. /\ Shapes /\ SetUp /\ RxSound /\ Ready /\ "rx" \in Queue /\ "tx" \in Queue
      /\ InPacket /\ ~At("publish")
  BY DEF NetInv, net_send, Ready, At, Queue, InPacket
<1>1. UNCHANGED <<rings, dev, tx_desc_idx, isr>> /\ overrun' = (overrun \/ Cardinality(Out) >= QSize)
  BY DEF net_send
<1>2. PICK z \in Nat, f \in Nat : z = Len(free) /\ 1 <= z /\ f = free[z]
  <2>1. free \in Seq(Nat) /\ Len(free) \in Nat
    BY <1>0, Memory
  <2>2. Len(free) # 0
    BY <2>1, EmptySeq
  <2>3. free[Len(free)] \in Nat /\ 1 <= Len(free)
    BY <2>1, <2>2
  <2> QED
    BY <2>1, <2>3
<1>3. PICK h \in Desc, x \in QueueState : h = Slot(tx_desc_idx) /\ x = q["tx"]
  <2>1. tx_desc_idx \in Nat /\ q["tx"] \in QueueState
    BY <1>0, Parts DEF Shapes, Idx
  <2> QED
    BY <2>1, PositionIs DEF Slot
<1> DEFINE r == WithSent(x, h, f)
<1>4. /\ q' = [q EXCEPT !["tx"] = r] /\ cpu' = [cpu EXCEPT !.at = "publish", !.frame = f]
      /\ Pop(1)
  BY <1>2, <1>3 DEF net_send, WithSent, Top
<1>5. /\ r \in QueueState /\ r.avail_idx = x.avail_idx /\ r.last_used_idx = x.last_used_idx
      /\ r.used = x.used /\ r.used_idx = x.used_idx /\ r.avail[h] = h /\ r.desc[h] = f
      /\ \A d \in Desc : d # h => r.avail[d] = x.avail[d]
      /\ \A d \in Desc : d # h => r.desc[d] = x.desc[d]
  BY SentWritten
<1> HIDE DEF r
<1>6. q' \in [Queue -> QueueState] /\ q'["tx"] = r /\ q'["rx"] = q["rx"]
  BY <1>0, <1>4, <1>5, QueueChanged
<1>7. cpu' \in CpuState /\ cpu'.at = "publish" /\ cpu'.frame = f /\ cpu'.id = cpu.id
  BY <1>0, <1>4 DEF Shapes, CpuState, Label
<1>8. /\ pmm' \in [stack : Seq(Nat), total_frames : RamSizes] /\ Ram' = Ram
      /\ Len(free)' = z - 1
      /\ \A k \in 1 .. z - 1 : free'[k] = free[k]
  BY <1>0, <1>2, <1>4, Popped
<1>9. Shapes'
  <2>1. overrun' \in BOOLEAN
    BY <1>1
  <2> QED
    BY <1>0, <1>1, <1>6, <1>7, <1>8, <2>1 DEF Shapes, CpuState
<1>10. Ready' /\ SetUp'
  <2>1. Ready'
    BY <1>7 DEF Ready
  <2> QED
    BY <1>0, <1>1, <1>6, <1>8, <2>1, SetUpKept
<1>11. RxSound'
  BY <1>0, <1>1, <1>6, <1>7, RxKept
<1>12. Filled(h, f, z)
  BY <1>0, <1>1, <1>2, <1>3, <1>5, <1>6, <1>7, <1>8, <1>9, <1>10, <1>11 DEF Filled
<1> QED
  BY <1>12

\* As long as not all descriptors are out, the next one is not.
LEMMA SendInOrder ==
  ASSUME NEW l \in Nat, NEW u \in Nat, NEW n \in Nat, NEW a \in Nat,
         TxAt(l, u, n, a), FramesAt(l, a), a < l + QSize,
         NEW h \in Desc, NEW f \in Nat, NEW z \in Nat, Filled(h, f, z)
  PROVE  TxInOrder'
<1>1. /\ ~At("publish") /\ UNCHANGED <<dev, tx_desc_idx>>
      /\ z = Len(free) /\ 1 <= z /\ f = free[z] /\ Ram' = Ram /\ Len(free)' = z - 1
      /\ \A k \in 1 .. z - 1 : free'[k] = free[k]
      /\ h = Slot(tx_desc_idx)
      /\ cpu'.at = "publish" /\ cpu'.frame = f
  BY DEF Filled
<1>2. /\ q'["tx"].avail_idx = q["tx"].avail_idx
      /\ q'["tx"].last_used_idx = q["tx"].last_used_idx
      /\ q'["tx"].used = q["tx"].used /\ q'["tx"].used_idx = q["tx"].used_idx
      /\ q'["tx"].avail[h] = h /\ q'["tx"].desc[h] = f
      /\ \A d \in Desc : d # h => q'["tx"].avail[d] = q["tx"].avail[d]
      /\ \A d \in Desc : d # h => q'["tx"].desc[d] = q["tx"].desc[d]
  BY DEF Filled
<1>3. /\ l <= u /\ u <= n /\ n <= a /\ a < l + QSize
      /\ tx_desc_idx = a % IdxMod /\ h = a % QSize
  <2>1. l <= u /\ u <= n /\ n <= a /\ tx_desc_idx = a % IdxMod
    BY DEF TxAt, Positions
  <2> QED
    BY <1>1, <2>1, PositionIs
<1>4. ASSUME NEW i \in l .. a - 1 PROVE i % QSize \in Desc /\ i % QSize # h
  <2>1. i \in Nat /\ i < a + QSize /\ a < i + QSize /\ i # a
    BY <1>3, Sizes
  <2> QED
    BY <1>3, <2>1, PositionIs, SlotsDiffer
<1>5. TxAt(l, u, n, a)'
  <2>1. Positions("tx", l, u, n, a)'
    BY <1>1, <1>2 DEF TxAt, Positions
  <2>2. \A i \in l .. a - 1 : q'["tx"].avail[i % QSize] = i % QSize
    BY <1>2, <1>4 DEF TxAt
  <2>3. \A i \in l .. u - 1 : q'["tx"].used[i % QSize] = i % QSize
    BY <1>2 DEF TxAt
  <2>4. ASSUME NEW i \in u .. n - 1
        PROVE  /\ dev'["tx"].busy[i - u + 1].id = i % QSize
               /\ dev'["tx"].busy[i - u + 1].addr = q'["tx"].desc[i % QSize]
    <3>1. i \in l .. a - 1
      BY <1>3
    <3>2. /\ dev["tx"].busy[i - u + 1].id = i % QSize
          /\ dev["tx"].busy[i - u + 1].addr = q["tx"].desc[i % QSize]
      BY DEF TxAt
    <3> QED
      BY <1>1, <1>2, <1>4, <3>1, <3>2
  <2>5. q'["tx"].avail[a % QSize] = a % QSize /\ tx_desc_idx' = a % IdxMod
    BY <1>1, <1>2, <1>3
  <2> QED
    BY <1>3, <2>1, <2>2, <2>3, <2>4, <2>5 DEF TxAt
<1>6. FramesAt(l, a)'
  <2>0. /\ \A k \in 1 .. z : free[k] \in 0 .. Spare - 1
        /\ \A j, k \in 1 .. z : free[j] = free[k] => j = k
        /\ \A i \in l .. a - 1 :
             /\ q["tx"].desc[i % QSize] \in 0 .. Spare - 1
             /\ \A k \in 1 .. z : free[k] # q["tx"].desc[i % QSize]
             /\ \A j \in l .. a - 1 : q["tx"].desc[i % QSize] = q["tx"].desc[j % QSize] => i = j
        /\ cpu.frame = NULL
        /\ \A d \in Desc : q["tx"].desc[d] \in (0 .. Spare - 1) \cup {NULL}
        /\ \A g \in 0 .. Spare - 1 :
             \/ \E k \in 1 .. z : free[k] = g
             \/ \E i \in l .. a - 1 : q["tx"].desc[i % QSize] = g
             \/ cpu.frame = g
    BY <1>1 DEF FramesAt
  <2>1. Spare' = Spare
    BY <1>1 DEF Spare
  <2>2. \A i \in l .. a - 1 : q'["tx"].desc[i % QSize] = q["tx"].desc[i % QSize]
    BY <1>2, <1>4
  <2>3. z \in 1 .. z /\ f \in 0 .. Spare - 1
    BY <1>1, <2>0
  <2>4. \A k \in 1 .. z - 1 : k \in 1 .. z /\ k # z /\ free'[k] = free[k] /\ free'[k] # f
    <3>1. \A k \in 1 .. z - 1 : k \in 1 .. z /\ k # z
      BY <1>1
    <3>2. \A k \in 1 .. z : k # z => free[k] # f
      BY <1>1, <2>0, <2>3
    <3>3. \A k \in 1 .. z - 1 : free'[k] = free[k]
      BY <1>1
    <3> QED
      BY <3>1, <3>2, <3>3
  <2>5. q'["tx"].desc[a % QSize] = f
    BY <1>2, <1>3
  <2>6. \A d \in Desc : q'["tx"].desc[d] \in (0 .. Spare - 1) \cup {NULL}
    BY <1>2, <2>0, <2>3
  <2>7. ASSUME NEW g \in 0 .. Spare - 1
        PROVE  \/ \E k \in 1 .. z - 1 : free'[k] = g
               \/ \E i \in l .. a - 1 : q'["tx"].desc[i % QSize] = g
               \/ f = g
    <3>1. CASE \E k \in 1 .. z : free[k] = g
      <4>1. PICK k \in 1 .. z : free[k] = g
        BY <3>1
      <4>2. k = z \/ k \in 1 .. z - 1
        BY <1>1
      <4> QED
        BY <1>1, <2>4, <4>1, <4>2
    <3>2. CASE \E i \in l .. a - 1 : q["tx"].desc[i % QSize] = g
      BY <2>2, <3>2
    <3>3. cpu.frame # g
      BY <2>0, Sizes
    <3> QED
      BY <2>0, <3>1, <3>2, <3>3
  <2>8. \A i \in l .. a - 1 :
           /\ q'["tx"].desc[i % QSize] \in 0 .. Spare - 1
           /\ q'["tx"].desc[i % QSize] # f
           /\ \A k \in 1 .. z - 1 : free'[k] # q'["tx"].desc[i % QSize]
           /\ \A j \in l .. a - 1 : q'["tx"].desc[i % QSize] = q'["tx"].desc[j % QSize] => i = j
    <3> TAKE i \in l .. a - 1
    <3>1. q'["tx"].desc[i % QSize] \in 0 .. Spare - 1
      BY <2>0, <2>2
    <3>2. q["tx"].desc[i % QSize] # f /\ q'["tx"].desc[i % QSize] # f
      BY <1>1, <2>0, <2>2, <2>3
    <3>3. \A k \in 1 .. z - 1 : free'[k] # q'["tx"].desc[i % QSize]
      BY <2>0, <2>2, <2>4
    <3>4. \A j \in l .. a - 1 : q'["tx"].desc[i % QSize] = q'["tx"].desc[j % QSize] => i = j
      BY <2>0, <2>2
    <3> QED
      BY <3>1, <3>2, <3>3, <3>4
  <2>9. /\ \A k \in 1 .. z - 1 : free'[k] \in 0 .. Spare - 1 /\ free'[k] # f
        /\ \A j, k \in 1 .. z - 1 : free'[j] = free'[k] => j = k
    BY <2>0, <2>4
  <2>10. At("publish")' /\ cpu'.frame = f
    BY <1>1 DEF At
  <2> QED
    <3>1. Len(free') = z - 1
      BY <1>1
    <3>2. /\ \A k \in 1 .. Len(free') : free'[k] \in 0 .. Spare' - 1
          /\ \A j, k \in 1 .. Len(free') : free'[j] = free'[k] => j = k
          /\ \A k \in 1 .. Len(free') : free'[k] # f
      BY <2>1, <2>9, <3>1
    <3>3. \A i \in l .. a - 1 :
             /\ q'["tx"].desc[i % QSize] \in 0 .. Spare' - 1
             /\ \A k \in 1 .. Len(free') : free'[k] # q'["tx"].desc[i % QSize]
             /\ \A j \in l .. a - 1 : q'["tx"].desc[i % QSize] = q'["tx"].desc[j % QSize] => i = j
      BY <2>1, <2>8, <3>1
    <3>4. /\ cpu'.frame \in 0 .. Spare' - 1 /\ cpu'.frame = q'["tx"].desc[a % QSize]
          /\ \A k \in 1 .. Len(free') : free'[k] # cpu'.frame
          /\ \A i \in l .. a - 1 : q'["tx"].desc[i % QSize] # cpu'.frame
      BY <2>1, <2>3, <2>5, <2>8, <2>10, <3>2
    <3>5. \A d \in Desc : q'["tx"].desc[d] \in (0 .. Spare' - 1) \cup {NULL}
      BY <2>1, <2>6
    <3>6. \A g \in 0 .. Spare' - 1 :
             \/ \E k \in 1 .. Len(free') : free'[k] = g
             \/ \E i \in l .. a - 1 : q'["tx"].desc[i % QSize] = g
             \/ cpu'.frame = g
      BY <2>1, <2>7, <2>10, <3>1
    <3> QED
      BY <2>10, <3>2, <3>3, <3>4, <3>5, <3>6 DEF FramesAt
<1> QED
  BY <1>5, <1>6 DEF TxInOrder

\* When they are all out, the frame of the oldest reply is lost.
LEMMA SendOverruns ==
  ASSUME Shapes, NEW l \in Nat, NEW u \in Nat, NEW n \in Nat, NEW a \in Nat,
         TxAt(l, u, n, a), FramesAt(l, a), a = l + QSize,
         NEW h \in Desc, NEW f \in Nat, NEW z \in Nat, Filled(h, f, z)
  PROVE  TxOverrun'
<1>1. /\ ~At("publish") /\ UNCHANGED <<dev, tx_desc_idx>>
      /\ z = Len(free) /\ 1 <= z /\ f = free[z] /\ Ram' = Ram /\ Len(free)' = z - 1
      /\ \A k \in 1 .. z - 1 : free'[k] = free[k]
      /\ h = Slot(tx_desc_idx) /\ cpu'.frame = f
      /\ q'["tx"].avail_idx = q["tx"].avail_idx /\ q'["tx"].desc[h] = f
      /\ \A d \in Desc : d # h => q'["tx"].desc[d] = q["tx"].desc[d]
  BY DEF Filled
<1>2. /\ l <= u /\ u <= n /\ n <= a /\ Len(dev["tx"].busy) = n - u
      /\ tx_desc_idx = a % IdxMod /\ q["tx"].avail_idx = a % IdxMod
      /\ \A i \in u .. n - 1 : dev["tx"].busy[i - u + 1].addr = q["tx"].desc[i % QSize]
  BY DEF TxAt, Positions
<1>3. h = l % QSize
  BY <1>1, <1>2, PositionIs, SameSlot
<1>4. /\ \A k \in 1 .. z : free[k] \in 0 .. Spare - 1
      /\ \A i \in l .. a - 1 :
           /\ q["tx"].desc[i % QSize] \in 0 .. Spare - 1
           /\ \A k \in 1 .. z : free[k] # q["tx"].desc[i % QSize]
           /\ \A j \in l .. a - 1 : q["tx"].desc[i % QSize] = q["tx"].desc[j % QSize] => i = j
  BY <1>1 DEF FramesAt
<1>5. PICK g \in Nat : g = q["tx"].desc[l % QSize] /\ g \in 0 .. Spare - 1
  <2>1. l \in l .. a - 1
    BY Sizes
  <2> QED
    BY <1>4, <2>1
<1>6. l \in l .. a - 1 /\ z \in 1 .. z
  BY <1>1, Sizes
<1>7. f \in 0 .. Spare - 1 /\ f # g
  BY <1>1, <1>4, <1>5, <1>6
<1>8. ASSUME NEW d \in Desc
      PROVE  q'["tx"].desc[d] \in 0 .. Spare - 1 /\ q'["tx"].desc[d] # g
  <2>1. CASE d = h
    BY <1>1, <1>7, <2>1
  <2>2. CASE d # h
    <3>1. PICK i \in l .. l + QSize - 1 : i % QSize = d
      BY SomeSlot
    <3>3. i # l
      BY <1>3, <2>2, <3>1
    <3>2. i \in l .. a - 1 /\ i # l
      BY <3>3, Sizes
    <3> QED
      BY <1>1, <1>4, <1>5, <1>6, <2>2, <3>1, <3>2
  <2> QED
    BY <2>1, <2>2
<1>9. ASSUME NEW k \in 1 .. z - 1
      PROVE  free'[k] \in 0 .. Spare - 1 /\ free'[k] # g
  <2>1. k \in 1 .. z
    OBVIOUS
  <2> QED
    BY <1>1, <1>4, <1>5, <1>6, <2>1
<1>10. ASSUME NEW k \in 1 .. n - u PROVE dev["tx"].busy[k].addr \in 0 .. Spare - 1
  <2>1. u + k - 1 \in u .. n - 1 /\ u + k - 1 \in l .. a - 1 /\ (u + k - 1) - u + 1 = k
    BY <1>2
  <2> QED
    BY <1>2, <1>4, <2>1
<1>11. Spare' = Spare
  BY <1>1 DEF Spare
<1>12. Lost(g)'
  BY <1>1, <1>5, <1>7, <1>8, <1>9, <1>11 DEF Lost
<1>13. Len(free)' <= Ram'
  <2>1. Len(free) <= Spare /\ Spare < Ram /\ Spare \in Nat /\ Ram \in Nat
    BY Memory, StackHasRoom
  <2> QED
    BY <1>1, <2>1
<1> QED
  BY <1>1, <1>2, <1>7, <1>8, <1>9, <1>10, <1>11, <1>12, <1>13 DEF TxOverrun

\* From then on nothing finds it again.
LEMMA SendOverrun ==
  ASSUME Shapes, TxOverrun, NEW h \in Desc, NEW f \in Nat, NEW z \in Nat, Filled(h, f, z)
  PROVE  TxOverrun'
<1>1. /\ UNCHANGED <<dev, tx_desc_idx>>
      /\ z = Len(free) /\ 1 <= z /\ f = free[z] /\ Ram' = Ram /\ Len(free)' = z - 1
      /\ \A k \in 1 .. z - 1 : free'[k] = free[k]
      /\ cpu'.frame = f
      /\ q'["tx"].avail_idx = q["tx"].avail_idx /\ q'["tx"].desc[h] = f
      /\ \A d \in Desc : d # h => q'["tx"].desc[d] = q["tx"].desc[d]
  BY DEF Filled
<1>2. z \in 1 .. z /\ \A k \in 1 .. z - 1 : k \in 1 .. z
  BY <1>1
<1>3. /\ \A k \in 1 .. z : free[k] \in Places
      /\ \A d \in Desc : q["tx"].desc[d] \in Places
  BY <1>1 DEF Places
<1>4. f \in Places /\ \A k \in 1 .. Len(free)' : free'[k] \in Places
  BY <1>1, <1>2, <1>3
<1>5. \A d \in Desc : q'["tx"].desc[d] \in Places
  BY <1>1, <1>3, <1>4
<1>6. Len(free)' <= Ram /\ tx_desc_idx' = q'["tx"].avail_idx
  <2>1. z <= Ram /\ Ram \in Nat /\ tx_desc_idx = q["tx"].avail_idx
    BY <1>1, Memory DEF TxOverrun
  <2> QED
    BY <1>1, <2>1
<1> QED
  BY <1>1, <1>4, <1>5, <1>6, OverrunKept

\* net_send, with and without a frame.
LEMMA SendKeeps ==
  ASSUME NetInv, net_send
  PROVE  NetInv'
<1>0. Shapes /\ SetUp /\ TxSound /\ Ready /\ At("send") /\ InPacket /\ ~At("publish")
  BY DEF NetInv, net_send, Ready, At, InPacket
<1>1. CASE free = <<>>
  <2>1. Go("recycle") /\ UNCHANGED <<pmm, q, overrun, rings, dev, tx_desc_idx, isr>>
    BY <1>1 DEF net_send
  <2>2. cpu' \in CpuState /\ cpu'.at = "recycle" /\ cpu'.frame = cpu.frame /\ cpu'.id = cpu.id
    BY <1>0, <2>1, Went DEF Label
  <2>3. Ready' /\ ~At("publish")'
    BY <2>2 DEF Ready, At
  <2>4. SetUp'
    BY <1>0, <2>1, <2>3, SetUpKept DEF Ram
  <2>5. isr' \in BOOLEAN
    BY <1>0, <2>1 DEF Shapes
  <2> QED
    BY <1>0, <2>1, <2>2, <2>3, <2>4, <2>5, GoKeeps
<1>2. CASE free # <<>> /\ overrun
  <2>1. TxOverrun /\ tx_desc_idx = q["tx"].avail_idx
    BY <1>0, <1>2 DEF TxSound, TxOverrun
  <2>2. PICK h \in Desc, f \in Nat, z \in Nat : Filled(h, f, z)
    BY <1>2, <2>1, SendFills
  <2>3. TxOverrun'
    BY <1>0, <2>1, <2>2, SendOverrun
  <2>4. overrun'
    BY <1>2, <2>2 DEF Filled
  <2> QED
    BY <2>2, <2>3, <2>4 DEF NetInv, TxSound, Filled
<1>3. CASE free # <<>> /\ ~overrun
  <2>1. PICK l \in Nat, u \in Nat, n \in Nat, a \in Nat : TxAt(l, u, n, a) /\ FramesAt(l, a)
    BY <1>0, <1>3 DEF TxSound, TxInOrder
  <2>2. /\ tx_desc_idx = q["tx"].avail_idx /\ l <= a /\ a <= l + QSize
        /\ q["tx"].last_used_idx = l % IdxMod /\ q["tx"].avail_idx = a % IdxMod
    BY <2>1 DEF TxAt, Positions
  <2>3. PICK h \in Desc, f \in Nat, z \in Nat : Filled(h, f, z)
    BY <1>3, <2>2, SendFills
  <2>4. Cardinality(Out) = a - l
    <3>1. Cardinality(Between(l % IdxMod, a % IdxMod)) = a - l
      BY <2>2, BetweenIs
    <3> QED
      BY <2>2, <3>1 DEF Out
  <2>5. overrun' = (a - l >= QSize)
    BY <1>3, <2>3, <2>4 DEF Filled
  <2>6. CASE a < l + QSize
    <3>1. TxInOrder'
      BY <2>1, <2>3, <2>6, SendInOrder
    <3>3. ~(a - l >= QSize)
      BY <2>6, Sizes
    <3>2. ~overrun'
      BY <2>5, <3>3
    <3> QED
      BY <2>3, <3>1, <3>2 DEF NetInv, TxSound, Filled
  <2>7. CASE a = l + QSize
    <3>1. TxOverrun'
      BY <1>0, <2>1, <2>3, <2>7, SendOverruns
    <3>3. a - l >= QSize
      BY <2>7, Sizes
    <3>2. overrun'
      BY <2>5, <3>3
    <3> QED
      BY <2>3, <3>1, <3>2 DEF NetInv, TxSound, Filled
  <2> QED
    BY <2>2, <2>6, <2>7, Sizes
<1> QED
  BY <1>1, <1>2, <1>3

\* The device may see the reply, after an overrun,
LEMMA PublishOverrun ==
  ASSUME NetInv, overrun, Publish
  PROVE  NetInv'
<1>0. /\ Shapes /\ SetUp /\ RxSound /\ TxOverrun /\ Ready /\ "rx" \in Queue /\ "tx" \in Queue
      /\ InPacket
  BY DEF NetInv, Publish, Ready, At, Queue, InPacket, TxSound
<1>1. UNCHANGED <<pmm, rings, dev, isr, overrun>>
  BY DEF Publish
<1>2. PICK x \in QueueState, i \in Idx :
        x = q["tx"] /\ i = Inc(q["tx"].avail_idx) /\ i = Inc(tx_desc_idx)
  <2>1. q["tx"] \in QueueState /\ tx_desc_idx \in Idx /\ tx_desc_idx = q["tx"].avail_idx
    BY <1>0, Parts DEF Shapes, TxOverrun
  <2> QED
    BY <2>1, IncIs
<1> DEFINE r == [x EXCEPT !.avail_idx = i]
<1>3. q' = [q EXCEPT !["tx"] = r] /\ tx_desc_idx' = i
  BY <1>2 DEF Publish
<1>4. r \in QueueState /\ r.avail_idx = i /\ r.desc = x.desc
  BY DEF QueueState
<1> HIDE DEF r
<1>5. q' \in [Queue -> QueueState] /\ q'["tx"] = r /\ q'["rx"] = q["rx"]
  BY <1>0, <1>3, <1>4, QueueChanged
<1>6. cpu' \in CpuState /\ cpu'.at = "recycle" /\ cpu'.frame = NULL /\ cpu'.id = cpu.id
  BY <1>0 DEF Shapes, CpuState, Label, Publish
<1>7. Shapes'
  BY <1>0, <1>1, <1>3, <1>5, <1>6 DEF Shapes, CpuState
<1>8. Ready' /\ SetUp'
  <2>1. Ready'
    BY <1>6 DEF Ready
  <2> QED
    BY <1>0, <1>1, <1>5, <2>1, SetUpKept DEF Ram
<1>9. RxSound'
  BY <1>0, <1>1, <1>5, <1>6, RxKept
<1>10. TxOverrun'
  <2>1. free' = free /\ Ram' = Ram /\ q'["tx"].desc = q["tx"].desc
    BY <1>1, <1>2, <1>4, <1>5 DEF free, Ram
  <2>2. /\ \A j \in 1 .. Len(free) : free[j] \in Places
        /\ \A e \in Desc : q["tx"].desc[e] \in Places
    BY DEF Places
  <2>3. Len(free)' <= Ram /\ tx_desc_idx' = q'["tx"].avail_idx
    BY <1>0, <1>3, <1>4, <1>5, <2>1 DEF TxOverrun
  <2> QED
    BY <1>0, <1>1, <1>6, <2>1, <2>2, <2>3, OverrunKept
<1> QED
  BY <1>1, <1>7, <1>8, <1>9, <1>10 DEF NetInv, TxSound

\* ... and before one: it is out, at position a.
LEMMA PublishKeeps ==
  ASSUME NetInv, ~overrun, Publish
  PROVE  NetInv'
<1>0. /\ Shapes /\ SetUp /\ RxSound /\ TxSound /\ Ready /\ "rx" \in Queue /\ "tx" \in Queue
      /\ At("publish") /\ InPacket
  BY DEF NetInv, Publish, Ready, At, Queue, InPacket
<1>1. UNCHANGED <<pmm, rings, dev, isr, overrun>>
  BY DEF Publish
<1>2. PICK l \in Nat, u \in Nat, n \in Nat, a \in Nat : TxAt(l, u, n, a) /\ FramesAt(l, a)
  BY <1>0 DEF TxSound, TxInOrder
<1>3. /\ l <= u /\ u <= n /\ n <= a /\ a < l + QSize
      /\ q["tx"].avail_idx = a % IdxMod /\ tx_desc_idx = a % IdxMod
      /\ q["tx"].avail[a % QSize] = a % QSize
  BY <1>0, <1>2 DEF TxAt, Positions, At
<1>4. a + 1 \in Nat /\ Inc(a % IdxMod) = (a + 1) % IdxMod /\ (a + 1) % IdxMod \in Idx
  BY PositionIs
<1> DEFINE i0 == (a + 1) % IdxMod
           r == [q["tx"] EXCEPT !.avail_idx = i0]
<1>5. q' = [q EXCEPT !["tx"] = r] /\ tx_desc_idx' = i0
  BY <1>3, <1>4 DEF Publish
<1>6. /\ r \in QueueState /\ r.avail_idx = i0 /\ r.last_used_idx = q["tx"].last_used_idx
      /\ r.used = q["tx"].used /\ r.used_idx = q["tx"].used_idx
      /\ r.avail = q["tx"].avail /\ r.desc = q["tx"].desc
  <2>1. i0 \in Idx /\ q["tx"] \in QueueState
    BY <1>0, <1>4, Parts
  <2> HIDE DEF i0
  <2> QED
    BY <2>1 DEF QueueState
<1> HIDE DEF r
<1>7. q' \in [Queue -> QueueState] /\ q'["tx"] = r /\ q'["rx"] = q["rx"]
  BY <1>0, <1>5, <1>6, QueueChanged
<1>8. cpu' \in CpuState /\ cpu'.at = "recycle" /\ cpu'.frame = NULL /\ cpu'.id = cpu.id
  BY <1>0 DEF Shapes, CpuState, Label, Publish
<1>9. Shapes'
  BY <1>0, <1>1, <1>4, <1>5, <1>7, <1>8 DEF Shapes, CpuState
<1>10. Ready' /\ SetUp'
  <2>1. Ready'
    BY <1>8 DEF Ready
  <2> QED
    BY <1>0, <1>1, <1>7, <2>1, SetUpKept DEF Ram
<1>11. RxSound'
  BY <1>0, <1>1, <1>7, <1>8, RxKept
<1>12. TxAt(l, u, n, a + 1)'
  <2>1. n <= a + 1 /\ a + 1 <= l + QSize
    BY <1>3, Sizes
  <2>2. Positions("tx", l, u, n, a + 1)'
    BY <1>1, <1>2, <1>6, <1>7, <2>1 DEF TxAt, Positions
  <2>3. \A i \in l .. (a + 1) - 1 : i = a \/ i \in l .. a - 1
    OBVIOUS
  <2>4. \A i \in l .. (a + 1) - 1 : q'["tx"].avail[i % QSize] = i % QSize
    BY <1>2, <1>3, <1>6, <1>7, <2>3 DEF TxAt
  <2>5. /\ \A i \in l .. u - 1 : q'["tx"].used[i % QSize] = i % QSize
        /\ \A i \in u .. n - 1 :
             /\ dev'["tx"].busy[i - u + 1].id = i % QSize
             /\ dev'["tx"].busy[i - u + 1].addr = q'["tx"].desc[i % QSize]
    BY <1>1, <1>2, <1>6, <1>7 DEF TxAt
  <2>6. ~At("publish")'
    BY <1>8 DEF At
  <2> QED
    BY <1>5, <2>2, <2>4, <2>5, <2>6 DEF TxAt
<1>13. FramesAt(l, a + 1)'
  <2>0. /\ \A k \in 1 .. Len(free) : free[k] \in 0 .. Spare - 1
        /\ \A j, k \in 1 .. Len(free) : free[j] = free[k] => j = k
        /\ \A i \in l .. a - 1 :
             /\ q["tx"].desc[i % QSize] \in 0 .. Spare - 1
             /\ \A k \in 1 .. Len(free) : free[k] # q["tx"].desc[i % QSize]
             /\ \A j \in l .. a - 1 : q["tx"].desc[i % QSize] = q["tx"].desc[j % QSize] => i = j
        /\ cpu.frame \in 0 .. Spare - 1 /\ cpu.frame = q["tx"].desc[a % QSize]
        /\ \A k \in 1 .. Len(free) : free[k] # cpu.frame
        /\ \A i \in l .. a - 1 : q["tx"].desc[i % QSize] # cpu.frame
        /\ \A d \in Desc : q["tx"].desc[d] \in (0 .. Spare - 1) \cup {NULL}
        /\ \A g \in 0 .. Spare - 1 :
             \/ \E k \in 1 .. Len(free) : free[k] = g
             \/ \E i \in l .. a - 1 : q["tx"].desc[i % QSize] = g
             \/ cpu.frame = g
    BY <1>0, <1>2 DEF FramesAt
  <2>1. free' = free /\ Spare' = Spare /\ q'["tx"].desc = q["tx"].desc
    BY <1>1, <1>6, <1>7 DEF free, Spare, Ram
  <2>2. /\ \A i \in l .. (a + 1) - 1 : i = a \/ i \in l .. a - 1
        /\ \A i \in l .. a - 1 : i \in l .. (a + 1) - 1
        /\ a \in l .. (a + 1) - 1
    BY <1>3
  <2>3. \A i \in l .. (a + 1) - 1 :
          /\ q["tx"].desc[i % QSize] \in 0 .. Spare - 1
          /\ \A k \in 1 .. Len(free) : free[k] # q["tx"].desc[i % QSize]
    BY <2>0, <2>2
  <2>4. \A i, j \in l .. (a + 1) - 1 : q["tx"].desc[i % QSize] = q["tx"].desc[j % QSize] => i = j
    BY <2>0, <2>2
  <2>5. \A g \in 0 .. Spare - 1 :
          \/ \E k \in 1 .. Len(free) : free[k] = g
          \/ \E i \in l .. (a + 1) - 1 : q["tx"].desc[i % QSize] = g
    BY <2>0, <2>2
  <2>6. ~At("publish")' /\ cpu'.frame = NULL
    BY <1>8 DEF At
  <2>7. /\ \A k \in 1 .. Len(free) : free[k] \in 0 .. Spare - 1
        /\ \A j, k \in 1 .. Len(free) : free[j] = free[k] => j = k
        /\ \A d \in Desc : q["tx"].desc[d] \in (0 .. Spare - 1) \cup {NULL}
    BY <2>0
  <2>8. \A i \in l .. (a + 1) - 1 :
          /\ q'["tx"].desc[i % QSize] \in 0 .. Spare' - 1
          /\ \A k \in 1 .. Len(free') : free'[k] # q'["tx"].desc[i % QSize]
          /\ \A j \in l .. (a + 1) - 1 :
               q'["tx"].desc[i % QSize] = q'["tx"].desc[j % QSize] => i = j
    BY <2>1, <2>3, <2>4
  <2>9. /\ \A k \in 1 .. Len(free') : free'[k] \in 0 .. Spare' - 1
        /\ \A j, k \in 1 .. Len(free') : free'[j] = free'[k] => j = k
        /\ \A d \in Desc : q'["tx"].desc[d] \in (0 .. Spare' - 1) \cup {NULL}
    BY <2>1, <2>7
  <2>10. \A g \in 0 .. Spare' - 1 :
           \/ \E k \in 1 .. Len(free') : free'[k] = g
           \/ \E i \in l .. (a + 1) - 1 : q'["tx"].desc[i % QSize] = g
    BY <2>1, <2>5
  <2> QED
    BY <2>6, <2>8, <2>9, <2>10, Zenon DEF FramesAt
<1>14. TxSound'
  <2>1. TxInOrder'
    BY <1>4, <1>12, <1>13 DEF TxInOrder
  <2> QED
    BY <1>1, <2>1 DEF TxSound
<1> QED
  BY <1>9, <1>10, <1>11, <1>14 DEF NetInv

\* net_cleanup_tx frees the frame that the descriptor has now, after an overrun,
LEMMA CleanupOverrun ==
  ASSUME NetInv, overrun, net_cleanup_tx
  PROVE  NetInv'
<1>0. /\ Shapes /\ SetUp /\ RxSound /\ TxOverrun /\ Ready /\ "rx" \in Queue /\ "tx" \in Queue
      /\ ~InPacket
  BY DEF NetInv, net_cleanup_tx, Ready, At, Queue, InPacket, TxSound
<1>1. UNCHANGED <<rings, dev, tx_desc_idx, isr, cpu, overrun>>
  BY DEF net_cleanup_tx
<1>2. PICK x \in QueueState, i \in Idx : x = q["tx"] /\ i = Inc(q["tx"].last_used_idx)
  <2>1. q["tx"] \in QueueState /\ q["tx"].last_used_idx \in Idx
    BY <1>0, Parts DEF QueueState
  <2> QED
    BY <2>1, IncIs
<1> DEFINE r == [x EXCEPT !.last_used_idx = i]
<1>3. q' = [q EXCEPT !["tx"] = r]
  BY <1>2 DEF net_cleanup_tx
<1>4. r \in QueueState /\ r.avail_idx = x.avail_idx /\ r.desc = x.desc
  BY DEF QueueState
<1> HIDE DEF r
<1>5. q' \in [Queue -> QueueState] /\ q'["tx"] = r /\ q'["rx"] = q["rx"]
  BY <1>0, <1>3, <1>4, QueueChanged
<1>6. PICK f \in Nat :
        f \in Places /\ f = q["tx"].desc[q["tx"].used[Slot(q["tx"].last_used_idx)]]
  <2>1. x.last_used_idx \in Idx /\ x.used \in [Desc -> Desc]
    BY DEF QueueState
  <2>2. x.last_used_idx \in Nat
    BY <2>1 DEF Idx
  <2>3. Slot(x.last_used_idx) \in Desc
    BY <2>2, PositionIs DEF Slot
  <2>4. x.used[Slot(x.last_used_idx)] \in Desc
    BY <2>1, <2>3
  <2>5. \A d \in Desc : q["tx"].desc[d] \in Nat /\ q["tx"].desc[d] \in Places
    BY <1>0 DEF TxOverrun, Places
  <2> QED
    BY <1>2, <2>4, <2>5
<1>7. free \in Seq(Nat) /\ Len(free) \in Nat /\ Ram \in Nat /\ Len(free) <= Ram
  BY <1>0, Memory DEF TxOverrun
<1>8. PICK t \in Seq(Nat) :
        /\ t = free \/ (Len(free) < Ram /\ t = Append(free, f))
        /\ pmm' = [pmm EXCEPT !.stack = t]
  <2>1. pmm' = [pmm EXCEPT !.stack = IF Len(free) < Ram THEN Append(free, f) ELSE free]
    BY <1>6 DEF net_cleanup_tx, pmm_free_frame, free, Ram
  <2>2. Append(free, f) \in Seq(Nat)
    BY <1>7
  <2> QED
    BY <1>7, <2>1, <2>2
<1>9. pmm' \in [stack : Seq(Nat), total_frames : RamSizes] /\ free' = t /\ Ram' = Ram
  BY <1>0, <1>8 DEF Shapes, Ram, free
<1>10. Len(t) <= Ram /\ \A k \in 1 .. Len(t) : t[k] \in Places
  <2>1. \A k \in 1 .. Len(free) : free[k] \in Places
    BY DEF Places
  <2>2. CASE t = free
    BY <1>7, <2>1, <2>2
  <2>3. CASE Len(free) < Ram /\ t = Append(free, f)
    <3>1. /\ Len(t) = Len(free) + 1 /\ t[Len(free) + 1] = f
          /\ \A k \in 1 .. Len(free) : t[k] = free[k]
      BY <1>7, <2>3, AppendProperties
    <3>2. \A k \in 1 .. Len(free) + 1 : k \in 1 .. Len(free) \/ k = Len(free) + 1
      BY <1>7
    <3> QED
      BY <1>6, <1>7, <2>1, <2>3, <3>1, <3>2
  <2> QED
    BY <1>8, <2>2, <2>3
<1>11. Shapes'
  BY <1>0, <1>1, <1>5, <1>9 DEF Shapes
<1>12. Ready' /\ SetUp'
  <2>1. Ready'
    BY <1>0, <1>1 DEF Ready
  <2> QED
    BY <1>0, <1>1, <1>5, <1>9, <2>1, SetUpKept
<1>13. RxSound'
  BY <1>0, <1>1, <1>5, RxKept DEF InPacket
<1>14. TxOverrun'
  <2>1. tx_desc_idx' = q'["tx"].avail_idx /\ q'["tx"].desc = q["tx"].desc
    BY <1>0, <1>1, <1>2, <1>4, <1>5 DEF TxOverrun
  <2>2. \A e \in Desc : q["tx"].desc[e] \in Places
    BY DEF Places
  <2> QED
    BY <1>0, <1>1, <1>9, <1>10, <2>1, <2>2, OverrunKept
<1> QED
  BY <1>1, <1>11, <1>12, <1>13, <1>14 DEF NetInv, TxSound

\* ... and that of the first reply that has come back, before one.
LEMMA CleanupKeeps ==
  ASSUME NetInv, ~overrun, net_cleanup_tx
  PROVE  NetInv'
<1>0. /\ Shapes /\ SetUp /\ RxSound /\ TxSound /\ Ready /\ "rx" \in Queue /\ "tx" \in Queue
      /\ At("tx") /\ ~InPacket /\ ~At("publish")
  BY DEF NetInv, net_cleanup_tx, Ready, At, Queue, InPacket
<1>1. UNCHANGED <<rings, dev, tx_desc_idx, isr, cpu, overrun>>
  BY DEF net_cleanup_tx
<1>2. PICK l \in Nat, u \in Nat, n \in Nat, a \in Nat : TxAt(l, u, n, a) /\ FramesAt(l, a)
  BY <1>0 DEF TxSound, TxInOrder
<1>3. /\ l < u /\ u <= n /\ n <= a /\ a <= l + QSize
      /\ q["tx"].last_used_idx = l % IdxMod
  <2>1. Positions("tx", l, u, n, a)
    BY <1>2 DEF TxAt
  <2> QED
    BY <2>1 DEF Positions, net_cleanup_tx
<1>4. l + 1 \in Nat /\ Inc(l % IdxMod) = (l + 1) % IdxMod /\ (l + 1) % IdxMod \in Idx
      /\ Slot(l % IdxMod) = l % QSize
  BY PositionIs
<1>5. q["tx"].used[l % QSize] = l % QSize
  <2>1. l \in l .. u - 1
    BY <1>3
  <2> QED
    BY <1>2, <2>1 DEF TxAt
<1> DEFINE i0 == (l + 1) % IdxMod
           r == [q["tx"] EXCEPT !.last_used_idx = i0]
<1>6. q' = [q EXCEPT !["tx"] = r]
  BY <1>3, <1>4 DEF net_cleanup_tx
<1>7. /\ r \in QueueState /\ r.last_used_idx = i0 /\ r.avail_idx = q["tx"].avail_idx
      /\ r.used = q["tx"].used /\ r.used_idx = q["tx"].used_idx
      /\ r.avail = q["tx"].avail /\ r.desc = q["tx"].desc
  <2>1. i0 \in Idx /\ q["tx"] \in QueueState
    BY <1>0, <1>4, Parts
  <2> HIDE DEF i0
  <2> QED
    BY <2>1 DEF QueueState
<1> HIDE DEF r
<1>8. q' \in [Queue -> QueueState] /\ q'["tx"] = r /\ q'["rx"] = q["rx"]
  BY <1>0, <1>6, <1>7, QueueChanged
<1>9. PICK z \in Nat, f \in Nat :
        z = Len(free) /\ z < Ram /\ f = q["tx"].desc[l % QSize] /\ f \in 0 .. Spare - 1
  <2>1. Len(free) \in Nat /\ Len(free) <= Spare /\ Spare < Ram /\ Spare \in Nat /\ Ram \in Nat
    BY <1>0, <1>2, Memory, StackHasRoom
  <2>2. l \in l .. a - 1
    BY <1>3
  <2>3. q["tx"].desc[l % QSize] \in 0 .. Spare - 1
    BY <1>2, <2>2 DEF FramesAt
  <2> QED
    BY <2>1, <2>3
<1>10. pmm' = [pmm EXCEPT !.stack = Append(free, f)]
  BY <1>3, <1>4, <1>5, <1>9 DEF net_cleanup_tx, pmm_free_frame, free, Ram
<1>11. /\ pmm' \in [stack : Seq(Nat), total_frames : RamSizes] /\ Ram' = Ram
       /\ Len(free)' = z + 1 /\ free'[z + 1] = f
       /\ \A k \in 1 .. z : free'[k] = free[k]
  <2> DEFINE t == Append(free, f)
  <2>1. /\ t \in Seq(Nat) /\ Len(t) = z + 1 /\ t[z + 1] = f
        /\ \A k \in 1 .. z : t[k] = free[k]
    <3>1. free \in Seq(Nat)
      BY <1>0, Memory
    <3> QED
      BY <1>9, <3>1, AppendProperties
  <2>2. pmm' = [pmm EXCEPT !.stack = t]
    BY <1>10
  <2> HIDE DEF t
  <2>3. /\ pmm' \in [stack : Seq(Nat), total_frames : RamSizes] /\ pmm'.stack = t /\ Ram' = Ram
    BY <1>0, <2>1, <2>2 DEF Shapes, Ram
  <2>4. free' = t
    BY <2>3 DEF free
  <2> QED
    BY <2>1, <2>3, <2>4
<1>12. Shapes'
  BY <1>0, <1>1, <1>8, <1>11 DEF Shapes
<1>13. Ready' /\ SetUp'
  <2>1. Ready'
    BY <1>0, <1>1 DEF Ready
  <2> QED
    BY <1>0, <1>1, <1>8, <1>11, <2>1, SetUpKept
<1>14. RxSound'
  BY <1>0, <1>1, <1>8, RxKept DEF InPacket
<1>15. TxAt(l + 1, u, n, a)'
  <2>1. l + 1 <= u /\ a <= (l + 1) + QSize
    BY <1>3, Sizes
  <2>2. Positions("tx", l + 1, u, n, a)'
    BY <1>1, <1>2, <1>7, <1>8, <2>1 DEF TxAt, Positions
  <2>3. \A i \in Nat : /\ i \in l + 1 .. a - 1 => i \in l .. a - 1
                      /\ i \in l + 1 .. u - 1 => i \in l .. u - 1
    OBVIOUS
  <2>4. /\ \A i \in l + 1 .. a - 1 : q'["tx"].avail[i % QSize] = i % QSize
        /\ \A i \in l + 1 .. u - 1 : q'["tx"].used[i % QSize] = i % QSize
    BY <1>2, <1>7, <1>8, <2>3 DEF TxAt
  <2>5. \A i \in u .. n - 1 :
             /\ dev'["tx"].busy[i - u + 1].id = i % QSize
             /\ dev'["tx"].busy[i - u + 1].addr = q'["tx"].desc[i % QSize]
    BY <1>1, <1>2, <1>7, <1>8 DEF TxAt
  <2>6. ~At("publish")' /\ tx_desc_idx' = a % IdxMod
    BY <1>0, <1>1, <1>2 DEF At, TxAt
  <2> QED
    BY <2>2, <2>4, <2>5, <2>6 DEF TxAt
<1>16. FramesAt(l + 1, a)'
  <2>0. /\ \A k \in 1 .. z : free[k] \in 0 .. Spare - 1
        /\ \A j, k \in 1 .. z : free[j] = free[k] => j = k
        /\ \A i \in l .. a - 1 :
             /\ q["tx"].desc[i % QSize] \in 0 .. Spare - 1
             /\ \A k \in 1 .. z : free[k] # q["tx"].desc[i % QSize]
             /\ \A j \in l .. a - 1 : q["tx"].desc[i % QSize] = q["tx"].desc[j % QSize] => i = j
        /\ cpu.frame = NULL
        /\ \A d \in Desc : q["tx"].desc[d] \in (0 .. Spare - 1) \cup {NULL}
        /\ \A g \in 0 .. Spare - 1 :
             \/ \E k \in 1 .. z : free[k] = g
             \/ \E i \in l .. a - 1 : q["tx"].desc[i % QSize] = g
             \/ cpu.frame = g
    BY <1>0, <1>2, <1>9 DEF FramesAt
  <2>1. Spare' = Spare /\ q'["tx"].desc = q["tx"].desc
    BY <1>7, <1>8, <1>11 DEF Spare
  <2>2. /\ \A i \in l + 1 .. a - 1 : i # l /\ i \in l .. a - 1
        /\ \A i \in l .. a - 1 : i = l \/ i \in l + 1 .. a - 1
        /\ l \in l .. a - 1
    BY <1>3
  <2>3. /\ \A k \in 1 .. z + 1 : k = z + 1 \/ k \in 1 .. z
        /\ \A k \in 1 .. z : k \in 1 .. z + 1
        /\ z + 1 \in 1 .. z + 1
    OBVIOUS
  <2>4. /\ \A k \in 1 .. z + 1 : free'[k] \in 0 .. Spare - 1
        /\ \A k \in 1 .. z : free'[k] # f
    <3>1. f = q["tx"].desc[l % QSize] /\ f \in 0 .. Spare - 1
      BY <1>9
    <3>2. \A k \in 1 .. z : free[k] # f
      BY <2>0, <2>2, <3>1
    <3>3. \A k \in 1 .. z : free'[k] = free[k]
      BY <1>11
    <3>4. \A k \in 1 .. z + 1 : free'[k] \in 0 .. Spare - 1
      BY <1>11, <2>0, <2>3, <3>1
    <3> QED
      BY <3>2, <3>3, <3>4
  <2>5. \A j, k \in 1 .. z + 1 : free'[j] = free'[k] => j = k
    <3> TAKE j, k \in 1 .. z + 1
    <3>1. CASE j = z + 1 \/ k = z + 1
      BY <1>11, <2>3, <2>4, <3>1
    <3>2. CASE j \in 1 .. z /\ k \in 1 .. z
      BY <1>11, <2>0, <3>2
    <3> QED
      BY <2>3, <3>1, <3>2
  <2>6. \A i \in l + 1 .. a - 1 :
          /\ q["tx"].desc[i % QSize] \in 0 .. Spare - 1
          /\ q["tx"].desc[i % QSize] # f
          /\ \A j \in l + 1 .. a - 1 : q["tx"].desc[i % QSize] = q["tx"].desc[j % QSize] => i = j
    BY <1>9, <2>0, <2>2
  <2>7. \A i \in l + 1 .. a - 1 : \A k \in 1 .. z + 1 : free'[k] # q["tx"].desc[i % QSize]
    BY <1>11, <2>0, <2>2, <2>3, <2>6
  <2>8. ASSUME NEW g \in 0 .. Spare - 1
        PROVE  \/ \E k \in 1 .. z + 1 : free'[k] = g
               \/ \E i \in l + 1 .. a - 1 : q["tx"].desc[i % QSize] = g
    <3>1. CASE \E k \in 1 .. z : free[k] = g
      BY <1>11, <2>3, <3>1
    <3>2. CASE \E i \in l .. a - 1 : q["tx"].desc[i % QSize] = g
      <4>1. PICK i \in l .. a - 1 : q["tx"].desc[i % QSize] = g
        BY <3>2
      <4>2. CASE i = l
        BY <1>9, <1>11, <2>3, <4>1, <4>2
      <4>3. CASE i \in l + 1 .. a - 1
        BY <4>1, <4>3
      <4> QED
        BY <2>2, <4>2, <4>3
    <3>3. cpu.frame # g
      BY <2>0, Sizes
    <3> QED
      BY <2>0, <3>1, <3>2, <3>3
  <2>9. ~At("publish")' /\ cpu'.frame = NULL
    BY <1>0, <1>1, <2>0 DEF At
  <2>10. \A d \in Desc : q["tx"].desc[d] \in (0 .. Spare - 1) \cup {NULL}
    BY <2>0
  <2> QED
    BY <1>11, <2>1, <2>4, <2>5, <2>6, <2>7, <2>8, <2>9, <2>10 DEF FramesAt
<1>17. TxSound'
  <2>1. TxInOrder'
    BY <1>4, <1>15, <1>16 DEF TxInOrder
  <2> QED
    BY <1>1, <2>1 DEF TxSound
<1> QED
  BY <1>12, <1>13, <1>14, <1>17 DEF NetInv

\* No step breaks the invariant.
LEMMA NetSteps == NetInv /\ [Next]_vars => NetInv'
<1> SUFFICES ASSUME NetInv, [Next]_vars PROVE NetInv'
  OBVIOUS
<1>1. ASSUME NEW w \in Queue, virtio_init_queue(w) PROVE NetInv'
  BY <1>1, InitQueueKeeps
<1>2. ASSUME NEW w \in Queue, Fetch(w) PROVE NetInv'
  BY <1>2, FetchRxKeeps, FetchTxKeeps, FetchTxOverrun DEF Queue
<1>3. ASSUME NEW w \in Queue, Use(w) PROVE NetInv'
  <2>1. Ready
    <3> SUFFICES ASSUME ~Ready PROVE FALSE
      OBVIOUS
    <3>1. dev = [v \in Queue |-> [next |-> 0, busy |-> <<>>]]
      BY DEF NetInv, SetUp
    <3>2. dev[w].busy = <<>>
      BY <3>1
    <3>3. Len(dev[w].busy) = 0 /\ dev[w].busy \in Seq(Nat)
      BY <3>2
    <3>4. DOMAIN dev[w].busy = {}
      BY <3>3
    <3> QED
      BY <1>3, <3>4 DEF Use
  <2> QED
    BY <1>3, <2>1, UseRxKeeps, UseTxKeeps, UseTxOverrun DEF Queue
<1>4. CASE net_rx_fill
  BY <1>4, FillKeeps
<1>5. CASE virtio_net_handle_irq \/ RxDone \/ IrqDone
  BY <1>5, IrqKeeps
<1>6. CASE net_poll_rx
  BY <1>6, PollKeeps
<1>7. CASE Recycle
  BY <1>7, RecycleKeeps
<1>8. CASE net_send
  BY <1>8, SendKeeps
<1>9. CASE Publish
  BY <1>9, PublishKeeps, PublishOverrun
<1>10. CASE net_cleanup_tx
  BY <1>10, CleanupKeeps, CleanupOverrun
<1>11. CASE UNCHANGED vars
  <2>1. UNCHANGED <<pmm, rings, q, dev, tx_desc_idx, isr, cpu, overrun>>
    BY <1>11 DEF vars
  <2>2. (Shapes' <=> Shapes) /\ (SetUp' <=> SetUp) /\ (Ready' <=> Ready)
    BY <2>1 DEF Shapes, SetUp, Ready, At, Ram, free, RingsBelow
  <2>3. Ready => RxSound'
    BY <2>1, RxKept DEF NetInv, InPacket
  <2>4. Ready => TxSound'
    BY <2>1, TxKept DEF NetInv, At
  <2> QED
    BY <2>2, <2>3, <2>4 DEF NetInv
<1> QED
  BY <1>1, <1>2, <1>3, <1>4, <1>5, <1>6, <1>7, <1>8, <1>9, <1>10, <1>11 DEF Next, Handler

\* The driver's invariant holds for every queue size, index width and memory.
THEOREM NetInvariant == Spec => []NetInv
<1>1. Init => NetInv
  BY NetStarts
<1>2. NetInv /\ [Next]_vars => NetInv'
  BY NetSteps
<1> QED
  BY <1>1, <1>2, PTL DEF Spec
------------------------------------------------------------------------------
\* The invariant, spelled out for a driver that is being set up.
LEMMA Unready ==
  ASSUME NetInv, ~Ready
  PROVE  /\ Shapes /\ SetUp
         /\ \A k \in 1 .. Len(free) : free[k] = k - 1
         /\ q = [w \in Queue |-> EmptyQueue]
         /\ dev = [w \in Queue |-> [next |-> 0, busy |-> <<>>]]
         /\ cpu.frame = NULL /\ ~overrun
         /\ At("init rx") \/ At("init tx") \/ At("fill")
         /\ \A w \in Queue : dev[w].busy = <<>> /\ \A d \in Desc : q[w].desc[d] = NULL
<1>1. /\ Shapes /\ SetUp /\ cpu.frame = NULL /\ ~overrun
      /\ \A k \in 1 .. Len(free) : free[k] = k - 1
      /\ At("init rx") \/ At("init tx") \/ At("fill")
  BY DEF NetInv, SetUp, Ready, At
<1>2. /\ q = [w \in Queue |-> EmptyQueue]
      /\ dev = [w \in Queue |-> [next |-> 0, busy |-> <<>>]]
  BY DEF NetInv, SetUp
<1>3. \A w \in Queue : dev[w].busy = <<>>
  BY <1>2
<1>4. \A w \in Queue : q[w] = EmptyQueue
  BY <1>2
<1>5. \A d \in Desc : EmptyQueue.desc[d] = NULL
  BY DEF EmptyQueue
<1> QED
  BY <1>1, <1>2, <1>3, <1>4, <1>5

\* A driver that runs.
LEMMA Running ==
  ASSUME NetInv, Ready
  PROVE  /\ Shapes /\ SetUp /\ RxSound /\ TxSound
         /\ rings["rx"] = RingsBelow(Ram) /\ rings["tx"] = RingsBelow(Ram - RingSize)
         /\ q["rx"].desc = [d \in Desc |-> Ram - 2 * RingSize - 1 - d]
BY DEF NetInv, SetUp, Ready, At

\* The buffers that the device works on.
LEMMA BusyBuffers ==
  ASSUME Shapes, NEW w \in Queue
  PROVE  /\ dev[w].busy \in Seq(Buffer) /\ Len(dev[w].busy) \in Nat
         /\ DOMAIN dev[w].busy = 1 .. Len(dev[w].busy)
         /\ \A k \in 1 .. Len(dev[w].busy) : dev[w].busy[k] \in Buffer /\ dev[w].busy[k].id \in Desc
<1>1. PICK b \in Seq(Buffer) : b = dev[w].busy
  BY Parts
<1>2. Len(b) \in Nat /\ DOMAIN b = 1 .. Len(b) /\ \A k \in 1 .. Len(b) : b[k] \in Buffer
  OBVIOUS
<1>3. \A x \in Buffer : x.id \in Desc
  BY DEF Buffer
<1> QED
  BY <1>1, <1>2, <1>3

\* Replies are in spare frames, overrun or not.
LEMMA TxFrames ==
  ASSUME NetInv, Ready
  PROVE  /\ Len(free) <= Ram
         /\ \A k \in 1 .. Len(free) : free[k] \in 0 .. Spare - 1
         /\ \A d \in Desc : q["tx"].desc[d] \in (0 .. Spare - 1) \cup {NULL}
         /\ \A k \in 1 .. Len(dev["tx"].busy) : dev["tx"].busy[k].addr \in 0 .. Spare - 1
         /\ cpu.frame \in (0 .. Spare - 1) \cup {NULL}
<1>0. Shapes /\ TxSound
  BY Running
<1>1. CASE overrun
  BY <1>0, <1>1 DEF TxSound, TxOverrun
<1>2. CASE ~overrun
  <2>1. PICK l \in Nat, u \in Nat, n \in Nat, a \in Nat : TxAt(l, u, n, a) /\ FramesAt(l, a)
    BY <1>0, <1>2 DEF TxSound, TxInOrder
  <2>2. l <= u /\ u <= n /\ n <= a /\ Len(dev["tx"].busy) = n - u
    BY <2>1 DEF TxAt, Positions
  <2>3. ASSUME NEW k \in 1 .. n - u PROVE dev["tx"].busy[k].addr \in 0 .. Spare - 1
    <3>1. PICK i \in Nat : i \in u .. n - 1 /\ i \in l .. a - 1 /\ i - u + 1 = k
      <4>1. u + k - 1 \in u .. n - 1 /\ u + k - 1 \in l .. a - 1 /\ (u + k - 1) - u + 1 = k
        BY <2>2
      <4> QED
        BY <4>1
    <3>2. dev["tx"].busy[k].addr = q["tx"].desc[i % QSize]
      BY <2>1, <3>1 DEF TxAt
    <3>3. q["tx"].desc[i % QSize] \in 0 .. Spare - 1
      BY <2>1, <3>1 DEF FramesAt
    <3> QED
      BY <3>2, <3>3
  <2>4. Len(free) <= Ram
    <3>1. Len(free) \in Nat /\ Spare \in Nat /\ Ram \in Nat /\ Len(free) <= Spare /\ Spare < Ram
      BY <1>0, <2>1, Memory, StackHasRoom
    <3> QED
      BY <3>1
  <2>5. /\ \A k \in 1 .. Len(free) : free[k] \in 0 .. Spare - 1
        /\ \A d \in Desc : q["tx"].desc[d] \in (0 .. Spare - 1) \cup {NULL}
        /\ cpu.frame \in (0 .. Spare - 1) \cup {NULL}
    BY <2>1 DEF FramesAt
  <2> QED
    BY <2>2, <2>3, <2>4, <2>5
<1> QED
  BY <1>1, <1>2

\* The addresses of the receive buffers.
LEMMA RxAddresses ==
  ASSUME NetInv, Ready, NEW d \in Desc
  PROVE  q["rx"].desc[d] \in Spare .. Spare + QSize - 1 /\ q["rx"].desc[d] = Spare + QSize - 1 - d
<1>1. Ram \in Nat /\ Spare \in Nat /\ Ram = 2 * RingSize + QSize + Spare /\ RingSize \in Nat
      /\ QSize \in Nat
  BY Running, Memory, Sizes
<1>2. d \in Nat /\ d < QSize
  BY <1>1 DEF Desc
<1>3. q["rx"].desc[d] = Ram - 2 * RingSize - 1 - d
  BY Running
<1>4. Ram - 2 * RingSize - 1 - d = Spare + QSize - 1 - d
  BY <1>1, <1>2
<1> QED
  BY <1>1, <1>2, <1>3, <1>4

\* The invariant implies the types.
LEMMA TypesOK == NetInv => TypeOK
<1> SUFFICES ASSUME NetInv PROVE TypeOK
  OBVIOUS
<1>0. Shapes /\ SetUp
  BY DEF NetInv
<1>1. /\ Ram \in Nat /\ Spare \in Nat /\ Ram = 2 * RingSize + QSize + Spare
      /\ RingSize \in Nat /\ QSize \in Nat /\ free \in Seq(Nat) /\ Len(free) \in Nat
      /\ NULL \notin Nat
  BY <1>0, Memory, Sizes
<1>2. /\ Frame = 0 .. Ram - 1
      /\ 0 .. Spare - 1 \subseteq Frame /\ Spare .. Spare + QSize - 1 \subseteq Frame
  <2>1. Frame = 0 .. Ram - 1
    BY DEF Frame, Ram
  <2> QED
    BY <1>1, <2>1
<1>3. free \in Seq(Frame) /\ Len(free) <= Ram
  <2>1. CASE ~Ready
    <3>1. Len(free) <= Ram
      <4>1. Len(free) = Ram - 0 \/ Len(free) = Ram - RingSize \/ Len(free) = Ram - 2 * RingSize
        BY <2>1, <1>0, Unready DEF SetUp
      <4> QED
        BY <1>1, <4>1
    <3>2. \A k \in 1 .. Len(free) : free[k] \in Frame
      <4>1. \A k \in 1 .. Len(free) : free[k] = k - 1
        BY <2>1, Unready
      <4>2. \A k \in 1 .. Len(free) : k - 1 \in 0 .. Ram - 1
        BY <1>1, <3>1
      <4> QED
        BY <1>2, <4>1, <4>2
    <3> QED
      BY <1>1, <3>1, <3>2
  <2>2. CASE Ready
    <3>1. Len(free) <= Ram /\ \A k \in 1 .. Len(free) : free[k] \in Frame
      BY <1>2, <2>2, TxFrames
    <3> QED
      BY <1>1, <3>1
  <2> QED
    BY <2>1, <2>2
<1>4. ASSUME NEW w \in Queue
      PROVE  rings[w] \in [desc : Frame, avail : Frame, used : Frame] \cup {NULL}
  <2>1. ASSUME NEW t \in Nat, RingSize <= t, t <= Ram
        PROVE  RingsBelow(t) \in [desc : Frame, avail : Frame, used : Frame]
    <3>1. /\ t - DescFrames \in 0 .. Ram - 1 /\ t - DescFrames - AvailFrames \in 0 .. Ram - 1
          /\ t - RingSize \in 0 .. Ram - 1
      BY <1>1, <2>1, Sizes
    <3> QED
      BY <1>2, <3>1 DEF RingsBelow
  <2>2. /\ Ram - RingSize \in Nat /\ RingSize <= Ram - RingSize
        /\ Ram - RingSize <= Ram /\ RingSize <= Ram
    BY <1>1
  <2>3. rings[w] = NULL \/ rings[w] = RingsBelow(Ram) \/ rings[w] = RingsBelow(Ram - RingSize)
    BY <1>0 DEF SetUp, Queue
  <2>4. RingsBelow(Ram) \in [desc : Frame, avail : Frame, used : Frame]
    BY <1>1, <2>1, <2>2
  <2>5. RingsBelow(Ram - RingSize) \in [desc : Frame, avail : Frame, used : Frame]
    BY <2>1, <2>2
  <2> QED
    BY <2>3, <2>4, <2>5
<1>5. ASSUME NEW w \in Queue PROVE \A d \in Desc : q[w].desc[d] \in Frame \cup {NULL}
  <2>1. CASE ~Ready
    BY <2>1, Unready
  <2>2. CASE Ready /\ w = "rx"
    BY <1>2, <2>2, RxAddresses
  <2>3. CASE Ready /\ w = "tx"
    BY <1>2, <2>3, TxFrames
  <2> QED
    BY <2>1, <2>2, <2>3 DEF Queue
<1>6. ASSUME NEW w \in Queue
      PROVE  q[w] \in [desc : [Desc -> Frame \cup {NULL}], avail : [Desc -> Desc],
                       avail_idx : Idx, used : [Desc -> Desc], used_idx : Idx,
                       last_used_idx : Idx]
  <2>1. q[w] \in QueueState /\ q[w].desc \in [Desc -> Nat \cup {NULL}]
    BY <1>0, Parts
  <2>2. q[w].desc \in [Desc -> Frame \cup {NULL}]
    BY <1>5, <2>1
  <2> QED
    BY <2>1, <2>2 DEF QueueState
<1>7. ASSUME NEW w \in Queue
      PROVE  dev[w].next \in Idx /\ dev[w].busy \in Seq([id : Desc, addr : Frame])
  <2>1. dev[w].next \in Idx /\ dev[w].busy \in Seq(Buffer) /\ Len(dev[w].busy) \in Nat
    BY <1>0, Parts
  <2>2. \A k \in 1 .. Len(dev[w].busy) : dev[w].busy[k].addr \in Frame
    <3>1. CASE ~Ready
      <4>1. dev[w].busy = <<>>
        BY <3>1, Unready
      <4> QED
        BY <4>1
    <3>2. CASE Ready /\ w = "rx"
      <4>1. PICK l \in Nat, u \in Nat, n \in Nat, a \in Nat : RxAt(l, u, n, a)
        BY <3>2, Running DEF RxSound
      <4>2. /\ Len(dev["rx"].busy) = n - u
            /\ \A k \in 1 .. n - u : dev["rx"].busy[k].addr = q["rx"].desc[dev["rx"].busy[k].id]
        BY <4>1 DEF RxAt, Positions
      <4>3. \A k \in 1 .. Len(dev[w].busy) : dev[w].busy[k].id \in Desc
        BY <1>0, BusyBuffers
      <4> QED
        BY <1>2, <3>2, <4>2, <4>3, RxAddresses
    <3>3. CASE Ready /\ w = "tx"
      BY <1>2, <3>3, TxFrames
    <3> QED
      BY <3>1, <3>2, <3>3 DEF Queue
  <2>3. \A k \in 1 .. Len(dev[w].busy) : dev[w].busy[k] \in [id : Desc, addr : Frame]
    <3>1. \A k \in 1 .. Len(dev[w].busy) : dev[w].busy[k] \in Buffer
      BY <2>1
    <3> QED
      BY <2>2, <3>1 DEF Buffer
  <2>4. PICK b : b = dev[w].busy
    OBVIOUS
  <2> DEFINE B == [id : Desc, addr : Frame]
  <2>5. b \in Seq(Buffer) /\ \A k \in 1 .. Len(b) : b[k] \in B
    BY <2>1, <2>3, <2>4
  <2> HIDE DEF B
  <2>6. b \in Seq(B)
    BY <2>5
  <2> QED
    BY <2>1, <2>4, <2>6 DEF B
<1>8. cpu.frame \in Frame \cup {NULL} /\ cpu.id \in Desc
  <2>1. CASE ~Ready
    BY <1>0, <2>1, Unready DEF Shapes
  <2>2. CASE Ready
    BY <1>0, <1>2, <2>2, TxFrames DEF Shapes
  <2> QED
    BY <2>1, <2>2
<1>9. Ram \in RamSizes /\ tx_desc_idx \in Idx /\ isr \in BOOLEAN /\ overrun \in BOOLEAN
  BY <1>0 DEF Shapes, Ram
<1> QED
  BY <1>3, <1>4, <1>6, <1>7, <1>8, <1>9 DEF TypeOK, Ram

\* ... and that the device is left alone.
LEMMA Undisturbed == NetInv => DeviceUndisturbed
<1> SUFFICES ASSUME NetInv, NEW w \in Queue, NEW k \in DOMAIN dev[w].busy,
                    w = "tx" => ~overrun
             PROVE  /\ q[w].desc[dev[w].busy[k].id] = dev[w].busy[k].addr
                    /\ dev[w].busy[k].addr \notin FreeFrames
                    /\ \A j \in DOMAIN dev[w].busy :
                         dev[w].busy[j].id = dev[w].busy[k].id => j = k
  BY DEF DeviceUndisturbed
<1>0. Shapes /\ SetUp
  BY DEF NetInv
<1>1. /\ Len(dev[w].busy) \in Nat /\ DOMAIN dev[w].busy = 1 .. Len(dev[w].busy)
      /\ \A j \in 1 .. Len(dev[w].busy) : dev[w].busy[j].id \in Desc
  BY <1>0, BusyBuffers
<1>2. free \in Seq(Nat) /\ FreeFrames = {free[j] : j \in 1 .. Len(free)}
  BY <1>0, Memory DEF FreeFrames
<1>3. Ready
  <2> SUFFICES ASSUME ~Ready PROVE FALSE
    OBVIOUS
  <2>1. dev[w].busy = <<>>
    BY Unready
  <2> QED
    BY <1>1, <2>1
<1>5. \A j \in 1 .. Len(free) : free[j] \in 0 .. Spare - 1
  BY <1>3, TxFrames
<1>6. CASE w = "rx"
  <2>1. PICK l \in Nat, u \in Nat, n \in Nat, a \in Nat : RxAt(l, u, n, a)
    BY <1>3, Running DEF RxSound
  <2>2. l <= u /\ u <= n /\ n <= a /\ Len(dev["rx"].busy) = n - u
    BY <2>1 DEF RxAt, Positions
  <2>3. DOMAIN dev[w].busy = 1 .. n - u
    BY <1>1, <1>6, <2>2
  <2>4. dev["rx"].busy[k].addr = q["rx"].desc[dev["rx"].busy[k].id]
    BY <1>6, <2>1, <2>3 DEF RxAt
  <2>5. dev["rx"].busy[k].id \in Desc
    BY <1>1, <1>6
  <2>6. dev["rx"].busy[k].addr \notin FreeFrames
    <3>1. dev["rx"].busy[k].addr \in Spare .. Spare + QSize - 1
      BY <1>3, <2>4, <2>5, RxAddresses
    <3>2. Spare \in Nat /\ QSize \in Nat
      BY <1>0, Memory, Sizes
    <3>3. \A x \in Spare .. Spare + QSize - 1 : x \notin 0 .. Spare - 1
      BY <3>2
    <3> QED
      BY <1>2, <1>5, <3>1, <3>3
  <2>7. ASSUME NEW j \in 1 .. n - u, dev["rx"].busy[j].id = dev["rx"].busy[k].id PROVE j = k
    <3>1. \A i \in 1 .. n - u : /\ u + i - 1 \in l .. a - 1
                                /\ Holder(u + i - 1, u, n) = dev["rx"].busy[i].id
      <4> TAKE i \in 1 .. n - u
      <4>1. /\ u + i - 1 \in l .. a - 1 /\ ~(u + i - 1 < u) /\ u + i - 1 < n
            /\ (u + i - 1) - u + 1 = i
        BY <2>2
      <4> QED
        BY <4>1 DEF Holder
    <3>2. k \in 1 .. n - u
      BY <2>3
    <3>3. Holder(u + j - 1, u, n) = Holder(u + k - 1, u, n)
      BY <2>7, <3>1, <3>2
    <3>4. u + j - 1 = u + k - 1
      BY <2>1, <3>1, <3>2, <3>3 DEF RxAt
    <3> QED
      BY <3>2, <3>4
  <2> QED
    BY <1>6, <2>3, <2>4, <2>6, <2>7
<1>7. CASE w = "tx"
  <2>1. PICK l \in Nat, u \in Nat, n \in Nat, a \in Nat : TxAt(l, u, n, a) /\ FramesAt(l, a)
    BY <1>3, <1>7, Running DEF TxSound, TxInOrder
  <2>2. l <= u /\ u <= n /\ n <= a /\ a <= l + QSize /\ Len(dev["tx"].busy) = n - u
    BY <2>1 DEF TxAt, Positions
  <2>3. DOMAIN dev[w].busy = 1 .. n - u
    BY <1>1, <1>7, <2>2
  <2>4. ASSUME NEW j \in 1 .. n - u
        PROVE  \E i \in Nat : /\ i \in l .. a - 1 /\ i = u + j - 1
                              /\ dev["tx"].busy[j].id = i % QSize
                              /\ dev["tx"].busy[j].addr = q["tx"].desc[i % QSize]
    <3>1. PICK i \in Nat : i \in u .. n - 1 /\ i \in l .. a - 1 /\ i - u + 1 = j /\ i = u + j - 1
      <4>1. u + j - 1 \in u .. n - 1 /\ u + j - 1 \in l .. a - 1 /\ (u + j - 1) - u + 1 = j
        BY <2>2
      <4> QED
        BY <4>1
    <3>2. /\ dev["tx"].busy[j].id = i % QSize
          /\ dev["tx"].busy[j].addr = q["tx"].desc[i % QSize]
      BY <2>1, <3>1 DEF TxAt
    <3> QED
      BY <3>1, <3>2
  <2>5. PICK i \in Nat : /\ i \in l .. a - 1 /\ i = u + k - 1
                         /\ dev["tx"].busy[k].id = i % QSize
                         /\ dev["tx"].busy[k].addr = q["tx"].desc[i % QSize]
    BY <2>3, <2>4
  <2>6. dev["tx"].busy[k].addr \notin FreeFrames
    <3>1. \A j \in 1 .. Len(free) : free[j] # q["tx"].desc[i % QSize]
      BY <2>1, <2>5 DEF FramesAt
    <3> QED
      BY <1>2, <2>5, <3>1
  <2>7. ASSUME NEW j \in 1 .. n - u, dev["tx"].busy[j].id = dev["tx"].busy[k].id PROVE j = k
    <3>1. PICK h \in Nat : h \in l .. a - 1 /\ h = u + j - 1 /\ dev["tx"].busy[j].id = h % QSize
      BY <2>4
    <3>5. QSize \in Nat /\ i \in l .. a - 1 /\ h \in l .. a - 1
      BY <2>5, <3>1, Sizes
    <3>2. h < i + QSize /\ i < h + QSize
      BY <2>2, <3>5
    <3>6. h % QSize = i % QSize
      BY <2>5, <2>7, <3>1
    <3>3. h = i
      BY <3>2, <3>6, SlotsDiffer
    <3>4. k \in 1 .. n - u
      BY <2>3
    <3> QED
      BY <2>5, <3>1, <3>3, <3>4
  <2> QED
    BY <1>7, <2>3, <2>5, <2>6, <2>7
<1> QED
  BY <1>6, <1>7 DEF Queue

\* The frames of a queue's rings, when they are taken from below frame t.
LEMMA RingInterval ==
  ASSUME NEW w \in Queue, NEW t \in Nat, RingSize <= t, rings[w] = RingsBelow(t)
  PROVE  RingFrames(w) = t - RingSize .. t - 1
<1>0. /\ DescFrames \in Nat \ {0} /\ AvailFrames \in Nat \ {0} /\ UsedFrames \in Nat \ {0}
      /\ RingSize \in Nat /\ RingSize = DescFrames + AvailFrames + UsedFrames
  BY Sizes
<1> DEFINE a == t - DescFrames
           b == t - DescFrames - AvailFrames
           c == t - RingSize
           A == {a + k : k \in 0 .. DescFrames - 1}
           B == {b + k : k \in 0 .. AvailFrames - 1}
           C == {c + k : k \in 0 .. UsedFrames - 1}
<1>1. rings[w].desc = a /\ rings[w].avail = b /\ rings[w].used = c /\ rings[w] # NULL
  <2>1. rings[w] = [desc |-> a, avail |-> b, used |-> c]
    BY DEF RingsBelow
  <2>0. a \in Nat /\ b \in Nat /\ c \in Nat
    BY <1>0
  <2> HIDE DEF a, b, c
  <2>2. [desc |-> a, avail |-> b, used |-> c] # NULL
    BY <2>0, NetAssumption
  <2> QED
    BY <2>1, <2>2
<1>2. RingFrames(w) = A \cup B \cup C
  BY <1>1 DEF RingFrames
<1>3. ASSUME NEW x \in t - RingSize .. t - 1 PROVE x \in A \cup B \cup C
  <2>1. CASE x >= a
    <3>1. x - a \in 0 .. DescFrames - 1 /\ x = a + (x - a)
      BY <1>0, <2>1
    <3> QED
      BY <3>1
  <2>2. CASE b <= x /\ x < a
    <3>1. x - b \in 0 .. AvailFrames - 1 /\ x = b + (x - b)
      BY <1>0, <2>2
    <3> QED
      BY <3>1
  <2>3. CASE x < b
    <3>1. x - c \in 0 .. UsedFrames - 1 /\ x = c + (x - c)
      BY <1>0, <2>3
    <3> QED
      BY <3>1
  <2> QED
    BY <1>0, <2>1, <2>2, <2>3
<1>4. ASSUME NEW x \in A \cup B \cup C PROVE x \in t - RingSize .. t - 1
  BY <1>0
<1> QED
  BY <1>2, <1>3, <1>4

\* Which numbers lie in an interval, and how many.
LEMMA IntervalSize ==
  ASSUME NEW l \in Nat, NEW n \in Nat
  PROVE  IsFiniteSet(l .. l + n - 1) /\ Cardinality(l .. l + n - 1) = n
<1>1. l \in Int /\ l + n - 1 \in Int
      /\ n = IF l > l + n - 1 THEN 0 ELSE (l + n - 1) - l + 1
  OBVIOUS
<1> QED
  BY <1>1, FS_Interval

\* The lowest s frames are free or under a reply, all of them and each once
\* before an overrun, not all of them afterwards.
Spread(s) ==
  /\ FreeFrames \cup TxBuffers \subseteq 0 .. s - 1
  /\ IF overrun THEN \E f \in 0 .. s - 1 : f \notin FreeFrames \cup TxBuffers
     ELSE /\ 0 .. s - 1 \subseteq FreeFrames \cup TxBuffers
          /\ FreeFrames \cap TxBuffers = {}
          /\ IsFiniteSet(FreeFrames) /\ Cardinality(FreeFrames) = Len(free)

\* Where everything is in memory, from below: what is free or under a reply,
\* the receive buffers, the rings of the transmit and of the receive queue.
LayoutIs(s, b, t, x) ==
  /\ Ram = s + b + t + x
  /\ Spread(s)
  /\ RxBuffers = s .. s + b - 1
  /\ RingFrames("tx") = s + b .. s + b + t - 1
  /\ RingFrames("rx") = s + b + t .. s + b + t + x - 1
  /\ rings["tx"] # NULL => t = RingSize
  /\ rings["rx"] # NULL => x = RingSize

\* The frames of the stack are distinct.
LEMMA StackCounts ==
  ASSUME Shapes, \A j, k \in 1 .. Len(free) : free[j] = free[k] => j = k
  PROVE  IsFiniteSet(FreeFrames) /\ Cardinality(FreeFrames) = Len(free)
<1>1. free \in Seq(Nat) /\ Len(free) \in Nat /\ DOMAIN free = 1 .. Len(free)
  BY Memory
<1>2. FreeFrames = {free[k] : k \in 1 .. Len(free)}
  BY <1>1 DEF FreeFrames
<1>3. free = [k \in 1 .. Len(free) |-> free[k]]
  BY <1>1
<1>4. free \in [1 .. Len(free) -> FreeFrames]
  BY <1>2, <1>3
<1>5. free \in Surjection(1 .. Len(free), FreeFrames)
  BY <1>2, <1>4 DEF Surjection
<1>6. free \in Injection(1 .. Len(free), FreeFrames)
  BY <1>1, <1>4 DEF Injection, IsInjective
<1>7. IsFiniteSet(1 .. Len(free)) /\ Cardinality(1 .. Len(free)) = Len(free)
  <2>1. 1 \in Nat /\ 1 + Len(free) - 1 = Len(free)
    BY <1>1
  <2> QED
    BY <1>1, <2>1, IntervalSize
<1> QED
  BY <1>5, <1>6, <1>7, FS_Surjection

\* Before the driver runs, memory is in order.
LEMMA LayoutUnready ==
  ASSUME NetInv, ~Ready
  PROVE  \E s, b, t, x \in Nat : LayoutIs(s, b, t, x)
<1>0. /\ Ram \in Nat /\ Spare \in Nat /\ Ram = 2 * RingSize + QSize + Spare
      /\ RingSize \in Nat /\ QSize \in Nat /\ free \in Seq(Nat) /\ Len(free) \in Nat
  BY Unready, Memory, Sizes
<1>1. \A k \in 1 .. Len(free) : free[k] = k - 1
  BY Unready
<1>2. PICK s \in Nat : s = Len(free)
  BY <1>0
<1>3. FreeFrames = 0 .. s - 1
  <2>1. FreeFrames = {free[k] : k \in 1 .. s}
    BY <1>0, <1>2 DEF FreeFrames
  <2>2. \A x \in 0 .. s - 1 : x + 1 \in 1 .. s /\ (x + 1) - 1 = x
    OBVIOUS
  <2>3. \A k \in 1 .. s : k - 1 \in 0 .. s - 1 /\ free[k] = k - 1
    BY <1>1, <1>2
  <2>4. \A x \in 0 .. s - 1 : x \in FreeFrames
    BY <2>1, <2>2, <2>3
  <2> QED
    BY <2>1, <2>3, <2>4
<1>4. IsFiniteSet(FreeFrames) /\ Cardinality(FreeFrames) = Len(free)
  <2>1. \A j, k \in 1 .. Len(free) : free[j] = free[k] => j = k
    BY <1>0, <1>1
  <2> QED
    BY <2>1, Unready, StackCounts
<1>5. RxBuffers = {}
  <2>1. "rx" \in Queue
    BY DEF Queue
  <2>2. \A d \in Desc : q["rx"].desc[d] = NULL
    BY <2>1, Unready
  <2> QED
    BY <2>2 DEF RxBuffers
<1>6. TxBuffers = {}
  <2>1. "tx" \in Queue
    BY DEF Queue
  <2>2. q["tx"].last_used_idx = 0 /\ q["tx"].avail_idx = 0
    <3>1. q["tx"] = EmptyQueue
      BY <2>1, Unready
    <3> QED
      BY <3>1 DEF EmptyQueue
  <2>3. Between(0, 0) = {}
    <3>1. ASSUME NEW i \in Between(0, 0) PROVE FALSE
      <4>1. i \in Nat /\ IdxMod \in Nat \ {0}
        BY Sizes DEF Between, Idx
      <4>2. (0 + IdxMod - 0) % IdxMod = 0
        <5>1. 0 \in Nat /\ 0 <= 0 /\ 0 < 0 + IdxMod /\ 0 % IdxMod = 0 /\ 0 - 0 = 0
          BY <4>1, SmallRemainder
        <5> QED
          BY <5>1, Ahead
      <4>3. (i + IdxMod - 0) % IdxMod < (0 + IdxMod - 0) % IdxMod
        BY <3>1 DEF Between
      <4>4. (i + IdxMod - 0) % IdxMod \in 0 .. IdxMod - 1
        BY <4>1
      <4> QED
        BY <4>1, <4>2, <4>3, <4>4
    <3> QED
      BY <3>1
  <2>4. cpu.frame = NULL
    BY Unready
  <2> QED
    BY <2>2, <2>3, <2>4 DEF TxBuffers, Sent, Out
<1>11. Spread(s)
  BY <1>3, <1>4, <1>6, Unready DEF Spread
<1>7. "rx" \in Queue /\ "tx" \in Queue
  BY DEF Queue
<1>8. CASE At("init rx")
  <2>1. rings["rx"] = NULL /\ rings["tx"] = NULL /\ Len(free) = Ram - 0
    BY <1>8, Unready DEF SetUp
  <2>2. RingFrames("rx") = {} /\ RingFrames("tx") = {}
    BY <2>1 DEF RingFrames
  <2>3. /\ s = Ram /\ Ram = s + 0 + 0 + 0 /\ s .. s + 0 - 1 = {}
        /\ s + 0 .. s + 0 + 0 - 1 = {} /\ s + 0 + 0 .. s + 0 + 0 + 0 - 1 = {}
    BY <1>0, <1>2, <2>1
  <2>4. LayoutIs(s, 0, 0, 0)
    BY <1>5, <1>11, <2>1, <2>2, <2>3 DEF LayoutIs
  <2> QED
    BY <2>4
<1>9. CASE At("init tx")
  <2>1. rings["rx"] = RingsBelow(Ram) /\ rings["tx"] = NULL /\ Len(free) = Ram - RingSize
    BY <1>9, Unready DEF SetUp, At
  <2>2. RingFrames("rx") = Ram - RingSize .. Ram - 1 /\ RingFrames("tx") = {}
    <3>1. RingSize <= Ram
      BY <1>0
    <3> QED
      BY <1>0, <1>7, <2>1, <3>1, RingInterval DEF RingFrames
  <2>3. /\ Ram = s + 0 + 0 + RingSize /\ s .. s + 0 - 1 = {}
        /\ s + 0 .. s + 0 + 0 - 1 = {}
        /\ s + 0 + 0 = Ram - RingSize /\ s + 0 + 0 + RingSize - 1 = Ram - 1
    BY <1>0, <1>2, <2>1
  <2>4. LayoutIs(s, 0, 0, RingSize)
    BY <1>5, <1>11, <2>1, <2>2, <2>3 DEF LayoutIs
  <2> QED
    BY <1>0, <2>4
<1>10. CASE At("fill")
  <2>1. /\ rings["rx"] = RingsBelow(Ram) /\ rings["tx"] = RingsBelow(Ram - RingSize)
        /\ Len(free) = Ram - 2 * RingSize
    BY <1>10, Unready DEF SetUp, At
  <2>2. RingFrames("rx") = Ram - RingSize .. Ram - 1
    <3>1. RingSize <= Ram
      BY <1>0
    <3> QED
      BY <1>0, <1>7, <2>1, <3>1, RingInterval
  <2>5. RingFrames("tx") = (Ram - RingSize) - RingSize .. (Ram - RingSize) - 1
    <3>1. RingSize <= Ram - RingSize /\ Ram - RingSize \in Nat
      BY <1>0
    <3> QED
      BY <1>7, <2>1, <3>1, RingInterval
  <2>3. /\ Ram = s + 0 + RingSize + RingSize /\ s .. s + 0 - 1 = {}
        /\ s + 0 = (Ram - RingSize) - RingSize /\ s + 0 + RingSize - 1 = (Ram - RingSize) - 1
        /\ s + 0 + RingSize = Ram - RingSize /\ s + 0 + RingSize + RingSize - 1 = Ram - 1
    BY <1>0, <1>2, <2>1
  <2>4. LayoutIs(s, 0, RingSize, RingSize)
    BY <1>5, <1>11, <2>1, <2>2, <2>3, <2>5 DEF LayoutIs
  <2> QED
    BY <1>0, <2>4
<1> QED
  BY <1>8, <1>9, <1>10, Unready

\* When the driver runs, the spare frames are the ones that are free or under
\* a reply, before an overrun,
LEMMA SpreadInOrder ==
  ASSUME NetInv, Ready, ~overrun
  PROVE  Spread(Spare)
<1>0. /\ Ram \in Nat /\ Spare \in Nat /\ Ram = 2 * RingSize + QSize + Spare
      /\ RingSize \in Nat /\ QSize \in Nat /\ free \in Seq(Nat) /\ Len(free) \in Nat
      /\ NULL \notin Nat
  BY Running, Memory, Sizes
<1>1. PICK l \in Nat, u \in Nat, n \in Nat, a \in Nat : TxAt(l, u, n, a) /\ FramesAt(l, a)
  BY Running DEF TxSound, TxInOrder
<1>2. /\ l <= a /\ a <= l + QSize
      /\ q["tx"].last_used_idx = l % IdxMod /\ q["tx"].avail_idx = a % IdxMod
      /\ \A i \in l .. a - 1 : q["tx"].avail[i % QSize] = i % QSize
  BY <1>1 DEF TxAt, Positions
<1>3. Sent = {i % QSize : i \in l .. a - 1}
  <2>1. Between(l % IdxMod, a % IdxMod) = {i % IdxMod : i \in l .. a - 1}
    BY <1>2, BetweenIs
  <2>2. \A i \in l .. a - 1 : q["tx"].avail[Slot(i % IdxMod)] = i % QSize
    <3> TAKE i \in l .. a - 1
    <3>1. i \in Nat
      OBVIOUS
    <3>2. Slot(i % IdxMod) = i % QSize
      BY <3>1, PositionIs
    <3> QED
      BY <1>2, <3>2
  <2>3. Sent = {q["tx"].avail[Slot(j)] : j \in Between(l % IdxMod, a % IdxMod)}
    BY <1>2 DEF Sent, Out
  <2> QED
    BY <2>1, <2>2, <2>3
<1> DEFINE out == {q["tx"].desc[i % QSize] : i \in l .. a - 1}
<1>4. TxBuffers = out \cup ({cpu.frame} \ {NULL})
  BY <1>3 DEF TxBuffers
<1>5. FreeFrames = {free[k] : k \in 1 .. Len(free)}
  BY <1>0 DEF FreeFrames
<1>6. /\ \A k \in 1 .. Len(free) : free[k] \in 0 .. Spare - 1
      /\ \A j, k \in 1 .. Len(free) : free[j] = free[k] => j = k
      /\ \A i \in l .. a - 1 :
           /\ q["tx"].desc[i % QSize] \in 0 .. Spare - 1
           /\ \A k \in 1 .. Len(free) : free[k] # q["tx"].desc[i % QSize]
      /\ \A f \in 0 .. Spare - 1 :
           \/ \E k \in 1 .. Len(free) : free[k] = f
           \/ \E i \in l .. a - 1 : q["tx"].desc[i % QSize] = f
           \/ cpu.frame = f
  BY <1>1 DEF FramesAt
<1>7. \/ cpu.frame \in 0 .. Spare - 1 /\ \A k \in 1 .. Len(free) : free[k] # cpu.frame
      \/ cpu.frame = NULL
  BY <1>1 DEF FramesAt
<1>8. \A f \in 0 .. Spare - 1 : f # NULL
  BY <1>0
<1>9. FreeFrames \cup TxBuffers = 0 .. Spare - 1
  <2>1. ASSUME NEW f \in 0 .. Spare - 1 PROVE f \in FreeFrames \cup TxBuffers
    BY <1>4, <1>5, <1>6, <1>8
  <2>2. ASSUME NEW f \in FreeFrames \cup TxBuffers PROVE f \in 0 .. Spare - 1
    BY <1>4, <1>5, <1>6, <1>7
  <2> QED
    BY <2>1, <2>2
<1>10. FreeFrames \cap TxBuffers = {}
  BY <1>4, <1>5, <1>6, <1>7
<1>11. IsFiniteSet(FreeFrames) /\ Cardinality(FreeFrames) = Len(free)
  BY <1>6, Running, StackCounts
<1> QED
  BY <1>9, <1>10, <1>11 DEF Spread

\* ... and among them after one.
LEMMA SpreadOverrun ==
  ASSUME NetInv, Ready, overrun
  PROVE  Spread(Spare)
<1>0. Shapes /\ TxOverrun /\ free \in Seq(Nat) /\ "tx" \in Queue /\ NULL \notin Nat
  BY Running, Memory, Sizes DEF TxSound, Queue
<1>1. FreeFrames = {free[k] : k \in 1 .. Len(free)}
  BY <1>0 DEF FreeFrames
<1>2. \A d \in Sent : d \in Desc
  <2>1. \A i \in Idx : q["tx"].avail[Slot(i)] \in Desc
    <3> TAKE i \in Idx
    <3>1. i \in Nat
      BY DEF Idx
    <3>2. Slot(i) \in Desc
      BY <3>1, PositionIs DEF Slot
    <3> QED
      BY <1>0, <3>2, Parts
  <2>2. \A i \in Out : i \in Idx
    BY DEF Out, Between
  <2> QED
    BY <2>1, <2>2 DEF Sent
<1>3. PICK f \in Nat : Lost(f)
  BY <1>0 DEF TxOverrun
<1>4. ASSUME NEW g \in TxBuffers PROVE g \in 0 .. Spare - 1 /\ g # f
  <2>1. CASE g = cpu.frame /\ g # NULL
    BY <1>0, <1>3, <2>1 DEF TxOverrun, Lost
  <2>2. CASE \E d \in Sent : g = q["tx"].desc[d]
    BY <1>0, <1>2, <1>3, <2>2 DEF TxOverrun, Lost
  <2> QED
    BY <2>1, <2>2 DEF TxBuffers
<1>5. ASSUME NEW g \in FreeFrames PROVE g \in 0 .. Spare - 1 /\ g # f
  BY <1>0, <1>1, <1>3 DEF TxOverrun, Lost
<1>6. f \in 0 .. Spare - 1
  BY <1>3 DEF Lost
<1> QED
  BY <1>4, <1>5, <1>6 DEF Spread

\* Above them nothing moves.
LEMMA LayoutReady ==
  ASSUME NetInv, Ready
  PROVE  \E s, b, t, x \in Nat : LayoutIs(s, b, t, x)
<1>0. /\ Ram \in Nat /\ Spare \in Nat /\ Ram = 2 * RingSize + QSize + Spare
      /\ RingSize \in Nat /\ QSize \in Nat /\ NULL \notin Nat
  BY Running, Memory, Sizes
<1>12. RxBuffers = Spare .. Spare + QSize - 1
  <2>1. ASSUME NEW f \in RxBuffers PROVE f \in Spare .. Spare + QSize - 1
    BY RxAddresses DEF RxBuffers
  <2>2. ASSUME NEW f \in Spare .. Spare + QSize - 1 PROVE f \in RxBuffers
    <3>1. PICK d \in Desc : f = Spare + QSize - 1 - d
      <4>1. Spare + QSize - 1 - f \in Desc /\ f = Spare + QSize - 1 - (Spare + QSize - 1 - f)
        BY <1>0 DEF Desc
      <4> QED
        BY <4>1
    <3>2. q["rx"].desc[d] = f
      BY <3>1, RxAddresses
    <3>3. f # NULL
      BY <1>0
    <3> QED
      BY <3>2, <3>3 DEF RxBuffers
  <2> QED
    BY <2>1, <2>2
<1>13. "rx" \in Queue /\ "tx" \in Queue
  BY DEF Queue
<1>14. rings["rx"] = RingsBelow(Ram) /\ rings["tx"] = RingsBelow(Ram - RingSize)
  BY Running
<1>15. RingFrames("rx") = Ram - RingSize .. Ram - 1
  <2>1. RingSize <= Ram
    BY <1>0
  <2> QED
    BY <1>0, <1>13, <1>14, <2>1, RingInterval
<1>16. RingFrames("tx") = (Ram - RingSize) - RingSize .. (Ram - RingSize) - 1
  <2>1. RingSize <= Ram - RingSize /\ Ram - RingSize \in Nat
    BY <1>0
  <2> QED
    BY <1>13, <1>14, <2>1, RingInterval
<1>17. /\ Ram = Spare + QSize + RingSize + RingSize
       /\ Spare + QSize = (Ram - RingSize) - RingSize
       /\ Spare + QSize + RingSize - 1 = (Ram - RingSize) - 1
       /\ Spare + QSize + RingSize = Ram - RingSize
       /\ Spare + QSize + RingSize + RingSize - 1 = Ram - 1
  BY <1>0
<1>18. LayoutIs(Spare, QSize, RingSize, RingSize)
  BY <1>12, <1>15, <1>16, <1>17, SpreadInOrder, SpreadOverrun DEF LayoutIs
<1> QED
  BY <1>0, <1>18

\* The layout, in every state.
LEMMA Layout == NetInv => \E s, b, t, x \in Nat : LayoutIs(s, b, t, x)
BY LayoutUnready, LayoutReady

\* The layout implies that the rings are kept,
LEMMA RingsAreKept == NetInv => RingsKept
<1> SUFFICES ASSUME NetInv PROVE RingsKept
  OBVIOUS
<1>1. PICK s \in Nat, b \in Nat, t \in Nat, x \in Nat : LayoutIs(s, b, t, x)
  BY Layout
<1>2. /\ Ram = s + b + t + x
      /\ FreeFrames \cup TxBuffers \subseteq 0 .. s - 1
      /\ RxBuffers = s .. s + b - 1
      /\ RingFrames("tx") = s + b .. s + b + t - 1
      /\ RingFrames("rx") = s + b + t .. s + b + t + x - 1
      /\ rings["tx"] # NULL => t = RingSize
      /\ rings["rx"] # NULL => x = RingSize
  BY <1>1 DEF LayoutIs, Spread
<1>3. Frame = 0 .. s + b + t + x - 1
  BY <1>2 DEF Frame, Ram
<1>4. RingFrames("rx") \cap RingFrames("tx") = {}
  BY <1>2
<1>5. RingFrames("rx") \subseteq Frame /\ RingFrames("tx") \subseteq Frame
  BY <1>2, <1>3
<1>6. /\ Cardinality(RingFrames("tx")) = t /\ Cardinality(RingFrames("rx")) = x
  <2>1. Cardinality(s + b .. s + b + t - 1) = t
    <3>1. PICK y \in Nat : y = s + b
      OBVIOUS
    <3>2. Cardinality(y .. y + t - 1) = t
      BY IntervalSize
    <3> QED
      BY <3>1, <3>2
  <2>2. Cardinality(s + b + t .. s + b + t + x - 1) = x
    <3>1. PICK y \in Nat : y = s + b + t
      OBVIOUS
    <3>2. Cardinality(y .. y + x - 1) = x
      BY IntervalSize
    <3> QED
      BY <3>1, <3>2
  <2> QED
    BY <1>2, <2>1, <2>2
<1>7. /\ RingFrames("rx") \cap (FreeFrames \cup TxBuffers) = {}
      /\ RingFrames("tx") \cap (FreeFrames \cup TxBuffers) = {}
      /\ RingFrames("rx") \cap RxBuffers = {}
      /\ RingFrames("tx") \cap RxBuffers = {}
  BY <1>2
<1>8. ASSUME NEW w \in Queue
      PROVE  /\ RingFrames(w) \subseteq Frame
             /\ rings[w] # NULL => Cardinality(RingFrames(w)) = DescFrames + AvailFrames + UsedFrames
             /\ RingFrames(w) \cap (FreeFrames \cup RxBuffers \cup TxBuffers) = {}
  <2>1. CASE w = "rx"
    BY <1>2, <1>5, <1>6, <1>7, <2>1 DEF RingSize
  <2>2. CASE w = "tx"
    BY <1>2, <1>5, <1>6, <1>7, <2>2 DEF RingSize
  <2> QED
    BY <2>1, <2>2 DEF Queue
<1> QED
  BY <1>4, <1>8 DEF RingsKept

\* ... that a frame is lost after an overrun,
LEMMA FrameLost == NetInv /\ overrun => FramesAccounted
<1> SUFFICES ASSUME NetInv, overrun PROVE FramesAccounted
  OBVIOUS
<1>1. PICK s \in Nat, b \in Nat, t \in Nat, x \in Nat : LayoutIs(s, b, t, x)
  BY Layout
<1>2. /\ Ram = s + b + t + x
      /\ RxBuffers = s .. s + b - 1
      /\ RingFrames("tx") = s + b .. s + b + t - 1
      /\ RingFrames("rx") = s + b + t .. s + b + t + x - 1
  BY <1>1 DEF LayoutIs
<1>3. PICK f \in 0 .. s - 1 : f \notin FreeFrames \cup TxBuffers
  BY <1>1 DEF LayoutIs, Spread
<1>4. f \in Frame /\ f \notin RxBuffers /\ f \notin RingFrames("tx") /\ f \notin RingFrames("rx")
  <2>1. Frame = 0 .. s + b + t + x - 1
    BY <1>2 DEF Frame, Ram
  <2> QED
    BY <1>2, <2>1
<1> QED
  BY <1>3, <1>4 DEF FramesAccounted

\* ... and that every frame is in one place before one.
LEMMA FramesCount == NetInv /\ ~overrun => FramesAccounted
<1> SUFFICES ASSUME NetInv, ~overrun PROVE FramesAccounted
  OBVIOUS
<1>1. PICK s \in Nat, b \in Nat, t \in Nat, x \in Nat : LayoutIs(s, b, t, x)
  BY Layout
<1>2. /\ Ram = s + b + t + x
      /\ FreeFrames \cup TxBuffers = 0 .. s - 1 /\ FreeFrames \cap TxBuffers = {}
      /\ IsFiniteSet(FreeFrames) /\ Cardinality(FreeFrames) = Len(free)
      /\ RxBuffers = s .. s + b - 1
      /\ RingFrames("tx") = s + b .. s + b + t - 1
      /\ RingFrames("rx") = s + b + t .. s + b + t + x - 1
  BY <1>1 DEF LayoutIs, Spread
<1>3. Frame = 0 .. s + b + t + x - 1
  BY <1>2 DEF Frame, Ram
<1>4. FreeFrames \cup RingFrames("rx") \cup RingFrames("tx") \cup RxBuffers \cup TxBuffers = Frame
  <2>1. (0 .. s - 1) \cup (s .. s + b - 1) \cup (s + b .. s + b + t - 1)
          \cup (s + b + t .. s + b + t + x - 1) = 0 .. s + b + t + x - 1
    OBVIOUS
  <2> QED
    BY <1>2, <1>3, <2>1
<1>5. /\ Cardinality(RxBuffers) = b /\ Cardinality(RingFrames("tx")) = t
      /\ Cardinality(RingFrames("rx")) = x
  <2>1. Cardinality(s + b .. s + b + t - 1) = t
    <3>1. PICK y \in Nat : y = s + b
      OBVIOUS
    <3>2. Cardinality(y .. y + t - 1) = t
      BY IntervalSize
    <3> QED
      BY <3>1, <3>2
  <2>2. Cardinality(s + b + t .. s + b + t + x - 1) = x
    <3>1. PICK y \in Nat : y = s + b + t
      OBVIOUS
    <3>2. Cardinality(y .. y + x - 1) = x
      BY IntervalSize
    <3> QED
      BY <3>1, <3>2
  <2>3. Cardinality(s .. s + b - 1) = b
    BY IntervalSize
  <2> QED
    BY <1>2, <2>1, <2>2, <2>3
<1>6. IsFiniteSet(0 .. s - 1) /\ Cardinality(0 .. s - 1) = s
  <2>1. 0 \in Nat /\ 0 + s - 1 = s - 1
    OBVIOUS
  <2> QED
    BY <2>1, IntervalSize
<1>7. IsFiniteSet(TxBuffers)
  <2>1. TxBuffers \in SUBSET (0 .. s - 1)
    BY <1>2
  <2> QED
    BY <1>6, <2>1, FS_Subset
<1>8. Cardinality(FreeFrames) \in Nat /\ Cardinality(TxBuffers) \in Nat
  BY <1>2, <1>7, FS_CardinalityType
<1>9. s = Cardinality(FreeFrames) + Cardinality(TxBuffers) - 0
  <2>1. Cardinality(FreeFrames \cup TxBuffers)
          = Cardinality(FreeFrames) + Cardinality(TxBuffers) - Cardinality(FreeFrames \cap TxBuffers)
    BY <1>2, <1>7, FS_Union
  <2>2. Cardinality({}) = 0
    BY FS_EmptySet
  <2> QED
    BY <1>2, <1>6, <2>1, <2>2
<1>10. Len(free) + Cardinality(RxBuffers) + Cardinality(TxBuffers)
         = Ram - Cardinality(RingFrames("rx")) - Cardinality(RingFrames("tx"))
  <2>1. PICK y \in Nat, z \in Nat : y = Len(free) /\ z = Cardinality(TxBuffers) /\ s = y + z - 0
    BY <1>2, <1>8, <1>9
  <2>4. s = y + z
    BY <2>1
  <2>5. Len(free) = y /\ Cardinality(TxBuffers) = z
    BY <2>1
  <2>2. y + b + z = (s + b + t + x) - x - t
    BY <2>4
  <2>3. Ram = s + b + t + x
    BY <1>2
  <2> QED
    BY <1>5, <2>2, <2>3, <2>5, Zenon
<1> QED
  BY <1>4, <1>10 DEF FramesAccounted, Ram

\* A descriptor has one position, which is in one of the three places.
LEMMA RxDescriptorsAreKept == NetInv => RxDescriptorsKept
<1> SUFFICES ASSUME NetInv, Ready, NEW d \in Desc
             PROVE  LET avail == {i \in Between(dev["rx"].next, q["rx"].avail_idx) :
                                    q["rx"].avail[Slot(i)] = d}
                        busy == {k \in DOMAIN dev["rx"].busy : dev["rx"].busy[k].id = d}
                        used == {i \in Between(q["rx"].last_used_idx, q["rx"].used_idx) :
                                   q["rx"].used[Slot(i)] = d}
                    IN  Cardinality(avail) + Cardinality(busy) + Cardinality(used) = 1
  BY DEF RxDescriptorsKept
<1> DEFINE avail == {i \in Between(dev["rx"].next, q["rx"].avail_idx) :
                       q["rx"].avail[Slot(i)] = d}
           busy == {k \in DOMAIN dev["rx"].busy : dev["rx"].busy[k].id = d}
           used == {i \in Between(q["rx"].last_used_idx, q["rx"].used_idx) :
                      q["rx"].used[Slot(i)] = d}
<1>1. PICK l \in Nat, u \in Nat, n \in Nat, a \in Nat : RxAt(l, u, n, a)
  BY Running DEF RxSound
<1>2. /\ l <= u /\ u <= n /\ n <= a /\ a <= l + QSize
      /\ q["rx"].last_used_idx = l % IdxMod /\ q["rx"].used_idx = u % IdxMod
      /\ dev["rx"].next = n % IdxMod /\ q["rx"].avail_idx = a % IdxMod
      /\ Len(dev["rx"].busy) = n - u
  BY <1>1 DEF RxAt, Positions
<1>3. "rx" \in Queue /\ QSize \in Nat
  BY Sizes DEF Queue
<1>4. DOMAIN dev["rx"].busy = 1 .. n - u
  BY <1>2, <1>3, Running, BusyBuffers
<1>5. PICK p \in l .. a - 1 : Holder(p, u, n) = d
  BY <1>1 DEF RxAt
<1>6. \A i \in l .. a - 1 : Holder(i, u, n) = d => i = p
  BY <1>1, <1>5 DEF RxAt
<1>7. used = {i % IdxMod : i \in {j \in l .. u - 1 : Holder(j, u, n) = d}}
  <2>1. u <= l + QSize
    BY <1>2, <1>3
  <2>2. Between(l % IdxMod, u % IdxMod) = {i % IdxMod : i \in l .. u - 1}
    BY <1>2, <2>1, BetweenIs
  <2>3. \A i \in l .. u - 1 : q["rx"].used[Slot(i % IdxMod)] = Holder(i, u, n)
    <3> TAKE i \in l .. u - 1
    <3>1. i \in Nat /\ i < u
      OBVIOUS
    <3>2. Slot(i % IdxMod) = i % QSize
      BY <3>1, PositionIs
    <3> QED
      BY <3>1, <3>2 DEF Holder
  <2>4. used = {i \in {j % IdxMod : j \in l .. u - 1} : q["rx"].used[Slot(i)] = d}
    BY <1>2, <2>2
  <2> QED
    BY <2>3, <2>4
<1>8. avail = {i % IdxMod : i \in {j \in n .. a - 1 : Holder(j, u, n) = d}}
  <2>1. a <= n + QSize
    BY <1>2, <1>3
  <2>2. Between(n % IdxMod, a % IdxMod) = {i % IdxMod : i \in n .. a - 1}
    BY <1>2, <2>1, BetweenIs
  <2>3. \A i \in n .. a - 1 : q["rx"].avail[Slot(i % IdxMod)] = Holder(i, u, n)
    <3> TAKE i \in n .. a - 1
    <3>1. i \in Nat /\ ~(i < u) /\ ~(i < n)
      BY <1>2
    <3>2. Slot(i % IdxMod) = i % QSize
      BY <3>1, PositionIs
    <3> QED
      BY <3>1, <3>2 DEF Holder
  <2>4. avail = {i \in {j % IdxMod : j \in n .. a - 1} : q["rx"].avail[Slot(i)] = d}
    BY <1>2, <2>2
  <2> QED
    BY <2>3, <2>4
<1>9. \A k \in 1 .. n - u : /\ u + k - 1 \in u .. n - 1
                            /\ dev["rx"].busy[k].id = Holder(u + k - 1, u, n)
  <2> TAKE k \in 1 .. n - u
  <2>1. u + k - 1 \in u .. n - 1 /\ ~(u + k - 1 < u) /\ u + k - 1 < n /\ (u + k - 1) - u + 1 = k
    BY <1>2
  <2> QED
    BY <2>1 DEF Holder
<1>10. CASE p < u
  <2>1. /\ p \in l .. u - 1 /\ \A j \in l .. u - 1 : j \in l .. a - 1
        /\ \A j \in n .. a - 1 : j \in l .. a - 1 /\ j # p
        /\ \A k \in 1 .. n - u : u + k - 1 \in l .. a - 1 /\ u + k - 1 # p
    BY <1>2, <1>10
  <2>2. used = {p % IdxMod}
    BY <1>5, <1>6, <1>7, <2>1
  <2>3. avail = {}
    BY <1>6, <1>8, <2>1
  <2>4. busy = {}
    BY <1>4, <1>6, <1>9, <2>1
  <2> HIDE DEF used, avail, busy
  <2>5. Cardinality(avail) = 0 /\ Cardinality(busy) = 0 /\ Cardinality(used) = 1
    BY <2>2, <2>3, <2>4, FS_EmptySet, FS_Singleton
  <2> QED
    BY <2>5 DEF used, avail, busy
<1>11. CASE u <= p /\ p < n
  <2>1. /\ \A j \in l .. u - 1 : j \in l .. a - 1 /\ j # p
        /\ \A j \in n .. a - 1 : j \in l .. a - 1 /\ j # p
        /\ \A k \in 1 .. n - u : u + k - 1 \in l .. a - 1
        /\ \A k \in 1 .. n - u : u + k - 1 = p => k = p - u + 1
        /\ p - u + 1 \in 1 .. n - u /\ u + (p - u + 1) - 1 = p
    BY <1>2, <1>11
  <2>2. used = {}
    BY <1>6, <1>7, <2>1
  <2>3. avail = {}
    BY <1>6, <1>8, <2>1
  <2>4. busy = {p - u + 1}
    <3>1. dev["rx"].busy[p - u + 1].id = d
      BY <1>5, <1>9, <2>1
    <3>2. \A k \in 1 .. n - u : dev["rx"].busy[k].id = d => k = p - u + 1
      BY <1>6, <1>9, <2>1
    <3> QED
      BY <1>4, <2>1, <3>1, <3>2
  <2> HIDE DEF used, avail, busy
  <2>5. Cardinality(avail) = 0 /\ Cardinality(busy) = 1 /\ Cardinality(used) = 0
    BY <2>2, <2>3, <2>4, FS_EmptySet, FS_Singleton
  <2> QED
    BY <2>5 DEF used, avail, busy
<1>12. CASE n <= p
  <2>1. /\ p \in n .. a - 1 /\ \A j \in n .. a - 1 : j \in l .. a - 1
        /\ \A j \in l .. u - 1 : j \in l .. a - 1 /\ j # p
        /\ \A k \in 1 .. n - u : u + k - 1 \in l .. a - 1 /\ u + k - 1 # p
    BY <1>2, <1>12
  <2>2. avail = {p % IdxMod}
    BY <1>5, <1>6, <1>8, <2>1
  <2>3. used = {}
    BY <1>6, <1>7, <2>1
  <2>4. busy = {}
    BY <1>4, <1>6, <1>9, <2>1
  <2> HIDE DEF used, avail, busy
  <2>5. Cardinality(avail) = 1 /\ Cardinality(busy) = 0 /\ Cardinality(used) = 0
    BY <2>2, <2>3, <2>4, FS_EmptySet, FS_Singleton
  <2> QED
    BY <2>5 DEF used, avail, busy
<1> QED
  BY <1>2, <1>10, <1>11, <1>12
------------------------------------------------------------------------------
\* Descriptors name buffers in memory, ring entries name descriptors.
THEOREM NetTypes == Spec => []TypeOK
BY NetInvariant, TypesOK, PTL

\* The rings lie in frames that virtio_init_queue has taken for them and that
\* neither the allocator nor a buffer has.
THEOREM RingsStay == Spec => []RingsKept
BY NetInvariant, RingsAreKept, PTL

\* No frame is lost and none is freed twice, however often net_send and
\* net_cleanup_tx go round the transmit queue, until net_send sends a reply
\* while QSize are out: from then on a frame is lost for good.
THEOREM FramesAreAccounted == Spec => []FramesAccounted
BY NetInvariant, FramesCount, FrameLost, PTL

\* The driver leaves the descriptors and the frames that the device works on
\* alone, those of replies as long as net_send has never come round.
THEOREM DeviceIsUndisturbed == Spec => []DeviceUndisturbed
BY NetInvariant, Undisturbed, PTL

\* net_poll_rx recycles every receive descriptor once, in whatever order the
\* device returns them.
THEOREM RxDescriptorsStay == Spec => []RxDescriptorsKept
BY NetInvariant, RxDescriptorsAreKept, PTL
==============================================================================
