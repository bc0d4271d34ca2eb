-------------------------- MODULE VirtioBlkProofs --------------------------
(***************************************************************************)
(* Proofs about the KVM block device, for every queue size, every modulus   *)
(* of the ring indices the queue size divides, every disk and every set of  *)
(* well-formed requests; about the virtio-mmio registers of every backend's *)
(* devices; and about what those devices do with a chain of descriptors.    *)
(*                                                                         *)
(* BlkSafe is not inductive.  That each request is in one place needs the   *)
(* heads in the live part of each ring to be distinct (InOneRing), which    *)
(* needs the index handle_queue runs up to to lie in the available part     *)
(* (UntilInside).  That no slot is overwritten follows: with distinct heads *)
(* the two parts together are no longer than the ring (Lengths).  The       *)
(* refinement needs in addition that a head has an answer exactly when it   *)
(* has left the available ring (Answered).                                  *)
(*                                                                         *)
(* RegistersAgree speaks of a device whose driver runs.  RegInv says what   *)
(* holds before that: after each access of the probe the registers hold     *)
(* what the accesses so far have written and nothing else (Settings), the   *)
(* rings are new while the probe lasts (Blank), the device's positions      *)
(* agree with the rings' at all times, also when a probe is cut off         *)
(* (Positioned), and a completion nobody has collected keeps the status bit *)
(* set until the handler reads it and the line up until it starts           *)
(* (Raising).                                                               *)
(*                                                                         *)
(* ChainsExact compares loops with definitions that do not loop.  Each loop *)
(* is unrolled into a function of the number of turns, of which is shown by *)
(* induction what the state after k turns says about the first k            *)
(* descriptors: the walk holds the only path that a chain can begin with    *)
(* (WalkHolds), the random number device what it reached (RngHolds), the    *)
(* frame sent what lies behind the header (TxHolds) and the memory of a     *)
(* frame received the share of each buffer (RxHolds).  Of the rings, u of   *)
(* the chains in flight are shown and a taken (InOrder): the slots between  *)
(* them differ since no more are in flight than the ring has.               *)
(***************************************************************************)
EXTENDS VirtioBlk, VirtioMmio, VirtioChain, Integers, FiniteSetTheorems, SequenceTheorems, DataInduction, TLAPS

\* The length of the part of a ring between two indices.
Dist(from, to) == (to + IndexMod - from) % IndexMod

AvailPart == Span(lastAvail, availIdx)
UsedPart == Span(drvUsed, usedIdx)
\* With the entry that push_used has written and not published.
WrittenPart == UsedPart \cup (IF busy.entry THEN {usedIdx} ELSE {})

\* The heads in a part of a ring.
Held(ring, part) == {ring[i % QueueSize] : i \in part}
Written == Held(usedRing, WrittenPart)

\* No head twice in a ring.
Distinct(ring, part) ==
  \A i, j \in part : ring[i % QueueSize] = ring[j % QueueSize] => i = j

InOneRing ==
  /\ Distinct(availRing, AvailPart) /\ Distinct(usedRing, WrittenPart)
  /\ Queued \cap Written = {}
  /\ Queued \cup Written = Outstanding

\* handle_queue never runs past what the driver has made available.
UntilInside == busy.on => Dist(lastAvail, busy.until) <= Dist(lastAvail, availIdx)

Answered == \A h \in Heads : replies[h] # None <=> h \in Written

EntryBusy == busy.entry => busy.on

RingInv == InOneRing /\ UntilInside /\ Answered /\ EntryBusy

BlkIInv == TypeOK /\ ImagePreserved /\ NoLostInterrupt /\ RingInv

-----------------------------------------------------------------------------
(* Division with remainder.                                                 *)

\* Only one remainder is smaller than the divisor.
LEMMA ModUnique ==
  ASSUME NEW n \in Nat \ {0}, NEW x \in Int, NEW q \in Int, NEW r \in 0..n - 1, x = (n * q) + r
  PROVE x % n = r
  OBVIOUS

\* Quotient and remainder exist.
LEMMA ModExists ==
  ASSUME NEW n \in Nat \ {0}, NEW x \in Int
  PROVE x % n \in 0..n - 1 /\ \E q \in Int : x = (n * q) + (x % n)
<1>1. x \div n \in Int /\ x = (n * (x \div n)) + (x % n)
  OBVIOUS
<1>2. x % n \in 0..n - 1
  OBVIOUS
<1>3. \E q \in Int : x = (n * q) + (x % n)
  BY <1>1
<1> QED
  BY <1>2, <1>3

\* The sum of two multiples, one with a remainder.
LEMMA Shifted ==
  ASSUME NEW n \in Int, NEW x \in Int, NEW m \in Int, NEW q \in Int, NEW c \in Int, NEW r \in Int,
         x = (n * q) + r, m = (n * c) + 0
  PROVE x + m = (n * (q + c)) + r
  OBVIOUS

\* Adding a multiple of n does not change a remainder by n.
LEMMA ModMultiple ==
  ASSUME NEW n \in Nat \ {0}, NEW m \in Int, m % n = 0, NEW x \in Int
  PROVE (x + m) % n = x % n
<1> DEFINE r == x % n
           z == m % n
<1>1. PICK q \in Int : r \in 0..n - 1 /\ x = (n * q) + r
  BY ModExists
<1>2. PICK c \in Int : m = (n * c) + z
  BY ModExists
<1>3. z = 0
  OBVIOUS
<1> HIDE DEF r, z
<1>4. x + m = (n * (q + c)) + r
  BY <1>1, <1>2, <1>3, Shifted
<1>5. q + c \in Int /\ x + m \in Int
  OBVIOUS
<1>6. (x + m) % n = r
  BY <1>1, <1>4, <1>5, ModUnique
<1> QED
  BY <1>6 DEF r

\* Numbers less than n apart have different remainders.
LEMMA ModWindow ==
  ASSUME NEW n \in Nat \ {0}, NEW x \in Int, NEW y \in Int, x % n = y % n, x <= y, y < x + n
  PROVE x = y
<1>1. x % n \in 0..n - 1
  BY ModExists
<1>2. PICK q \in Int : x = (n * q) + (x % n)
  BY ModExists
<1>3. PICK c \in Int : y = (n * c) + (y % n)
  BY ModExists
<1>4. n * (c - q) = y - x
  BY <1>1, <1>2, <1>3
<1>5. c - q < 1
  BY <1>4
<1>6. c - q > -1
  BY <1>4
<1>7. c = q
  BY <1>5, <1>6
<1> QED
  BY <1>2, <1>3, <1>7

-----------------------------------------------------------------------------
(* The parts of a ring.                                                     *)

\* The ring index after a.
Succ(a) == (a + 1) % IndexMod

\* The constants of the queue.
LEMMA Sizes == QueueSize \in Nat \ {0} /\ IndexMod \in Nat \ {0} /\ IndexMod > QueueSize
  BY QueueAssumption

\* An index wraps at IndexMod.
LEMMA SuccIs ==
  ASSUME NEW a \in Indices
  PROVE Succ(a) = (IF a + 1 = IndexMod THEN 0 ELSE a + 1) /\ Succ(a) \in Indices
<1>1. CASE a + 1 = IndexMod
  <2>1. a + 1 = (IndexMod * 1) + 0 /\ 0 \in 0..IndexMod - 1
    BY <1>1, Sizes DEF Indices
  <2> QED
    BY <1>1, <2>1, Sizes, ModUnique DEF Indices, Succ
<1>2. CASE a + 1 # IndexMod
  <2>1. a + 1 = (IndexMod * 0) + (a + 1) /\ a + 1 \in 0..IndexMod - 1
    BY <1>2, Sizes DEF Indices
  <2> QED
    BY <1>2, <2>1, Sizes, ModUnique DEF Indices, Succ
<1> QED
  BY <1>1, <1>2

\* The distance between two indices, across the wrap.
LEMMA DistIs ==
  ASSUME NEW a \in Indices, NEW b \in Indices
  PROVE Dist(a, b) = (IF b >= a THEN b - a ELSE b + IndexMod - a) /\ Dist(a, b) \in Indices
<1>1. CASE b >= a
  <2>1. b + IndexMod - a = (IndexMod * 1) + (b - a) /\ b - a \in 0..IndexMod - 1
    BY <1>1, Sizes DEF Indices
  <2> QED
    BY <1>1, <2>1, Sizes, ModUnique DEF Indices, Dist
<1>2. CASE b < a
  <2>1. /\ b + IndexMod - a = (IndexMod * 0) + (b + IndexMod - a)
        /\ b + IndexMod - a \in 0..IndexMod - 1
    BY <1>2, Sizes DEF Indices
  <2> QED
    BY <1>2, <2>1, Sizes, ModUnique DEF Indices, Dist
<1> QED
  BY <1>1, <1>2, Sizes DEF Indices

\* The index that is k after a.
LEMMA After ==
  ASSUME NEW a \in Indices, NEW k \in Indices
  PROVE /\ (a + k) % IndexMod = IF a + k < IndexMod THEN a + k ELSE a + k - IndexMod
        /\ (a + k) % IndexMod \in Indices /\ Dist(a, (a + k) % IndexMod) = k
<1>1. (a + k) % IndexMod = IF a + k < IndexMod THEN a + k ELSE a + k - IndexMod
  <2>1. CASE a + k < IndexMod
    <3>1. a + k = (IndexMod * 0) + (a + k) /\ a + k \in 0..IndexMod - 1
      BY <2>1, Sizes DEF Indices
    <3> QED
      BY <2>1, <3>1, Sizes, ModUnique DEF Indices
  <2>2. CASE a + k >= IndexMod
    <3>1. a + k = (IndexMod * 1) + (a + k - IndexMod) /\ a + k - IndexMod \in 0..IndexMod - 1
      BY <2>2, Sizes DEF Indices
    <3> QED
      BY <2>2, <3>1, Sizes, ModUnique DEF Indices
  <2> QED
    BY <2>1, <2>2, Sizes DEF Indices
<1> DEFINE i == (a + k) % IndexMod
<1>2. i \in Indices
  BY <1>1, Sizes DEF Indices
<1>3. i = IF a + k < IndexMod THEN a + k ELSE a + k - IndexMod
  BY <1>1
<1> HIDE DEF i
<1>4. Dist(a, i) = k
  <2>1. Dist(a, i) = IF i >= a THEN i - a ELSE i + IndexMod - a
    BY <1>2, DistIs
  <2> QED
    BY <1>3, <2>1, Sizes DEF Indices
<1> QED
  BY <1>1, <1>2, <1>4 DEF i

\* The positions between two indices are those that are nearer.
LEMMA SpanIs ==
  ASSUME NEW a \in Indices, NEW b \in Indices
  PROVE Span(a, b) = {i \in Indices : Dist(a, i) < Dist(a, b)}
<1> DEFINE d == Dist(a, b)
<1>0. d \in Indices
  BY DistIs
<1>1. Span(a, b) = {(a + k) % IndexMod : k \in 0..(d - 1)}
  BY DEF Span, Dist
<1> HIDE DEF d
<1>2. ASSUME NEW i \in Span(a, b) PROVE i \in Indices /\ Dist(a, i) < d
  <2>1. PICK k \in 0..(d - 1) : i = (a + k) % IndexMod
    BY <1>1
  <2>2. k \in Indices /\ k < d
    BY <1>0, Sizes DEF Indices
  <2> QED
    BY <2>1, <2>2, After
<1>3. ASSUME NEW i \in Indices, Dist(a, i) < d PROVE i \in Span(a, b)
  <2> DEFINE k == Dist(a, i)
  <2>1. k = (IF i >= a THEN i - a ELSE i + IndexMod - a) /\ k \in Indices
    BY DistIs
  <2>2. k \in 0..(d - 1)
    BY <1>0, <1>3, <2>1 DEF Indices
  <2> HIDE DEF k
  <2>3. (a + k) % IndexMod = IF a + k < IndexMod THEN a + k ELSE a + k - IndexMod
    BY <2>1, After
  <2>4. (a + k) % IndexMod = i
    BY <2>1, <2>3, Sizes DEF Indices
  <2> QED
    BY <1>1, <2>2, <2>4
<1> QED
  BY <1>2, <1>3 DEF d

\* A part has as many positions as its ends are apart.
LEMMA SpanSize ==
  ASSUME NEW a \in Indices, NEW b \in Indices
  PROVE IsFiniteSet(Span(a, b)) /\ Cardinality(Span(a, b)) = Dist(a, b)
<1> DEFINE d == Dist(a, b)
           f == [k \in 0..(d - 1) |-> (a + k) % IndexMod]
<1>0. d \in Indices /\ d \in Nat
  BY DistIs, Sizes DEF Indices
<1>1. Span(a, b) = {(a + k) % IndexMod : k \in 0..(d - 1)}
  BY DEF Span, Dist
<1> HIDE DEF d
<1>2. \A k \in 0..(d - 1) : k \in Indices
  BY <1>0, Sizes DEF Indices
<1>3. \A k, l \in 0..(d - 1) : f[k] = f[l] => k = l
  <2> SUFFICES ASSUME NEW k \in 0..(d - 1), NEW l \in 0..(d - 1),
                      (a + k) % IndexMod = (a + l) % IndexMod
               PROVE k = l
    OBVIOUS
  <2>1. Dist(a, (a + k) % IndexMod) = k /\ Dist(a, (a + l) % IndexMod) = l
    BY <1>2, After
  <2> QED
    BY <2>1
<1>4. f \in Bijection(0..(d - 1), Span(a, b))
  <2>1. f \in [0..(d - 1) -> Span(a, b)]
    BY <1>1
  <2>2. f \in Injection(0..(d - 1), Span(a, b))
    BY <1>3, <2>1 DEF Injection, IsInjective
  <2>3. \A i \in Span(a, b) : \E k \in 0..(d - 1) : f[k] = i
    BY <1>1
  <2>4. f \in Surjection(0..(d - 1), Span(a, b))
    BY <2>1, <2>3 DEF Surjection
  <2> QED
    BY <2>2, <2>4 DEF Bijection
<1>5. ExistsBijection(0..(d - 1), Span(a, b))
  BY <1>4 DEF ExistsBijection
<1>6. IsFiniteSet(0..(d - 1)) /\ Cardinality(0..(d - 1)) = d
  <2>1. 0 \in Int /\ d - 1 \in Int
    BY <1>0
  <2>2. /\ IsFiniteSet(0..(d - 1))
        /\ Cardinality(0..(d - 1)) = IF 0 > d - 1 THEN 0 ELSE d - 1 - 0 + 1
    BY <2>1, FS_Interval
  <2> QED
    BY <1>0, <2>2
<1> QED
  BY <1>5, <1>6, FS_Bijection DEF d

\* The part grows at its end.
LEMMA SpanAdd ==
  ASSUME NEW a \in Indices, NEW b \in Indices, Dist(a, b) + 1 < IndexMod
  PROVE /\ Span(a, Succ(b)) = Span(a, b) \cup {b} /\ b \notin Span(a, b)
        /\ Dist(a, Succ(b)) = Dist(a, b) + 1
<1>1. Succ(b) \in Indices /\ Succ(b) = IF b + 1 = IndexMod THEN 0 ELSE b + 1
  BY SuccIs
<1>2. Dist(a, b) \in Indices /\ Dist(a, Succ(b)) = Dist(a, b) + 1
  <2>1. /\ Dist(a, b) = (IF b >= a THEN b - a ELSE b + IndexMod - a) /\ Dist(a, b) \in Indices
        /\ Dist(a, Succ(b)) =
             IF Succ(b) >= a THEN Succ(b) - a ELSE Succ(b) + IndexMod - a
    BY <1>1, DistIs
  <2> QED
    BY <1>1, <2>1, Sizes DEF Indices
<1>3. ASSUME NEW i \in Indices
      PROVE Dist(a, i) \in Indices /\ (Dist(a, i) = Dist(a, b) <=> i = b)
  <2>1. /\ Dist(a, b) = (IF b >= a THEN b - a ELSE b + IndexMod - a)
        /\ Dist(a, i) = (IF i >= a THEN i - a ELSE i + IndexMod - a) /\ Dist(a, i) \in Indices
    BY DistIs
  <2> QED
    BY <2>1, Sizes DEF Indices
<1>4. ASSUME NEW i \in Indices
      PROVE Dist(a, i) < Dist(a, Succ(b)) <=> Dist(a, i) < Dist(a, b) \/ i = b
  BY <1>2, <1>3 DEF Indices
<1> QED
  BY <1>1, <1>2, <1>4, SpanIs DEF Indices

\* The part shrinks at its start.
LEMMA SpanDrop ==
  ASSUME NEW a \in Indices, NEW b \in Indices, a # b
  PROVE /\ Span(Succ(a), b) = Span(a, b) \ {a} /\ a \in Span(a, b)
        /\ Dist(Succ(a), b) = Dist(a, b) - 1
<1>1. Succ(a) \in Indices /\ Succ(a) = IF a + 1 = IndexMod THEN 0 ELSE a + 1
  BY SuccIs
<1>2. /\ Dist(a, b) \in Indices /\ Dist(a, b) > 0 /\ Dist(a, a) = 0
      /\ Dist(Succ(a), b) = Dist(a, b) - 1
  <2>1. /\ Dist(a, b) = (IF b >= a THEN b - a ELSE b + IndexMod - a) /\ Dist(a, b) \in Indices
        /\ Dist(a, a) = IF a >= a THEN a - a ELSE a + IndexMod - a
        /\ Dist(Succ(a), b) =
             IF b >= Succ(a) THEN b - Succ(a) ELSE b + IndexMod - Succ(a)
    BY <1>1, DistIs
  <2> QED
    BY <1>1, <2>1, Sizes DEF Indices
<1>3. ASSUME NEW i \in Indices
      PROVE /\ Dist(a, i) \in Indices
            /\ i # a => Dist(Succ(a), i) = Dist(a, i) - 1
            /\ Dist(Succ(a), a) = IndexMod - 1
  <2>1. /\ Dist(a, i) = (IF i >= a THEN i - a ELSE i + IndexMod - a) /\ Dist(a, i) \in Indices
        /\ Dist(Succ(a), i) =
             IF i >= Succ(a) THEN i - Succ(a) ELSE i + IndexMod - Succ(a)
        /\ Dist(Succ(a), a) =
             IF a >= Succ(a) THEN a - Succ(a) ELSE a + IndexMod - Succ(a)
    BY <1>1, DistIs
  <2> QED
    BY <1>1, <2>1, Sizes DEF Indices
<1>4. ASSUME NEW i \in Indices
      PROVE Dist(Succ(a), i) < Dist(Succ(a), b) <=> Dist(a, i) < Dist(a, b) /\ i # a
  BY <1>2, <1>3, Sizes DEF Indices
<1> QED
  BY <1>1, <1>2, <1>4, SpanIs

\* Positions in a part no longer than the ring have different slots.
LEMMA SlotsDiffer ==
  ASSUME NEW a \in Indices, NEW i \in Indices, NEW j \in Indices,
         Dist(a, i) < QueueSize, Dist(a, j) < QueueSize, i % QueueSize = j % QueueSize
  PROVE i = j
<1> DEFINE k == Dist(a, i)
           l == Dist(a, j)
<1>1. /\ k = (IF i >= a THEN i - a ELSE i + IndexMod - a) /\ k \in Indices
      /\ l = (IF j >= a THEN j - a ELSE j + IndexMod - a) /\ l \in Indices
  BY DistIs
<1>2. k < QueueSize /\ l < QueueSize
  OBVIOUS
<1> HIDE DEF k, l
<1>3. (i + IndexMod) % QueueSize = i % QueueSize /\ (j + IndexMod) % QueueSize = j % QueueSize
  <2>1. i \in Int /\ j \in Int /\ IndexMod \in Int /\ IndexMod % QueueSize = 0
    BY QueueAssumption DEF Indices
  <2> QED
    BY <2>1, Sizes, ModMultiple
<1>4. (a + k) % QueueSize = i % QueueSize
  <2>1. a + k = i \/ a + k = i + IndexMod
    BY <1>1, Sizes DEF Indices
  <2> QED
    BY <1>3, <2>1
<1>5. (a + l) % QueueSize = j % QueueSize
  <2>1. a + l = j \/ a + l = j + IndexMod
    BY <1>1, Sizes DEF Indices
  <2> QED
    BY <1>3, <2>1
<1>6. (a + k) % QueueSize = (a + l) % QueueSize
  BY <1>4, <1>5
<1>7. a + k = a + l
  <2>1. a + k \in Int /\ a + l \in Int /\ (a + k <= a + l \/ a + l <= a + k)
        /\ a + k < a + l + QueueSize /\ a + l < a + k + QueueSize
    BY <1>1, <1>2, Sizes DEF Indices
  <2> QED
    BY <1>6, <2>1, Sizes, ModWindow
<1> QED
  BY <1>1, <1>7, Sizes DEF Indices

-----------------------------------------------------------------------------
(* The disk.                                                                *)

\* What the driver wrote into its rings is a request.
LEMMA RequestIs ==
  ASSUME NEW r \in Requests
  PROVE /\ r.type \in Types /\ r.sector \in Nat /\ r.data \in Seq(Data) /\ Len(r.data) \in Nat
        /\ Len(r.segs) \in Nat
        /\ \A j \in 1..Len(r.segs) : r.segs[j] \in 0..Len(r.data)
        /\ SegEnd(r, Len(r.segs)) = Len(r.data)
<1>1. IsRequest(r)
  BY RequestsAssumption
<1>2. /\ r.type \in Types /\ r.sector \in Nat /\ r.data \in Seq(Data)
      /\ r.segs \in Seq(0..Len(r.data))
      /\ Len(r.data) = IF r.segs = <<>> THEN 0 ELSE r.segs[Len(r.segs)]
  BY <1>1 DEF IsRequest
<1>3. Len(r.data) \in Nat /\ Len(r.segs) \in Nat /\ (r.segs = <<>> <=> Len(r.segs) = 0)
  BY <1>2
<1>4. \A j \in 1..Len(r.segs) : r.segs[j] \in 0..Len(r.data)
  BY <1>2
<1>5. SegEnd(r, Len(r.segs)) = Len(r.data)
  BY <1>2, <1>3 DEF SegEnd
<1> QED
  BY <1>2, <1>3, <1>4, <1>5

\* The sectors of the first descriptors are among those of the request, and the
\* request has the data for them.
LEMMA CoveredIs ==
  ASSUME NEW r \in Requests, NEW j \in 0..Len(r.segs)
  PROVE /\ Covered(r, j) \subseteq Store!Addressed(r)
        /\ Covered(r, Len(r.segs)) = Store!Addressed(r)
        /\ \A s \in Store!Addressed(r) : s \in Sectors /\ Store!NewData(r, s) \in Data
<1>1. /\ r.sector \in Nat /\ r.data \in Seq(Data) /\ Len(r.data) \in Nat /\ Len(r.segs) \in Nat
      /\ SegEnd(r, Len(r.segs)) = Len(r.data)
  BY RequestIs
<1>2. SegEnd(r, j) \in 0..Len(r.data)
  BY <1>1, RequestIs DEF SegEnd
<1>3. Sectors \subseteq Nat
  BY DiskAssumption DEF Sectors
<1>4. ASSUME NEW s \in Covered(r, j) PROVE s \in Store!Addressed(r)
  <2>1. s \in Sectors /\ s \in Nat /\ s >= r.sector /\ s < r.sector + SegEnd(r, j)
    BY <1>3 DEF Covered
  <2>2. s < r.sector + Len(r.data)
    BY <1>1, <1>2, <2>1
  <2> QED
    BY <2>1, <2>2 DEF Store!Addressed
<1>5. Covered(r, Len(r.segs)) = Store!Addressed(r)
  BY <1>1 DEF Covered, Store!Addressed
<1>6. ASSUME NEW s \in Store!Addressed(r) PROVE s \in Sectors /\ Store!NewData(r, s) \in Data
  <2>1. s \in Sectors /\ s - r.sector + 1 \in 1..Len(r.data)
    BY <1>1, <1>3 DEF Store!Addressed
  <2> QED
    BY <1>1, <2>1 DEF Store!NewData
<1> QED
  BY <1>4, <1>5, <1>6

FilesOK ==
  /\ base \in [Sectors -> Data] /\ overlay \in [Sectors -> Data \cup {None}]
  /\ dirty \subseteq Sectors /\ ImagePreserved

\* What the guest sees is data.
LEMMA SeenIsData ==
  ASSUME FilesOK, NEW s \in Sectors PROVE ReadSector(s) \in Data
  BY DEF FilesOK, ImagePreserved, ReadSector

\* The guest sees the new data of request r in the sectors part, and what it saw
\* before in the others.
Shows(r, part) ==
  \A s \in Sectors : ReadSector(s)' = IF s \in part THEN Store!NewData(r, s) ELSE ReadSector(s)

\* A write of some sectors of a request, some of which are marked dirty, changes
\* what the guest sees in a part of those sectors and nowhere else; in all of
\* them when all are marked.
LEMMA WriteDiskIs ==
  ASSUME FilesOK, NEW r \in Requests, NEW written \in SUBSET Store!Addressed(r),
         NEW marked \in SUBSET written, WriteDisk(r, written, marked), ReadOnly => written = {}
  PROVE /\ FilesOK'
        /\ \E part \in SUBSET Store!Addressed(r) : Shows(r, part)
        /\ marked = written => Shows(r, written)
<1>0. 0 \in 0..Len(r.segs)
  BY RequestIs
<1>1. \A s \in Store!Addressed(r) : s \in Sectors /\ Store!NewData(r, s) \in Data
  BY <1>0, CoveredIs
<1> DEFINE W(f) == [s \in Sectors |-> IF s \in written THEN Store!NewData(r, s) ELSE f[s]]
<1>2. CASE HasOverlay
  <2>1. overlay' = W(overlay) /\ dirty' = dirty \cup marked /\ base' = base
    BY <1>2 DEF WriteDisk, Store!NewData
  <2>2. overlay' \in [Sectors -> Data \cup {None}] /\ dirty' \subseteq Sectors
    BY <1>1, <2>1 DEF FilesOK
  <2>3. \A s \in Sectors : overlay'[s] = IF s \in written THEN Store!NewData(r, s) ELSE overlay[s]
    BY <2>1
  <2>4. ImagePreserved'
    <3>1. \A s \in written : Store!NewData(r, s) # None /\ s \in Sectors
      BY <1>1, DiskAssumption
    <3> QED
      BY <2>1, <2>3, <3>1 DEF ImagePreserved, FilesOK
  <2>5. FilesOK'
    BY <2>1, <2>2, <2>4 DEF FilesOK
  <2> DEFINE part == written \cap (dirty \cup marked)
  <2>6. part \in SUBSET Store!Addressed(r) /\ (marked = written => part = written)
    OBVIOUS
  <2>7. Shows(r, part)
    BY <1>2, <2>1, <2>3 DEF Shows, ReadSector
  <2> QED
    BY <2>5, <2>6, <2>7
<1>3. CASE ~HasOverlay
  <2>1. base' = W(base) /\ UNCHANGED <<overlay, dirty>>
    BY <1>3 DEF WriteDisk, Store!NewData
  <2>2. base' \in [Sectors -> Data]
    BY <1>1, <2>1 DEF FilesOK
  <2>3. \A s \in Sectors : base'[s] = IF s \in written THEN Store!NewData(r, s) ELSE base[s]
    BY <2>1
  <2>4. written = {} => base' = base
    BY <2>1 DEF FilesOK
  <2>5. FilesOK'
    BY <1>3, <2>1, <2>2, <2>4 DEF FilesOK, ImagePreserved
  <2>6. Shows(r, written) /\ written \in SUBSET Store!Addressed(r)
    BY <1>3, <2>3 DEF Shows, ReadSector
  <2> QED
    BY <2>5, <2>6
<1> QED
  BY <1>2, <1>3

-----------------------------------------------------------------------------
(* process_request serves a pending request of the block store.             *)

Pending(h, r) ==
  /\ replies \in [Heads -> Replies \cup {None}] /\ chains[h] = r /\ replies[h] = None
  /\ chains' = chains

\* A failed request: any part of a write may have been done.
LEMMA FailsIs ==
  ASSUME NEW h \in Heads, NEW r \in Requests, Pending(h, r),
         NEW status \in {"ioerr", "unsupp", "lost"}, Reply(h, status, <<>>),
         NEW part \in SUBSET Store!Addressed(r), r.type = "out" \/ part = {}, Shows(r, part)
  PROVE Store!Serve(h) /\ \E a \in Replies : replies' = [replies EXCEPT ![h] = a]
<1>1. chains[h] # None /\ replies[h] = None /\ chains[h] = r /\ chains' = chains
  BY RequestsAssumption DEF Pending
<1>2. [s \in Sectors |-> ReadSector(s)]' =
        [s \in Sectors |-> IF r.type = "out" /\ s \in part THEN Store!NewData(r, s)
                           ELSE [t \in Sectors |-> ReadSector(t)][s]]
  BY DEF Shows
<1>3. replies' = [replies EXCEPT ![h] = [status |-> status, data |-> <<>>]]
  BY DEF Reply
<1>4. Store!Fails(h, r, status)
  BY <1>2, <1>3 DEF Store!Fails
<1>5. [status |-> status, data |-> <<>>] \in Replies
  BY DEF Replies, ReplyStatus
<1> QED
  BY <1>1, <1>3, <1>4, <1>5 DEF Store!Serve

\* A successful request: all of a write is done, and a read returns the disk.
LEMMA SucceedsIs ==
  ASSUME NEW h \in Heads, NEW r \in Requests, Pending(h, r), NEW data, Reply(h, "ok", data),
         data = IF r.type = "in" THEN [s \in Store!Addressed(r) |-> ReadSector(s)] ELSE <<>>,
         FilesOK, Shows(r, IF r.type = "out" THEN Store!Addressed(r) ELSE {})
  PROVE Store!Serve(h) /\ \E a \in Replies : replies' = [replies EXCEPT ![h] = a]
<1>0. Store!Addressed(r) \subseteq Sectors
  BY DEF Store!Addressed
<1>1. chains[h] # None /\ replies[h] = None /\ chains[h] = r /\ chains' = chains
  BY RequestsAssumption DEF Pending
<1>2. [s \in Sectors |-> ReadSector(s)]' =
        [s \in Sectors |-> IF r.type = "out" /\ s \in Store!Addressed(r) THEN Store!NewData(r, s)
                           ELSE [t \in Sectors |-> ReadSector(t)][s]]
  BY DEF Shows
<1>3. data = IF r.type = "in"
             THEN [s \in Store!Addressed(r) |-> [t \in Sectors |-> ReadSector(t)][s]] ELSE <<>>
  BY <1>0
<1>4. replies' = [replies EXCEPT ![h] = [status |-> "ok", data |-> data]]
  BY DEF Reply
<1>5. Store!Succeeds(h, r)
  BY <1>2, <1>3, <1>4 DEF Store!Succeeds
<1>6. data \in {<<>>} \cup UNION {[S -> Data] : S \in SUBSET Sectors}
  <2>1. CASE r.type = "in"
    <3>1. data \in [Store!Addressed(r) -> Data]
      BY <1>0, <2>1, SeenIsData
    <3> QED
      BY <1>0, <3>1
  <2>2. CASE r.type # "in"
    BY <2>2
  <2> QED
    BY <2>1, <2>2
<1>7. [status |-> "ok", data |-> data] \in Replies
  BY <1>6 DEF Replies, ReplyStatus
<1> QED
  BY <1>1, <1>4, <1>5, <1>7 DEF Store!Serve

Handles(h, r) ==
  \/ ReadRequest(h, r) \/ WriteRequest(h, r) \/ WriteRequestFails(h, r)
  \/ OtherRequest(h, r) \/ MalformedRequest(h, r)

\* No sector is covered before the first descriptor.
LEMMA NothingCovered == ASSUME NEW r \in Requests PROVE Covered(r, 0) = {}
<1> SUFFICES ASSUME NEW s \in Covered(r, 0) PROVE FALSE
  OBVIOUS
<1>1. s \in Nat /\ r.sector \in Nat /\ s >= r.sector /\ s < r.sector + 0
  BY RequestIs, DiskAssumption DEF Covered, SegEnd, Sectors
<1> QED
  BY <1>1

\* Whatever happens to a request, it is served: its own sectors at most change.
LEMMA HandlesServes ==
  ASSUME FilesOK, NEW h \in Heads, NEW r \in Requests, Pending(h, r), Handles(h, r)
  PROVE /\ FilesOK'
        /\ Store!Serve(h) /\ \E a \in Replies : replies' = [replies EXCEPT ![h] = a]
<1> DEFINE n == Len(r.segs)
<1>0. /\ n \in Nat /\ n \in 0..n /\ 0 \in 0..n /\ (r.segs = <<>> => n = 0)
  BY RequestIs
<1>1. ASSUME UNCHANGED fileVars PROVE FilesOK' /\ Shows(r, {})
  BY <1>1 DEF FilesOK, fileVars, ImagePreserved, ReadSector, Shows
<1> DEFINE nothing == {}
<1>2. nothing \in SUBSET Store!Addressed(r) /\ nothing = {}
  OBVIOUS
<1> HIDE DEF nothing
<1>3. ASSUME UNCHANGED fileVars, NEW status \in {"ioerr", "unsupp", "lost"}, Reply(h, status, <<>>)
      PROVE Store!Serve(h) /\ \E a \in Replies : replies' = [replies EXCEPT ![h] = a]
  <2>1. Shows(r, nothing)
    BY <1>1, <1>2, <1>3
  <2> QED
    BY <1>2, <1>3, <2>1, FailsIs
<1>4. CASE ReadRequest(h, r)
  <2>1. r.type = "in" /\ UNCHANGED fileVars
    BY <1>4 DEF ReadRequest
  <2>2. CASE Reply(h, "ok", [s \in Covered(r, n) |-> ReadSector(s)])
    <3>1. Covered(r, n) = Store!Addressed(r)
      BY <1>0, CoveredIs
    <3>2. Shows(r, IF r.type = "out" THEN Store!Addressed(r) ELSE {})
      BY <1>1, <2>1
    <3> QED
      BY <1>1, <2>1, <2>2, <3>1, <3>2, SucceedsIs
  <2>3. CASE Reply(h, "ioerr", <<>>)
    BY <1>1, <1>3, <2>1, <2>3
  <2> QED
    BY <1>4, <2>2, <2>3 DEF ReadRequest
<1>5. CASE WriteRequest(h, r)
  <2> DEFINE all == Covered(r, n)
  <2>1. /\ r.type = "out" /\ Reply(h, "ok", <<>>) /\ (ReadOnly => r.segs = <<>>)
        /\ WriteDisk(r, all, all)
    BY <1>5 DEF WriteRequest
  <2>2. all = Store!Addressed(r) /\ all \in SUBSET Store!Addressed(r) /\ all \in SUBSET all
    BY <1>0, CoveredIs
  <2>3. ReadOnly => all = {}
    BY <1>0, <2>1, NothingCovered
  <2> HIDE DEF all
  <2>4. FilesOK' /\ Shows(r, all)
    BY <2>1, <2>2, <2>3, WriteDiskIs
  <2>5. Shows(r, IF r.type = "out" THEN Store!Addressed(r) ELSE {})
    BY <2>1, <2>2, <2>4
  <2> QED
    BY <2>1, <2>4, <2>5, SucceedsIs
<1>6. CASE WriteRequestFails(h, r)
  <2>1. r.type = "out" /\ Reply(h, "ioerr", <<>>)
    BY <1>6 DEF WriteRequestFails
  <2>2. PICK j \in 0..(n - 1) :
          /\ j > 0 => ~ReadOnly
          /\ \E torn \in SUBSET (Covered(r, j + 1) \ Covered(r, j)) :
               /\ ReadOnly \/ ~Fits(r, j + 1) => torn = {}
               /\ WriteDisk(r, Covered(r, j) \cup torn, Covered(r, j))
    BY <1>6 DEF WriteRequestFails
  <2>3. PICK torn \in SUBSET (Covered(r, j + 1) \ Covered(r, j)) :
          /\ ReadOnly => torn = {}
          /\ WriteDisk(r, Covered(r, j) \cup torn, Covered(r, j))
    BY <2>2
  <2> DEFINE written == Covered(r, j) \cup torn
  <2>4. j \in 0..n /\ j + 1 \in 0..n
    BY <1>0
  <2>5. written \in SUBSET Store!Addressed(r) /\ Covered(r, j) \in SUBSET written
    BY <2>4, CoveredIs
  <2>6. ReadOnly => written = {}
    <3>1. ReadOnly => j = 0
      BY <1>0, <2>2
    <3> QED
      BY <2>3, <3>1, NothingCovered
  <2>7. WriteDisk(r, written, Covered(r, j))
    BY <2>3
  <2> HIDE DEF written
  <2>8. FilesOK' /\ \E part \in SUBSET Store!Addressed(r) : Shows(r, part)
    BY <2>5, <2>6, <2>7, WriteDiskIs
  <2> QED
    BY <2>1, <2>8, FailsIs
<1>7. CASE OtherRequest(h, r)
  <2>1. r.type = "other" /\ UNCHANGED fileVars
    BY <1>7 DEF OtherRequest
  <2>2. PICK status \in {"ok", "ioerr", "unsupp"} : Reply(h, status, <<>>)
    BY <1>7 DEF OtherRequest
  <2>3. CASE status = "ok"
    <3>1. Shows(r, IF r.type = "out" THEN Store!Addressed(r) ELSE {})
      BY <1>1, <2>1
    <3> QED
      BY <1>1, <2>1, <2>2, <2>3, <3>1, SucceedsIs
  <2>4. CASE status # "ok"
    BY <1>1, <1>3, <2>1, <2>2, <2>4
  <2> QED
    BY <2>3, <2>4
<1>8. CASE MalformedRequest(h, r)
  <2>1. UNCHANGED fileVars /\ \E status \in {"ioerr", "lost"} : Reply(h, status, <<>>)
    BY <1>8 DEF MalformedRequest
  <2> QED
    BY <1>1, <1>3, <2>1
<1> QED
  BY <1>4, <1>5, <1>6, <1>7, <1>8 DEF Handles

-----------------------------------------------------------------------------
(* What the rings hold.                                                     *)

\* The slot of an index is a slot of the ring.
LEMMA SlotIs == ASSUME NEW i \in Indices PROVE i % QueueSize \in Heads
<1>1. i \in Int /\ i % QueueSize \in 0..QueueSize - 1
  BY Sizes, ModExists DEF Indices
<1> QED
  BY <1>1 DEF Heads

\* The next slot after a part shorter than the ring is free.
LEMMA FreeSlot ==
  ASSUME NEW a \in Indices, NEW b \in Indices, Dist(a, b) < QueueSize
  PROVE \A i \in Span(a, b) : i \in Indices /\ i % QueueSize # b % QueueSize
<1> SUFFICES ASSUME NEW i \in Span(a, b)
             PROVE i \in Indices /\ i % QueueSize # b % QueueSize
  OBVIOUS
<1>1. i \in Indices /\ Dist(a, i) < Dist(a, b)
  BY SpanIs
<1>2. Dist(a, i) \in Indices /\ Dist(a, b) \in Indices
  BY <1>1, DistIs
<1>3. Dist(a, i) < QueueSize
  BY <1>1, <1>2, Sizes DEF Indices
<1>4. i # b
  BY <1>1, <1>2 DEF Indices
<1> QED
  BY <1>1, <1>3, <1>4, SlotsDiffer

Pushed(new, ring, b, h) == new = [ring EXCEPT ![b % QueueSize] = h]
FreeIn(part, b) == \A i \in part : i % QueueSize # b % QueueSize

\* A head written into a free slot is added to the ring.
LEMMA RingPush ==
  ASSUME NEW ring \in [Heads -> Heads], NEW part \in SUBSET Indices, NEW b \in Indices,
         NEW h \in Heads, FreeIn(part, b), Distinct(ring, part), h \notin Held(ring, part),
         NEW new, Pushed(new, ring, b, h)
  PROVE /\ new \in [Heads -> Heads]
        /\ Distinct(new, part \cup {b})
        /\ \A g : g \in Held(new, part \cup {b}) <=> g \in Held(ring, part) \/ g = h
<1>1. b % QueueSize \in Heads /\ \A i \in part : i % QueueSize \in Heads
  BY SlotIs
<1>2. /\ new \in [Heads -> Heads] /\ new[b % QueueSize] = h
      /\ \A i \in part : new[i % QueueSize] = ring[i % QueueSize]
  BY <1>1 DEF Pushed, FreeIn
<1>3. \A i \in part : ring[i % QueueSize] # h
  BY DEF Held
<1>4. Distinct(new, part \cup {b})
  BY <1>2, <1>3 DEF Distinct
<1>5. \A g : g \in Held(new, part \cup {b}) <=> g \in Held(ring, part) \/ g = h
  BY <1>2 DEF Held
<1> QED
  BY <1>2, <1>4, <1>5

\* A position that is given up takes its head, and no other, out of the ring.
LEMMA RingDrop ==
  ASSUME NEW ring \in [Heads -> Heads], NEW part \in SUBSET Indices, NEW a \in part,
         Distinct(ring, part)
  PROVE /\ ring[a % QueueSize] \in Held(ring, part) /\ ring[a % QueueSize] \in Heads
        /\ Distinct(ring, part \ {a})
        /\ Held(ring, part \ {a}) = Held(ring, part) \ {ring[a % QueueSize]}
<1>1. ring[a % QueueSize] \in Heads
  BY SlotIs
<1>2. ring[a % QueueSize] \in Held(ring, part) /\ Distinct(ring, part \ {a})
  BY DEF Held, Distinct
<1>3. Held(ring, part \ {a}) = Held(ring, part) \ {ring[a % QueueSize]}
  BY DEF Held, Distinct
<1> QED
  BY <1>1, <1>2, <1>3

\* A part holds as many heads as it has positions, if they are distinct.
LEMMA HeldSize ==
  ASSUME NEW ring, NEW part, IsFiniteSet(part), Distinct(ring, part)
  PROVE IsFiniteSet(Held(ring, part)) /\ Cardinality(Held(ring, part)) = Cardinality(part)
<1> DEFINE f == [i \in part |-> ring[i % QueueSize]]
           H == Held(ring, part)
<1>1. f \in [part -> H] /\ \A h \in H : \E i \in part : f[i] = h
  BY DEF Held
<1>2. \A i, j \in part : f[i] = f[j] => i = j
  BY DEF Distinct
<1> HIDE DEF f, H
<1>3. f \in Injection(part, H)
  BY <1>1, <1>2 DEF Injection, IsInjective
<1>4. f \in Surjection(part, H)
  BY <1>1 DEF Surjection
<1>5. ExistsBijection(part, H)
  BY <1>3, <1>4 DEF Bijection, ExistsBijection
<1> QED
  BY <1>5, FS_Bijection DEF H

RingTypes ==
  /\ lastAvail \in Indices /\ availIdx \in Indices /\ drvUsed \in Indices /\ usedIdx \in Indices
  /\ availRing \in [Heads -> Heads] /\ usedRing \in [Heads -> Heads]

Entries == IF busy.entry THEN 1 ELSE 0

\* The lengths of the parts add up to the number of outstanding requests.
LEMMA Lengths ==
  ASSUME RingTypes, InOneRing
  PROVE /\ IsFiniteSet(Outstanding) /\ Cardinality(Outstanding) <= QueueSize
        /\ Dist(lastAvail, availIdx) + Dist(drvUsed, usedIdx) + Entries = Cardinality(Outstanding)
        /\ AvailPart \subseteq Indices /\ WrittenPart \subseteq Indices
        /\ Cardinality(AvailPart) = Dist(lastAvail, availIdx)
        /\ Cardinality(UsedPart) = Dist(drvUsed, usedIdx)
        /\ Cardinality(InEntry) = Entries
        /\ Dist(lastAvail, availIdx) \in Nat /\ Dist(drvUsed, usedIdx) \in Nat
        /\ Outstanding # Heads => Cardinality(Outstanding) < QueueSize
<1> DEFINE p == Dist(lastAvail, availIdx)
           u == Dist(drvUsed, usedIdx)
<1>1. /\ IsFiniteSet(AvailPart) /\ Cardinality(AvailPart) = p
      /\ IsFiniteSet(UsedPart) /\ Cardinality(UsedPart) = u
  BY SpanSize DEF RingTypes, AvailPart, UsedPart
<1>2. p \in Nat /\ u \in Nat
  BY DistIs DEF RingTypes, Indices
<1>3. /\ AvailPart = {i \in Indices : Dist(lastAvail, i) < p}
      /\ UsedPart = {i \in Indices : Dist(drvUsed, i) < u}
  BY SpanIs DEF RingTypes, AvailPart, UsedPart
<1>4. usedIdx \notin UsedPart
  BY <1>2, <1>3
<1>5. IsFiniteSet(WrittenPart) /\ Cardinality(WrittenPart) = u + Entries
  <2>1. CASE busy.entry
    <3>1. WrittenPart = UsedPart \cup {usedIdx} /\ Entries = 1
      BY <2>1 DEF WrittenPart, Entries
    <3> QED
      BY <1>1, <1>4, <3>1, FS_AddElement
  <2>2. CASE ~busy.entry
    <3>1. WrittenPart = UsedPart /\ Entries = 0
      BY <2>2 DEF WrittenPart, Entries
    <3> QED
      BY <1>1, <1>2, <3>1
  <2> QED
    BY <2>1, <2>2
<1>6. AvailPart \subseteq Indices /\ WrittenPart \subseteq Indices
  BY <1>3 DEF WrittenPart, RingTypes
<1>7. IsFiniteSet(Queued) /\ Cardinality(Queued) = p
  <2>1. Queued = Held(availRing, AvailPart)
    BY DEF Queued, Held, AvailPart
  <2> QED
    BY <1>1, <2>1, HeldSize DEF InOneRing
<1>8. IsFiniteSet(Written) /\ Cardinality(Written) = u + Entries
  BY <1>5, HeldSize DEF InOneRing, Written
<1>9. IsFiniteSet(Outstanding) /\ Cardinality(Outstanding) = p + u + Entries
  <2>1. /\ IsFiniteSet(Queued \cup Written)
        /\ Cardinality(Queued \cup Written) = p + (u + Entries) - Cardinality(Queued \cap Written)
    BY <1>7, <1>8, FS_Union
  <2>2. Cardinality(Queued \cap Written) = 0
    BY FS_EmptySet DEF InOneRing
  <2>3. Queued \cup Written = Outstanding /\ Entries \in Nat
    BY DEF InOneRing, Entries
  <2> HIDE DEF p, u
  <2> QED
    BY <1>2, <2>1, <2>2, <2>3
<1>10. IsFiniteSet(Heads) /\ Cardinality(Heads) = QueueSize
  <2>1. 0 \in Int /\ QueueSize - 1 \in Int /\ ~(0 > QueueSize - 1)
    BY Sizes
  <2>2. /\ IsFiniteSet(0..(QueueSize - 1))
        /\ Cardinality(0..(QueueSize - 1)) =
             IF 0 > QueueSize - 1 THEN 0 ELSE QueueSize - 1 - 0 + 1
    BY <2>1, FS_Interval
  <2> QED
    BY <2>1, <2>2, Sizes DEF Heads
<1>11. /\ Cardinality(Outstanding) <= QueueSize
       /\ Cardinality(Heads) = Cardinality(Outstanding) => Heads = Outstanding
  <2>1. Outstanding \in SUBSET Heads
    BY DEF Outstanding
  <2> QED
    BY <1>10, <2>1, FS_Subset
<1>12. Cardinality(InEntry) = Entries
  BY FS_Singleton, FS_EmptySet DEF InEntry, Entries
<1>13. Cardinality(Outstanding) \in Nat
  BY <1>9, FS_CardinalityType
<1>14. Outstanding # Heads => Cardinality(Outstanding) < QueueSize
  BY <1>10, <1>11, <1>13, Sizes
<1> QED
  BY <1>1, <1>2, <1>6, <1>9, <1>11, <1>12, <1>14

-----------------------------------------------------------------------------
(* The actions.                                                             *)

\* A step of the block store, or a step it does not see.
StoreStep == Store!StoreNext \/ UNCHANGED Store!storeVars

\* The parts of the type invariant the lemmas above use.
LEMMA Parts ==
  ASSUME BlkIInv
  PROVE RingTypes /\ FilesOK /\ InOneRing /\ Queued = Held(availRing, AvailPart)
  BY DEF BlkIInv, TypeOK, RingTypes, FilesOK, RingInv, Queued, Held, AvailPart

\* The guest sees the same disk when the files are the same.
LEMMA SameDisk ==
  ASSUME UNCHANGED fileVars
  PROVE UNCHANGED [s \in Sectors |-> ReadSector(s)]
  BY DEF fileVars, ReadSector

\* Steps that leave the rings alone.
LEMMA RingsKept ==
  ASSUME BlkIInv, UNCHANGED <<fileVars, lastAvail, availVars, usedVars, drvUsed>>,
         busy' = busy \/ (busy'.entry = FALSE /\ busy.entry = FALSE)
  PROVE InOneRing' /\ Answered' /\ UNCHANGED Store!storeVars /\ ImagePreserved'
<1>1. UNCHANGED <<AvailPart, UsedPart, Queued, Outstanding>>
  BY DEF availVars, usedVars, AvailPart, UsedPart, Span, Queued, Outstanding
<1>2. UNCHANGED <<availRing, usedRing, usedIdx, replies>>
  BY DEF availVars, usedVars
<1>3. busy'.entry = busy.entry
  OBVIOUS
<1>4. WrittenPart' = WrittenPart /\ Written' = Written
  BY <1>1, <1>2, <1>3 DEF WrittenPart, Written, Held
<1>5. InOneRing'
  BY <1>1, <1>2, <1>4 DEF BlkIInv, RingInv, InOneRing, Distinct
<1>6. Answered'
  BY <1>2, <1>4 DEF BlkIInv, RingInv, Answered
<1>7. UNCHANGED Store!storeVars
  BY SameDisk DEF Store!storeVars, availVars, usedVars
<1>8. ImagePreserved'
  BY DEF BlkIInv, ImagePreserved, fileVars
<1> QED
  BY <1>5, <1>6, <1>7, <1>8

\* The driver makes a request available.
LEMMA SubmitStep ==
  ASSUME BlkIInv, NEW h \in Heads, NEW r \in Requests, DriverSubmit(h, r)
  PROVE BlkIInv' /\ StoreStep
<1>1. /\ ready /\ chains[h] = None /\ chains' = [chains EXCEPT ![h] = r]
      /\ availRing' = [availRing EXCEPT ![availIdx % QueueSize] = h]
      /\ availIdx' = Succ(availIdx) /\ kick' = TRUE
      /\ UNCHANGED <<base, overlay, dirty, ready, lastAvail, busy, interruptStatus, irq,
                     usedRing, usedIdx, replies, drvUsed, handler>>
  BY DEF DriverSubmit, Succ, fileVars, queueVars, irqVars, usedVars
<1>2. RingTypes /\ InOneRing /\ Queued = Held(availRing, AvailPart)
  BY Parts
<1>3. h \notin Outstanding /\ Outstanding # Heads
  BY <1>1 DEF Outstanding
<1>4. Dist(lastAvail, availIdx) < QueueSize /\ AvailPart \subseteq Indices
  BY <1>2, <1>3, Lengths, Sizes DEF Entries
<1>5. /\ AvailPart' = AvailPart \cup {availIdx}
      /\ Dist(lastAvail, availIdx') = Dist(lastAvail, availIdx) + 1
      /\ Dist(lastAvail, availIdx) \in Nat
  <2>1. Dist(lastAvail, availIdx) \in Nat
    BY <1>2, Lengths
  <2>2. Dist(lastAvail, availIdx) + 1 < IndexMod
    BY <1>4, <2>1, Sizes
  <2> QED
    BY <1>1, <1>2, <2>1, <2>2, SpanAdd DEF AvailPart, RingTypes
<1>6. /\ availRing' \in [Heads -> Heads] /\ Distinct(availRing', AvailPart')
      /\ Queued' = Queued \cup {h}
  <2>1. FreeIn(AvailPart, availIdx)
    BY <1>2, <1>4, FreeSlot DEF AvailPart, RingTypes, FreeIn
  <2>2. Distinct(availRing, AvailPart) /\ h \notin Held(availRing, AvailPart)
    BY <1>2, <1>3 DEF InOneRing
  <2>3. /\ availRing' \in [Heads -> Heads] /\ Distinct(availRing', AvailPart \cup {availIdx})
        /\ Held(availRing', AvailPart \cup {availIdx}) = Held(availRing, AvailPart) \cup {h}
    <3>1. /\ availRing \in [Heads -> Heads] /\ AvailPart \in SUBSET Indices /\ availIdx \in Indices
          /\ Pushed(availRing', availRing, availIdx, h)
      BY <1>1, <1>2, <1>4 DEF RingTypes, Pushed
    <3>2. /\ availRing' \in [Heads -> Heads] /\ Distinct(availRing', AvailPart \cup {availIdx})
          /\ \A g : g \in Held(availRing', AvailPart \cup {availIdx}) <=> g \in Held(availRing, AvailPart) \/ g = h
      BY <2>1, <2>2, <3>1, RingPush
    <3> QED
      BY <3>2
  <2>4. Queued' = Held(availRing', AvailPart')
    BY DEF Queued, Held, AvailPart
  <2> QED
    BY <1>2, <1>5, <2>3, <2>4
<1>7. WrittenPart' = WrittenPart /\ Written' = Written
  BY <1>1 DEF WrittenPart, Written, Held, UsedPart, Span
<1>8. Outstanding' = Outstanding \cup {h}
  BY <1>1, RequestsAssumption DEF BlkIInv, TypeOK, Outstanding
<1>9. InOneRing'
  <2>1. Distinct(usedRing, WrittenPart)'
    BY <1>1, <1>2, <1>7 DEF InOneRing, Distinct
  <2>2. Queued' \cap Written' = {} /\ Queued' \cup Written' = Outstanding'
    BY <1>2, <1>3, <1>6, <1>7, <1>8 DEF InOneRing
  <2> QED
    BY <1>6, <2>1, <2>2 DEF InOneRing
<1>10. Answered' /\ EntryBusy'
  BY <1>1, <1>7 DEF BlkIInv, RingInv, Answered, EntryBusy
<1>11. UntilInside'
  <2>1. busy.on => Dist(lastAvail, busy.until) \in Nat
    BY DistIs DEF BlkIInv, TypeOK, Indices
  <2> QED
    BY <1>1, <1>5, <2>1 DEF BlkIInv, RingInv, UntilInside
<1>12. TypeOK'
  <2>1. availIdx' \in Indices
    BY <1>1, <1>2, SuccIs DEF RingTypes
  <2> QED
    BY <1>1, <1>6, <2>1 DEF BlkIInv, TypeOK
<1>13. ImagePreserved' /\ NoLostInterrupt'
  BY <1>1 DEF BlkIInv, ImagePreserved, NoLostInterrupt
<1>14. StoreStep
  <2>1. replies[h] = None
    BY <1>2, <1>3 DEF BlkIInv, RingInv, Answered, InOneRing
  <2>2. replies' = [replies EXCEPT ![h] = None]
    BY <1>1, <2>1 DEF BlkIInv, TypeOK
  <2>3. UNCHANGED [s \in Sectors |-> ReadSector(s)]
    BY <1>1, SameDisk DEF fileVars
  <2> QED
    BY <1>1, <2>2, <2>3 DEF StoreStep, Store!StoreNext, Store!Submit
<1> QED
  BY <1>9, <1>10, <1>11, <1>12, <1>13, <1>14 DEF BlkIInv, RingInv

\* The device answers the next request.
LEMMA ProcessStep ==
  ASSUME BlkIInv, ProcessRequest
  PROVE BlkIInv' /\ StoreStep
<1> DEFINE head == availRing[lastAvail % QueueSize]
           r == chains[head]
<1>1. /\ busy.on /\ ~busy.entry /\ lastAvail # busy.until
      /\ Handles(head, r) /\ usedRing' = [usedRing EXCEPT ![usedIdx % QueueSize] = head]
      /\ lastAvail' = Succ(lastAvail) /\ busy' = [busy EXCEPT !.entry = TRUE]
      /\ UNCHANGED <<ready, interruptStatus, irq, chains, availRing, availIdx, usedIdx,
                     drvUsed, kick, handler>>
  BY DEF ProcessRequest, Handles, Succ, irqVars, availVars, driverVars
<1>2. RingTypes /\ FilesOK /\ InOneRing /\ Queued = Held(availRing, AvailPart)
  BY Parts
<1>3. busy \in [on : BOOLEAN, until : Indices, entry : BOOLEAN]
  BY DEF BlkIInv, TypeOK
<1>4. busy'.on = busy.on /\ busy'.until = busy.until /\ busy'.entry = TRUE
      /\ busy' \in [on : BOOLEAN, until : Indices, entry : BOOLEAN]
  BY <1>1, <1>3
<1>5. lastAvail # availIdx
  <2>1. Dist(lastAvail, lastAvail) = 0
    BY <1>2, DistIs, Sizes DEF RingTypes, Indices
  <2>2. Dist(lastAvail, busy.until) = Dist(lastAvail, busy.until)' + 1 /\ Dist(lastAvail, busy.until)' \in Nat
    <3>1. Dist(Succ(lastAvail), busy.until) = Dist(lastAvail, busy.until) - 1
      BY <1>1, <1>2, <1>3, SpanDrop DEF RingTypes
    <3>2. Dist(lastAvail, busy.until) \in Int
      BY <1>2, <1>3, DistIs DEF RingTypes, Indices
    <3>3. Dist(Succ(lastAvail), busy.until) \in Nat
      BY <1>2, <1>3, SuccIs, DistIs DEF RingTypes, Indices
    <3>4. Dist(lastAvail, busy.until)' = Dist(Succ(lastAvail), busy.until)
      BY <1>1, <1>4 DEF Dist
    <3> QED
      BY <3>1, <3>2, <3>3, <3>4
  <2>3. Dist(lastAvail, busy.until) <= Dist(lastAvail, availIdx)
    BY <1>1 DEF BlkIInv, RingInv, UntilInside
  <2> QED
    BY <2>1, <2>2, <2>3
<1>6. /\ AvailPart' = AvailPart \ {lastAvail} /\ lastAvail \in AvailPart
      /\ Dist(lastAvail, availIdx)' = Dist(lastAvail, availIdx) - 1
  <2>1. /\ Span(Succ(lastAvail), availIdx) = Span(lastAvail, availIdx) \ {lastAvail}
        /\ lastAvail \in Span(lastAvail, availIdx)
        /\ Dist(Succ(lastAvail), availIdx) = Dist(lastAvail, availIdx) - 1
    BY <1>2, <1>5, SpanDrop DEF RingTypes
  <2> QED
    BY <1>1, <2>1 DEF AvailPart, Dist
<1>7. AvailPart \subseteq Indices /\ WrittenPart \subseteq Indices
  BY <1>2, Lengths
<1>8. /\ head \in Queued /\ head \in Heads /\ Distinct(availRing, AvailPart')
      /\ Queued' = Queued \ {head}
  <2>1. /\ head \in Held(availRing, AvailPart) /\ head \in Heads
        /\ Distinct(availRing, AvailPart \ {lastAvail})
        /\ Held(availRing, AvailPart \ {lastAvail}) = Held(availRing, AvailPart) \ {head}
    BY <1>2, <1>6, <1>7, RingDrop DEF RingTypes, InOneRing
  <2>2. Queued' = Held(availRing, AvailPart')
    BY <1>1 DEF Queued, Held, AvailPart
  <2> QED
    BY <1>2, <1>6, <2>1, <2>2
<1>9. head \notin Written /\ head \in Outstanding /\ WrittenPart = UsedPart
  BY <1>1, <1>2, <1>8 DEF InOneRing, WrittenPart
<1>10. Dist(drvUsed, usedIdx) < QueueSize
  <2> DEFINE p == Dist(lastAvail, availIdx)
             u == Dist(drvUsed, usedIdx)
             n == Cardinality(Outstanding)
  <2>1. p + u + Entries = n /\ n <= QueueSize /\ p \in Nat /\ u \in Nat /\ Entries = 0
    BY <1>1, <1>2, Lengths DEF Entries
  <2>2. Dist(lastAvail, availIdx)' \in Nat
    <3>1. Dist(Succ(lastAvail), availIdx) \in Nat
      BY <1>2, SuccIs, DistIs DEF RingTypes, Indices
    <3> QED
      BY <1>1, <3>1 DEF Dist
  <2>3. p - 1 \in Nat
    BY <1>6, <2>2
  <2> HIDE DEF p, u, n
  <2>4. u < QueueSize
    BY <2>1, <2>3, Sizes
  <2> QED
    BY <2>4 DEF u
<1>11. /\ WrittenPart' = WrittenPart \cup {usedIdx}
       /\ usedRing' \in [Heads -> Heads] /\ Distinct(usedRing', WrittenPart')
       /\ Written' = Written \cup {head}
  <2>1. FreeIn(WrittenPart, usedIdx)
    BY <1>2, <1>9, <1>10, FreeSlot DEF UsedPart, RingTypes, FreeIn
  <2>2. WrittenPart' = WrittenPart \cup {usedIdx}
    BY <1>1, <1>4, <1>9 DEF WrittenPart, UsedPart, Span
  <2>3. Distinct(usedRing, WrittenPart) /\ head \notin Held(usedRing, WrittenPart)
    BY <1>2, <1>9 DEF InOneRing, Written
  <2> HIDE DEF head
  <2>4. /\ usedRing' \in [Heads -> Heads] /\ Distinct(usedRing', WrittenPart \cup {usedIdx})
        /\ Held(usedRing', WrittenPart \cup {usedIdx}) = Held(usedRing, WrittenPart) \cup {head}
    <3>1. /\ usedRing \in [Heads -> Heads] /\ WrittenPart \in SUBSET Indices /\ usedIdx \in Indices
          /\ Pushed(usedRing', usedRing, usedIdx, head) /\ head \in Heads
      BY <1>1, <1>2, <1>7, <1>8 DEF RingTypes, Pushed
    <3>2. /\ usedRing' \in [Heads -> Heads] /\ Distinct(usedRing', WrittenPart \cup {usedIdx})
          /\ \A g : g \in Held(usedRing', WrittenPart \cup {usedIdx}) <=> g \in Held(usedRing, WrittenPart) \/ g = head
      BY <2>1, <2>3, <3>1, RingPush
    <3> QED
      BY <3>2
  <2>5. Written' = Held(usedRing', WrittenPart')
    BY DEF Written, Held
  <2> QED
    BY <2>2, <2>4, <2>5 DEF Written
<1>12. InOneRing'
  <2>1. Distinct(availRing, AvailPart)' /\ Distinct(usedRing, WrittenPart)'
    BY <1>1, <1>8, <1>11
  <2>2. Outstanding' = Outstanding
    BY <1>1 DEF Outstanding
  <2> HIDE DEF head
  <2>3. Queued' \cap Written' = {} /\ Queued' \cup Written' = Outstanding'
    BY <1>2, <1>8, <1>9, <1>11, <2>2 DEF InOneRing
  <2> QED
    BY <2>1, <2>3 DEF InOneRing
<1>13. r \in Requests /\ Pending(head, r)
  <2>1. replies[head] = None
    BY <1>8, <1>9 DEF BlkIInv, RingInv, Answered
  <2> QED
    BY <1>1, <1>8, <1>9, <2>1 DEF Pending, Outstanding, BlkIInv, TypeOK
<1>14. FilesOK' /\ Store!Serve(head) /\ \E a \in Replies : replies' = [replies EXCEPT ![head] = a]
  <2> HIDE DEF head, r
  <2> QED
    BY <1>1, <1>2, <1>8, <1>13, HandlesServes
<1>15. replies' \in [Heads -> Replies \cup {None}] /\ Answered'
  <2>1. PICK a \in Replies : replies' = [replies EXCEPT ![head] = a]
    BY <1>14
  <2>2. a # None
    BY RepliesAssumption
  <2> HIDE DEF head
  <2> QED
    BY <1>8, <1>11, <2>1, <2>2 DEF BlkIInv, TypeOK, RingInv, Answered
<1>16. EntryBusy'
  BY <1>1, <1>4 DEF EntryBusy
<1>17. UntilInside'
  <2>1. Dist(lastAvail, busy.until)' = Dist(lastAvail, busy.until) - 1
    <3>1. Dist(Succ(lastAvail), busy.until) = Dist(lastAvail, busy.until) - 1
      BY <1>1, <1>2, <1>3, SpanDrop DEF RingTypes
    <3> QED
      BY <1>1, <1>4, <3>1 DEF Dist
  <2>2. Dist(lastAvail, busy.until) \in Nat /\ Dist(lastAvail, availIdx) \in Nat
    BY <1>2, <1>3, DistIs DEF RingTypes, Indices
  <2>3. Dist(lastAvail, busy.until) <= Dist(lastAvail, availIdx)
    BY <1>1 DEF BlkIInv, RingInv, UntilInside
  <2>4. Dist(lastAvail, busy.until)' <= Dist(lastAvail, availIdx)'
    BY <1>6, <2>1, <2>2, <2>3
  <2> QED
    BY <2>4 DEF UntilInside
<1>18. TypeOK'
  <2>1. lastAvail' \in Indices
    BY <1>1, <1>2, SuccIs DEF RingTypes
  <2> QED
    BY <1>1, <1>4, <1>11, <1>14, <1>15, <2>1 DEF BlkIInv, TypeOK, FilesOK
<1>19. ImagePreserved' /\ NoLostInterrupt'
  BY <1>1, <1>4, <1>14 DEF FilesOK, NoLostInterrupt
<1>20. StoreStep
  BY <1>8, <1>14 DEF StoreStep, Store!StoreNext
<1> QED
  BY <1>12, <1>15, <1>16, <1>17, <1>18, <1>19, <1>20 DEF BlkIInv, RingInv

\* The device publishes the used entry it has written.
LEMMA PublishStep ==
  ASSUME BlkIInv, PublishUsed
  PROVE BlkIInv' /\ StoreStep
<1>1. /\ busy.on /\ busy.entry /\ usedIdx' = Succ(usedIdx) /\ busy' = [busy EXCEPT !.entry = FALSE]
      /\ UNCHANGED <<base, overlay, dirty, ready, lastAvail, interruptStatus, irq, chains,
                     availRing, availIdx, usedRing, replies, drvUsed, kick, handler>>
  BY DEF PublishUsed, Succ, fileVars, irqVars, availVars, driverVars
<1>2. RingTypes /\ InOneRing
  BY Parts
<1>3. /\ busy'.on /\ busy'.until = busy.until /\ ~busy'.entry
      /\ busy' \in [on : BOOLEAN, until : Indices, entry : BOOLEAN]
  BY <1>1 DEF BlkIInv, TypeOK
<1>4. UsedPart' = UsedPart \cup {usedIdx}
  <2> DEFINE p == Dist(lastAvail, availIdx)
             u == Dist(drvUsed, usedIdx)
             n == Cardinality(Outstanding)
  <2>1. p + u + Entries = n /\ n <= QueueSize /\ p \in Nat /\ u \in Nat /\ Entries = 1
    BY <1>1, <1>2, Lengths DEF Entries
  <2> HIDE DEF p, u, n
  <2>2. u + 1 < IndexMod
    BY <2>1, Sizes
  <2>3. Dist(drvUsed, usedIdx) + 1 < IndexMod
    BY <2>2 DEF u
  <2> QED
    BY <1>1, <1>2, <2>3, SpanAdd DEF UsedPart, RingTypes
<1>5. WrittenPart' = WrittenPart
  BY <1>1, <1>3, <1>4 DEF WrittenPart
<1>6. Written' = Written
  BY <1>1, <1>5 DEF Written, Held
<1>7. UNCHANGED <<AvailPart, Queued, Outstanding>>
  BY <1>1 DEF AvailPart, Span, Queued, Outstanding
<1>8. InOneRing'
  BY <1>1, <1>2, <1>5, <1>6, <1>7 DEF InOneRing, Distinct
<1>9. Answered' /\ EntryBusy' /\ UntilInside'
  BY <1>1, <1>3, <1>6 DEF BlkIInv, RingInv, Answered, EntryBusy, UntilInside, Dist
<1>10. TypeOK'
  <2>1. usedIdx' \in Indices
    BY <1>1, <1>2, SuccIs DEF RingTypes
  <2> QED
    BY <1>1, <1>3, <2>1 DEF BlkIInv, TypeOK
<1>11. ImagePreserved' /\ NoLostInterrupt'
  BY <1>1, <1>3 DEF BlkIInv, ImagePreserved, NoLostInterrupt
<1>12. StoreStep
  <2>1. UNCHANGED [s \in Sectors |-> ReadSector(s)]
    BY <1>1, SameDisk DEF fileVars
  <2> QED
    BY <1>1, <2>1 DEF StoreStep, Store!storeVars
<1> QED
  BY <1>8, <1>9, <1>10, <1>11, <1>12 DEF BlkIInv, RingInv

\* The driver collects a used entry.
LEMMA CollectStep ==
  ASSUME BlkIInv, DriverCollect
  PROVE BlkIInv' /\ StoreStep
<1> DEFINE head == usedRing[drvUsed % QueueSize]
<1>1. /\ handler = "acked" /\ drvUsed # usedIdx
      /\ chains' = [chains EXCEPT ![head] = None] /\ replies' = [replies EXCEPT ![head] = None]
      /\ drvUsed' = Succ(drvUsed)
      /\ UNCHANGED <<base, overlay, dirty, ready, lastAvail, busy, interruptStatus, irq,
                     availRing, availIdx, usedRing, usedIdx, kick, handler>>
  BY DEF DriverCollect, Succ, fileVars, queueVars, irqVars
<1>2. RingTypes /\ InOneRing /\ Queued = Held(availRing, AvailPart)
  BY Parts
<1>3. drvUsed \in WrittenPart /\ WrittenPart' = WrittenPart \ {drvUsed}
  <2>1. UsedPart' = UsedPart \ {drvUsed} /\ drvUsed \in UsedPart
    BY <1>1, <1>2, SpanDrop DEF UsedPart, RingTypes
  <2> QED
    BY <1>1, <2>1 DEF WrittenPart
<1>4. WrittenPart \subseteq Indices
  BY <1>2, Lengths
<1>5. /\ head \in Written /\ head \in Heads /\ Distinct(usedRing, WrittenPart')
      /\ Written' = Written \ {head}
  <2>1. /\ head \in Held(usedRing, WrittenPart) /\ head \in Heads
        /\ Distinct(usedRing, WrittenPart \ {drvUsed})
        /\ Held(usedRing, WrittenPart \ {drvUsed}) = Held(usedRing, WrittenPart) \ {head}
    BY <1>2, <1>3, <1>4, RingDrop DEF RingTypes, InOneRing
  <2>2. Written' = Held(usedRing, WrittenPart')
    BY <1>1 DEF Written, Held
  <2> QED
    BY <1>3, <2>1, <2>2 DEF Written
<1>6. UNCHANGED <<AvailPart, Queued>>
  BY <1>1 DEF AvailPart, Span, Queued
<1> HIDE DEF head
<1>7. Outstanding' = Outstanding \ {head}
  BY <1>1, <1>5 DEF BlkIInv, TypeOK, Outstanding
<1>8. InOneRing'
  <2>1. Distinct(availRing, AvailPart)' /\ Distinct(usedRing, WrittenPart)'
    BY <1>1, <1>2, <1>5, <1>6 DEF InOneRing, Distinct
  <2>2. Queued' \cap Written' = {} /\ Queued' \cup Written' = Outstanding'
    BY <1>2, <1>5, <1>6, <1>7 DEF InOneRing
  <2> QED
    BY <2>1, <2>2 DEF InOneRing
<1>9. Answered'
  BY <1>1, <1>5 DEF BlkIInv, TypeOK, RingInv, Answered
<1>10. EntryBusy' /\ UntilInside'
  BY <1>1 DEF BlkIInv, RingInv, EntryBusy, UntilInside, Dist
<1>11. TypeOK'
  <2>1. drvUsed' \in Indices
    BY <1>1, <1>2, SuccIs DEF RingTypes
  <2> QED
    BY <1>1, <1>5, <2>1 DEF BlkIInv, TypeOK
<1>12. ImagePreserved' /\ NoLostInterrupt'
  BY <1>1 DEF BlkIInv, ImagePreserved, NoLostInterrupt
<1>13. StoreStep
  <2>1. UNCHANGED [s \in Sectors |-> ReadSector(s)]
    BY <1>1, SameDisk DEF fileVars
  <2>2. replies[head] # None
    BY <1>5 DEF BlkIInv, RingInv, Answered
  <2> QED
    BY <1>1, <1>5, <2>1, <2>2 DEF StoreStep, Store!StoreNext, Store!Collect
<1> QED
  BY <1>8, <1>9, <1>10, <1>11, <1>12, <1>13 DEF BlkIInv, RingInv

EmptyQueue ==
  /\ lastAvail = 0 /\ availIdx = 0 /\ drvUsed = 0 /\ usedIdx = 0 /\ busy.entry = FALSE
  /\ chains = [h \in Heads |-> None] /\ replies = [h \in Heads |-> None]

\* Empty rings hold no request.
LEMMA EmptyRings == EmptyQueue => InOneRing /\ Answered
<1> SUFFICES ASSUME EmptyQueue PROVE InOneRing /\ Answered
  OBVIOUS
<1>1. 0 \in Indices
  BY Sizes DEF Indices
<1>2. Span(0, 0) = {}
  <2>1. Dist(0, 0) = 0
    BY <1>1, DistIs
  <2>2. \A i \in Indices : Dist(0, i) \in Nat
    BY <1>1, DistIs DEF Indices
  <2> QED
    BY <1>1, <2>1, <2>2, SpanIs
<1>3. AvailPart = {} /\ WrittenPart = {}
  BY <1>2 DEF EmptyQueue, AvailPart, WrittenPart, UsedPart
<1>4. Queued = {} /\ Written = {} /\ Outstanding = {}
  BY <1>3 DEF EmptyQueue, Queued, Written, Held, Outstanding, AvailPart
<1> QED
  BY <1>3, <1>4 DEF EmptyQueue, InOneRing, Answered, Distinct

\* The driver resets the device and starts over.
LEMMA ResetStep ==
  ASSUME BlkIInv, Reset
  PROVE BlkIInv' /\ StoreStep
<1>1. /\ ~busy.on /\ ready /\ handler = "idle" /\ ready' = FALSE /\ lastAvail' = 0
      /\ interruptStatus' = 0 /\ irq' = FALSE
      /\ chains' = [h \in Heads |-> None] /\ availRing' = [i \in Heads |-> 0] /\ availIdx' = 0
      /\ usedRing' = [i \in Heads |-> 0] /\ usedIdx' = 0 /\ replies' = [h \in Heads |-> None]
      /\ drvUsed' = 0 /\ kick' = FALSE /\ UNCHANGED <<base, overlay, dirty, busy, handler>>
  BY DEF Reset, fileVars
<1>2. busy.entry = FALSE
  BY <1>1 DEF BlkIInv, TypeOK, RingInv, EntryBusy
<1>3. InOneRing' /\ Answered'
  <2>1. EmptyQueue'
    BY <1>1, <1>2 DEF EmptyQueue
  <2> QED
    BY <2>1, EmptyRings, PTL
<1>4. EntryBusy' /\ UntilInside' /\ ImagePreserved' /\ NoLostInterrupt'
  BY <1>1 DEF BlkIInv, RingInv, EntryBusy, UntilInside, ImagePreserved, NoLostInterrupt
<1>5. TypeOK'
  <2>1. 0 \in Indices /\ 0 \in Heads
    BY Sizes DEF Indices, Heads
  <2> QED
    BY <1>1, <2>1 DEF BlkIInv, TypeOK
<1>6. StoreStep
  <2>1. UNCHANGED [s \in Sectors |-> ReadSector(s)]
    BY <1>1, SameDisk DEF fileVars
  <2> QED
    BY <1>1, <2>1 DEF StoreStep, Store!StoreNext, Store!Reset
<1> QED
  BY <1>3, <1>4, <1>5, <1>6 DEF BlkIInv, RingInv

\* The steps that leave files, rings and requests alone.
QuietStep ==
  \/ QueueNotify \/ FinishNotify \/ SetReady \/ DriverInterrupt \/ InterruptAck \/ DriverDone
  \/ UNCHANGED vars

\* The steps that move no request.
LEMMA QuietSteps ==
  ASSUME BlkIInv, QuietStep
  PROVE BlkIInv' /\ StoreStep
<1> USE DEF fileVars, queueVars, irqVars, availVars, usedVars, driverVars, vars
<1>1. UNCHANGED <<fileVars, lastAvail, availVars, usedVars, drvUsed>>
  BY DEF QuietStep, QueueNotify, FinishNotify, SetReady, DriverInterrupt, InterruptAck, DriverDone
<1>2. busy \in [on : BOOLEAN, until : Indices, entry : BOOLEAN] /\ (busy.entry => busy.on)
  BY DEF BlkIInv, TypeOK, RingInv, EntryBusy
<1>3. availIdx \in Indices /\ 0 \in Indices
  BY Sizes DEF BlkIInv, TypeOK, Indices
<1>4. \/ busy' = busy
      \/ /\ ~busy.entry
         /\ busy' = [on |-> TRUE, until |-> availIdx, entry |-> FALSE] \/ busy' = Idle
  BY <1>2 DEF QuietStep, QueueNotify, FinishNotify, SetReady, DriverInterrupt, InterruptAck, DriverDone
<1>5. /\ busy' = busy \/ (busy'.entry = FALSE /\ busy.entry = FALSE)
      /\ busy' \in [on : BOOLEAN, until : Indices, entry : BOOLEAN] /\ (busy'.entry => busy'.on)
      /\ busy' = busy \/ ~busy'.on \/ busy'.until = availIdx
  <2>1. CASE busy' = busy
    BY <1>2, <2>1
  <2>2. CASE ~busy.entry /\ busy' = [on |-> TRUE, until |-> availIdx, entry |-> FALSE]
    BY <1>2, <1>3, <2>2
  <2>3. CASE ~busy.entry /\ busy' = Idle
    BY <1>2, <1>3, <2>3 DEF Idle
  <2> QED
    BY <1>4, <2>1, <2>2, <2>3
<1>6. InOneRing' /\ Answered' /\ UNCHANGED Store!storeVars /\ ImagePreserved'
  BY <1>1, <1>5, RingsKept
<1>7. EntryBusy'
  BY <1>5 DEF EntryBusy
<1>8. UntilInside'
  <2>1. Dist(lastAvail, availIdx) <= Dist(lastAvail, availIdx)
    BY <1>3, DistIs DEF BlkIInv, TypeOK, Indices
  <2>2. Dist(lastAvail, availIdx)' = Dist(lastAvail, availIdx)
    BY <1>1 DEF Dist
  <2>3. CASE busy' = busy
    BY <1>1, <2>2, <2>3 DEF BlkIInv, RingInv, UntilInside, Dist
  <2>4. CASE busy' # busy
    <3>1. busy'.on => Dist(lastAvail, busy.until)' = Dist(lastAvail, availIdx)
      BY <1>1, <1>5, <2>4 DEF Dist
    <3> QED
      BY <2>1, <2>2, <3>1 DEF UntilInside
  <2> QED
    BY <2>3, <2>4
<1>9. /\ ready' \in BOOLEAN /\ interruptStatus' \in {0, 1} /\ irq' \in BOOLEAN /\ kick' \in BOOLEAN
      /\ handler' \in {"idle", "read", "acked"}
  BY DEF BlkIInv, TypeOK, QuietStep, QueueNotify, FinishNotify, SetReady, DriverInterrupt,
         InterruptAck, DriverDone
<1>10. TypeOK'
  BY <1>1, <1>5, <1>9 DEF BlkIInv, TypeOK
<1>11. NoLostInterrupt'
  BY <1>2 DEF BlkIInv, NoLostInterrupt, QuietStep, QueueNotify, FinishNotify, SetReady,
              DriverInterrupt, InterruptAck, DriverDone
<1> QED
  BY <1>6, <1>7, <1>8, <1>10, <1>11 DEF BlkIInv, RingInv, StoreStep

-----------------------------------------------------------------------------

\* The device starts in a state that satisfies it, which maps to a new store.
LEMMA BlkInit == ASSUME Init PROVE BlkIInv /\ Store!StoreInit
<1>1. 0 \in Indices /\ 0 \in Heads
  BY Sizes DEF Indices, Heads
<1>2. TypeOK
  BY <1>1, DiskAssumption DEF Init, TypeOK, Idle
<1>3. ImagePreserved /\ NoLostInterrupt /\ EntryBusy /\ UntilInside
  BY DEF Init, ImagePreserved, NoLostInterrupt, EntryBusy, UntilInside, Idle
<1>4. InOneRing /\ Answered
  BY EmptyRings DEF EmptyQueue, Init, Idle
<1>5. Store!StoreInit
  <2>1. [s \in Sectors |-> ReadSector(s)] = Image
    BY DiskAssumption DEF Init, ReadSector
  <2> QED
    BY <2>1 DEF Store!StoreInit, Init
<1> QED
  BY <1>2, <1>3, <1>4, <1>5 DEF BlkIInv, RingInv

\* Every step keeps it, and maps to a step of the store or to a stutter.
LEMMA BlkNext == ASSUME BlkIInv, [Next]_vars PROVE BlkIInv' /\ StoreStep
<1>1. ASSUME NEW h \in Heads, NEW r \in Requests, DriverSubmit(h, r) PROVE BlkIInv' /\ StoreStep
  BY <1>1, SubmitStep
<1>2. CASE ProcessRequest
  BY <1>2, ProcessStep
<1>3. CASE PublishUsed
  BY <1>3, PublishStep
<1>4. CASE DriverCollect
  BY <1>4, CollectStep
<1>5. CASE Reset
  BY <1>5, ResetStep
<1>6. CASE QuietStep
  BY <1>6, QuietSteps
<1> QED
  BY <1>1, <1>2, <1>3, <1>4, <1>5, <1>6 DEF Next, DeviceStep, HandlerStep, QuietStep

\* The strengthened invariant holds of every behaviour of the device.
LEMMA BlkInvariant == Spec => []BlkIInv
<1>1. Init => BlkIInv
  BY BlkInit
<1>2. BlkIInv /\ [Next]_vars => BlkIInv'
  BY BlkNext
<1> QED
  BY <1>1, <1>2, PTL DEF Spec

\* The request queue of the KVM block device is sound for every queue size and
\* wherever the indices wrap: handle_queue answers each request the driver has
\* outstanding once, an image behind an overlay or opened read-only is never
\* written, and no completion goes without its interrupt.
THEOREM BlkSafeHolds == Spec => []BlkSafe
<1>1. BlkIInv => BlkSafe
  <2> SUFFICES ASSUME BlkIInv PROVE BlkSafe
    OBVIOUS
  <2>1. RingTypes /\ InOneRing
    BY Parts
  <2>2. Used \cup InEntry = Written
    BY DEF Used, InEntry, Written, Held, WrittenPart, UsedPart
  <2>3. Queued \cup Used \cup InEntry = Outstanding
    BY <2>1, <2>2 DEF InOneRing
  <2>4. /\ Cardinality(Span(lastAvail, availIdx)) = Dist(lastAvail, availIdx)
        /\ Cardinality(Span(drvUsed, usedIdx)) = Dist(drvUsed, usedIdx)
        /\ Cardinality(InEntry) = Entries
        /\ Dist(lastAvail, availIdx) + Dist(drvUsed, usedIdx) + Entries = Cardinality(Outstanding)
    BY <2>1, Lengths DEF AvailPart, UsedPart
  <2>5. ExactlyOnce
    BY <2>3, <2>4 DEF ExactlyOnce
  <2> QED
    BY <2>5 DEF BlkSafe, BlkIInv
<1> QED
  BY <1>1, BlkInvariant, PTL

\* VirtioBlk, with its rings, its overlay and its dirty bitmap, implements the
\* block store: a read returns the last completed write of each sector, a write
\* changes its own sectors only, and every request is answered at most once.
THEOREM ImplementsStoreHolds == Spec => ImplementsStore
<1>1. Init => Store!StoreInit
  BY BlkInit
<1>2. BlkIInv /\ [Next]_vars => [Store!StoreNext]_(Store!storeVars)
  BY BlkNext DEF StoreStep
<1> QED
  BY <1>1, <1>2, BlkInvariant, PTL DEF Spec, ImplementsStore, Store!StoreSpec

-----------------------------------------------------------------------------
(* The registers: the program a driver's probe runs.                        *)

\* The queues a driver sets up, and the number of accesses it makes.
InUse(k) == IF k \in Nets THEN {0, 1} ELSE {0}
LastStep(k) == IF k \in Nets THEN 31 ELSE 22

\* What it writes before it touches a queue.
Opening ==
  <<Wr("Status", "", "reset"), Wr("Status", "", "acknowledge"), Wr("Status", "", "driver"),
    Wr("DeviceFeaturesSel", "", 1), Wr("ReadOffer", "hi", 0),
    Wr("DeviceFeaturesSel", "", 0), Wr("ReadOffer", "lo", 0),
    Wr("DriverFeaturesSel", "", 1), Wr("DriverFeatures", "hi", 0),
    Wr("DriverFeaturesSel", "", 0), Wr("DriverFeatures", "lo", 0),
    Wr("Status", "", "featuresOk")>>

\* Two pieces joined.
LEMMA JoinAt ==
  ASSUME NEW S, NEW x \in Seq(S), NEW y \in Seq(S)
  PROVE  /\ x \o y \in Seq(S) /\ Len(x \o y) = Len(x) + Len(y) /\ Len(x) \in Nat /\ Len(y) \in Nat
         /\ \A i \in 1..Len(x) : (x \o y)[i] = x[i]
         /\ \A i \in 1..Len(y) : (x \o y)[Len(x) + i] = y[i]
OBVIOUS

\* A literal sequence of twelve, and of nine, is one.
LEMMA Twelve ==
  ASSUME NEW S, NEW a \in S, NEW b \in S, NEW c \in S, NEW d \in S, NEW e \in S, NEW f \in S,
         NEW g \in S, NEW h \in S, NEW i \in S, NEW j \in S, NEW k \in S, NEW l \in S
  PROVE  /\ <<a, b, c, d, e, f, g, h, i, j, k, l>> \in Seq(S)
         /\ Len(<<a, b, c, d, e, f, g, h, i, j, k, l>>) = 12
OBVIOUS

LEMMA Nine ==
  ASSUME NEW S, NEW a \in S, NEW b \in S, NEW c \in S, NEW d \in S, NEW e \in S, NEW f \in S,
         NEW g \in S, NEW h \in S, NEW i \in S
  PROVE  /\ <<a, b, c, d, e, f, g, h, i>> \in Seq(S)
         /\ Len(<<a, b, c, d, e, f, g, h, i>>) = 9
OBVIOUS

\* The driver's program, step by step.
ProgramIs(k, n, g) ==
  /\ Len(Program(k, n, g)) = LastStep(k)
  /\ \A i \in 1..12 : Program(k, n, g)[i] = Opening[i]
  /\ \A i \in 1..9 : Program(k, n, g)[12 + i] = SetUp(0, n, g)[i]
  /\ k \in Nets => \A i \in 1..9 : Program(k, n, g)[21 + i] = SetUp(1, n, g)[i]
  /\ Program(k, n, g)[LastStep(k)] = Wr("Status", "", "driverOk")

\* It is what its pieces say.
LEMMA ProgramAt ==
  ASSUME NEW k \in Kinds, NEW n, NEW g
  PROVE  ProgramIs(k, n, g)
<1> DEFINE T == {Wr("Status", "", "reset"), Wr("Status", "", "acknowledge"), Wr("Status", "", "driver"),
                 Wr("DeviceFeaturesSel", "", 1), Wr("ReadOffer", "hi", 0),
                 Wr("DeviceFeaturesSel", "", 0), Wr("ReadOffer", "lo", 0),
                 Wr("DriverFeaturesSel", "", 1), Wr("DriverFeatures", "hi", 0),
                 Wr("DriverFeaturesSel", "", 0), Wr("DriverFeatures", "lo", 0),
                 Wr("Status", "", "featuresOk"), Wr("Status", "", "driverOk")}
           U(q) == {Wr("QueueSel", "", q), Wr("QueueNum", "", n),
                 Wr("desc", "lo", g), Wr("desc", "hi", g), Wr("driver", "lo", g), Wr("driver", "hi", g),
                 Wr("device", "lo", g), Wr("device", "hi", g), Wr("QueueReady", "", 1)}
           S == T \cup U(0) \cup U(1)
           A == Opening
           X == SetUp(0, n, g)
           Y == IF Len(Uses(k)) = 2 THEN SetUp(1, n, g) ELSE <<>>
           Z == <<Wr("Status", "", "driverOk")>>
<1>0. T \subseteq S /\ U(0) \subseteq S /\ U(1) \subseteq S
  OBVIOUS
<1>1. A \in Seq(S) /\ Len(A) = 12
  <2>1. /\ Wr("Status", "", "reset") \in T /\ Wr("Status", "", "acknowledge") \in T
        /\ Wr("Status", "", "driver") \in T /\ Wr("DeviceFeaturesSel", "", 1) \in T
        /\ Wr("ReadOffer", "hi", 0) \in T /\ Wr("DeviceFeaturesSel", "", 0) \in T
        /\ Wr("ReadOffer", "lo", 0) \in T /\ Wr("DriverFeaturesSel", "", 1) \in T
        /\ Wr("DriverFeatures", "hi", 0) \in T /\ Wr("DriverFeaturesSel", "", 0) \in T
        /\ Wr("DriverFeatures", "lo", 0) \in T /\ Wr("Status", "", "featuresOk") \in T
    OBVIOUS
  <2> HIDE DEF T
  <2>2. A \in Seq(T) /\ Len(A) = 12
    BY <2>1, Twelve DEF Opening
  <2> HIDE DEF S, A
  <2> QED BY <1>0, <2>2, SeqMonotonic
<1>2. ASSUME NEW q \in {0, 1} PROVE SetUp(q, n, g) \in Seq(S) /\ Len(SetUp(q, n, g)) = 9
  <2>1. /\ Wr("QueueSel", "", q) \in U(q) /\ Wr("QueueNum", "", n) \in U(q)
        /\ Wr("desc", "lo", g) \in U(q) /\ Wr("desc", "hi", g) \in U(q)
        /\ Wr("driver", "lo", g) \in U(q) /\ Wr("driver", "hi", g) \in U(q)
        /\ Wr("device", "lo", g) \in U(q) /\ Wr("device", "hi", g) \in U(q)
        /\ Wr("QueueReady", "", 1) \in U(q)
    OBVIOUS
  <2>0. U(q) \subseteq S
    BY <1>0
  <2> HIDE DEF U, S
  <2>2. SetUp(q, n, g) \in Seq(U(q)) /\ Len(SetUp(q, n, g)) = 9
    BY <2>1, Nine DEF SetUp
  <2> QED BY <2>0, <2>2, SeqMonotonic
<1>3. Y \in Seq(S) /\ Len(Y) = (IF k \in Nets THEN 9 ELSE 0) /\ (k \in Nets => Y = SetUp(1, n, g))
  <2>1. CASE k \in Nets
    <3>1. Len(Uses(k)) = 2
      BY <2>1 DEF Uses
    <3>2. Y = SetUp(1, n, g)
      BY <3>1
    <3> QED BY <1>2, <2>1, <3>2
  <2>2. CASE k \notin Nets
    <3>1. Len(Uses(k)) # 2
      BY <2>2 DEF Uses
    <3>2. Y = <<>>
      BY <3>1
    <3> HIDE DEF S, Y
    <3>3. <<>> \in Seq(S) /\ Len(<<>>) = 0
      OBVIOUS
    <3> QED BY <2>2, <3>2, <3>3
  <2> QED BY <2>1, <2>2
<1>4. Z \in Seq(S) /\ Len(Z) = 1 /\ Z[1] = Wr("Status", "", "driverOk")
  <2>1. Wr("Status", "", "driverOk") \in T
    OBVIOUS
  <2>2. Wr("Status", "", "driverOk") \in S
    BY <1>0, <2>1
  <2> HIDE DEF S, T
  <2> DEFINE w == Wr("Status", "", "driverOk")
  <2>3. w \in S
    BY <2>2
  <2> HIDE DEF w
  <2>4. <<w>> \in Seq(S) /\ Len(<<w>>) = 1 /\ <<w>>[1] = w
    BY <2>3
  <2> QED BY <2>4 DEF w
<1>5. Program(k, n, g) = ((A \o X) \o Y) \o Z
  BY DEF Program, Opening
<1>6. X \in Seq(S) /\ Len(X) = 9 /\ X = SetUp(0, n, g)
  BY <1>2
<1> HIDE DEF T, U, S, A, X, Y, Z
<1> DEFINE AX == A \o X
           AXY == AX \o Y
<1>7. /\ AX \in Seq(S) /\ Len(AX) = 21 /\ \A i \in 1..12 : AX[i] = A[i]
      /\ \A i \in 1..9 : AX[12 + i] = X[i]
  <2>1. /\ AX \in Seq(S) /\ Len(AX) = Len(A) + Len(X) /\ \A i \in 1..Len(A) : AX[i] = A[i]
        /\ \A i \in 1..Len(X) : AX[Len(A) + i] = X[i]
    <3>1. A \in Seq(S) /\ X \in Seq(S)
      BY <1>1, <1>6
    <3> QED BY <3>1, JoinAt
  <2> HIDE DEF AX
  <2>2. Len(A) = 12 /\ Len(X) = 9
    BY <1>1, <1>6
  <2> QED BY <2>1, <2>2
<1> HIDE DEF AX
<1>8. /\ AXY \in Seq(S) /\ Len(AXY) = (IF k \in Nets THEN 30 ELSE 21)
      /\ \A i \in 1..21 : AXY[i] = AX[i]
      /\ k \in Nets => \A i \in 1..9 : AXY[21 + i] = Y[i]
  <2>1. /\ AXY \in Seq(S) /\ Len(AXY) = Len(AX) + Len(Y) /\ \A i \in 1..Len(AX) : AXY[i] = AX[i]
        /\ \A i \in 1..Len(Y) : AXY[Len(AX) + i] = Y[i]
    <3>1. AX \in Seq(S) /\ Y \in Seq(S)
      BY <1>3, <1>7
    <3> QED BY <3>1, JoinAt
  <2> HIDE DEF AXY
  <2>2. Len(AX) = 21 /\ Len(Y) = (IF k \in Nets THEN 9 ELSE 0)
    BY <1>3, <1>7
  <2> QED BY <2>1, <2>2
<1> HIDE DEF AXY
<1> DEFINE P == AXY \o Z
<1>9. /\ Len(P) = LastStep(k) /\ \A i \in 1..Len(AXY) : P[i] = AXY[i]
      /\ P[Len(AXY) + 1] = Z[1]
  <2>1. /\ Len(P) = Len(AXY) + Len(Z) /\ \A i \in 1..Len(AXY) : P[i] = AXY[i]
        /\ \A i \in 1..Len(Z) : P[Len(AXY) + i] = Z[i]
    <3>1. AXY \in Seq(S) /\ Z \in Seq(S)
      BY <1>4, <1>8
    <3> QED BY <3>1, JoinAt
  <2> HIDE DEF P
  <2>2. Len(AXY) = (IF k \in Nets THEN 30 ELSE 21) /\ Len(Z) = 1
    BY <1>4, <1>8
  <2>3. Len(P) = LastStep(k)
    BY <2>1, <2>2 DEF LastStep
  <2>4. P[Len(AXY) + 1] = Z[1]
    BY <2>1, <2>2
  <2> QED BY <2>1, <2>3, <2>4
<1>10. Program(k, n, g) = P
  BY <1>5 DEF AXY, AX
<1> HIDE DEF P
<1>15. /\ Len(AXY) \in Nat /\ Len(AXY) >= 21 /\ (k \in Nets => Len(AXY) = 30)
       /\ LastStep(k) = Len(AXY) + 1
  <2>1. Len(AXY) = (IF k \in Nets THEN 30 ELSE 21)
    BY <1>8
  <2> QED BY <2>1 DEF LastStep
<1>11. \A i \in 1..12 : P[i] = A[i]
  <2> SUFFICES ASSUME NEW i \in 1..12 PROVE P[i] = A[i]
    OBVIOUS
  <2>1. i \in 1..21 /\ i \in 1..Len(AXY)
    BY <1>15
  <2>2. AX[i] = A[i] /\ AXY[i] = AX[i]
    BY <1>7, <1>8, <2>1
  <2> QED BY <1>9, <2>1, <2>2
<1>12. \A i \in 1..9 : P[12 + i] = X[i]
  <2> SUFFICES ASSUME NEW i \in 1..9 PROVE P[12 + i] = X[i]
    OBVIOUS
  <2>1. 12 + i \in 1..21 /\ 12 + i \in 1..Len(AXY)
    BY <1>15
  <2>2. AX[12 + i] = X[i] /\ AXY[12 + i] = AX[12 + i]
    BY <1>7, <1>8, <2>1
  <2> QED BY <1>9, <2>1, <2>2
<1>13. ASSUME k \in Nets PROVE \A i \in 1..9 : P[21 + i] = Y[i]
  <2> SUFFICES ASSUME NEW i \in 1..9 PROVE P[21 + i] = Y[i]
    OBVIOUS
  <2>1. 21 + i \in 1..Len(AXY)
    <3>1. Len(AXY) = 30
      BY <1>15, <1>13
    <3> QED BY <3>1
  <2>2. AXY[21 + i] = Y[i]
    BY <1>8, <1>13
  <2> QED BY <1>9, <2>1, <2>2
<1>14. P[LastStep(k)] = Wr("Status", "", "driverOk")
  BY <1>4, <1>9, <1>15
<1> QED BY <1>3, <1>6, <1>9, <1>10, <1>11, <1>12, <1>13, <1>14 DEF A, ProgramIs

-----------------------------------------------------------------------------
Halves == [lo : Nat, hi : Nat]
Queues == [size : Nat, ready : BOOLEAN, last : Nat, desc : Halves, driver : Halves, device : Halves]
Bits == {"acknowledge", "driver", "featuresOk", "driverOk", "needsReset"}
Devs(k) ==
  [kind : {k}, status : SUBSET Bits, drv : Halves, dsel : Nat, fsel : Nat, qsel : Slots(k),
   isr : BOOLEAN, line : BOOLEAN, queues : [Slots(k) -> Queues]]
VRings == [avail : Nat, used : Nat, seen : Nat]
Drivers == [size : Nat, gen : Nat, pc : Nat, offer : Halves, isr : {"idle", "read", "acked"},
            submits : Nat, quiet : BOOLEAN]

GoodSize(k, n) == k \in {"hvfBlk", "hvfNet"} => IsPowerOfTwo(n)

\* What the probe has written of queue q before its step p.
QueueIs(Q, k, q, m) ==
  LET b == 13 + 9 * q
      Wrote(i, v, old) == IF q \in InUse(k) /\ m.pc > b + i THEN v ELSE old
  IN  /\ Q.size = Wrote(1, m.size, NumMax(k))
      /\ Q.desc.lo = Wrote(2, m.gen, 0) /\ Q.desc.hi = Wrote(3, m.gen, 0)
      /\ Q.driver.lo = Wrote(4, m.gen, 0) /\ Q.driver.hi = Wrote(5, m.gen, 0)
      /\ Q.device.lo = Wrote(6, m.gen, 0) /\ Q.device.hi = Wrote(7, m.gen, 0)
      /\ Q.ready = (q \in InUse(k) /\ m.pc > b + 8 /\ GoodSize(k, m.size))

\* What it has written of the other registers.
StatusIs(k, m) ==
  (IF m.pc > 2 THEN {"acknowledge"} ELSE {}) \cup (IF m.pc > 3 THEN {"driver"} ELSE {})
  \cup (IF m.pc > 12 THEN {"featuresOk"} ELSE {}) \cup (IF m.pc > LastStep(k) THEN {"driverOk"} ELSE {})
  \cup (IF m.pc > 21 /\ ~GoodSize(k, m.size) THEN {"needsReset"} ELSE {})
Registers(d, m) ==
  /\ d.status = StatusIs(d.kind, m)
  /\ d.dsel = IF m.pc \in 5..6 THEN 1 ELSE 0
  /\ d.fsel = IF m.pc \in 9..10 THEN 1 ELSE 0
  /\ d.qsel = IF m.pc > 22 /\ d.kind \in Nets THEN 1 ELSE 0
  /\ m.pc > 5 => m.offer.hi = 1
  /\ d.drv.hi = IF m.pc > 9 THEN 1 ELSE 0
  /\ d.drv.lo = IF m.pc > 11 THEN m.offer.lo ELSE 0
Settings(d, m) == Registers(d, m) /\ \A q \in Slots(d.kind) : QueueIs(d.queues[q], d.kind, q, m)

MmioTypes ==
  /\ dev.kind \in Kinds /\ dev \in Devs(dev.kind)
  /\ vring \in [Slots(dev.kind) -> VRings] /\ mdrv \in Drivers
  /\ mdrv.gen > 0 => mdrv.pc \in 1..LastStep(dev.kind) + 1 /\ mdrv.size \in 1..NumMax(dev.kind)

\* Positions agree at all times, not only while a driver runs,
Positioned ==
  \A q \in Slots(dev.kind) : /\ dev.queues[q].last = vring[q].used /\ vring[q].used <= vring[q].avail
                             /\ q \notin InUse(dev.kind) => vring[q].avail = 0

\* the rings are new while a driver sets up,
Blank == mdrv.gen > 0 /\ mdrv.pc \in 2..LastStep(dev.kind) => vring = [q \in Slots(dev.kind) |-> NewRing]

\* and a completion that was not collected left the status bit set until the
\* handler reads it, and the line up until it starts.
Unseen == \E q \in Slots(dev.kind) : vring[q].seen # vring[q].used
Raising ==
  /\ mdrv.isr # "idle" => Running
  /\ Running /\ ~mdrv.quiet /\ Unseen =>
       /\ mdrv.isr = "idle" => dev.line
       /\ mdrv.isr # "acked" => dev.isr

RegInv ==
  /\ MmioTypes /\ Positioned /\ Blank /\ Raising
  /\ mdrv.gen > 0 /\ mdrv.pc > 1 => Settings(dev, mdrv)

\* A driver runs once it is past its last step.
LEMMA RunningIs == ASSUME MmioTypes PROVE Running <=> mdrv.gen > 0 /\ mdrv.pc > LastStep(dev.kind)
<1>1. dev.kind \in Kinds
  BY DEF MmioTypes
<1>2. PICK k, n, g : k \in Kinds /\ k = dev.kind /\ n = mdrv.size /\ g = mdrv.gen
  BY <1>1
<1>a. k \in Kinds
  BY <1>2
<1>b. ProgramIs(k, n, g)
  BY <1>a, ProgramAt
<1>3. Len(Program(k, n, g)) = LastStep(k)
  BY <1>b DEF ProgramIs
<1> QED BY <1>2, <1>3 DEF Running

\* The same after a step.
LEMMA RunningIsNext == ASSUME MmioTypes' PROVE Running' <=> mdrv'.gen > 0 /\ mdrv'.pc > LastStep(dev'.kind)
<1>1. dev'.kind \in Kinds
  BY DEF MmioTypes
<1>2. PICK k, n, g : k \in Kinds /\ k = dev'.kind /\ n = mdrv'.size /\ g = mdrv'.gen
  BY <1>1
<1>a. k \in Kinds
  BY <1>2
<1>b. ProgramIs(k, n, g)
  BY <1>a, ProgramAt
<1>3. Len(Program(k, n, g)) = LastStep(k)
  BY <1>b DEF ProgramIs
<1> QED BY <1>2, <1>3 DEF Running

\* A device after its reset has registers of their types.
LEMMA FreshType ==
  ASSUME MmioAssumption, NEW k \in Kinds
  PROVE  Fresh(k) \in Devs(k) /\ NumMax(k) \in Nat \ {0} /\ 0 \in Slots(k) /\ NewQueue(k) \in Queues
<1>1. NumMax(k) \in Nat \ {0}
  BY DEF NumMax, MmioAssumption
<1>2. 0 \in Slots(k)
  BY DEF Slots, Kinds, Nets
<1>3. Zero \in Halves
  BY DEF Zero, Halves
<1>4. NewQueue(k) \in Queues
  BY <1>1, <1>3 DEF NewQueue, Queues
<1>5. [q \in Slots(k) |-> NewQueue(k)] \in [Slots(k) -> Queues]
  BY <1>4
<1> QED BY <1>1, <1>2, <1>3, <1>4, <1>5 DEF Fresh, Devs

\* The devices start in a state the invariant describes.
LEMMA RegInitInv == ASSUME MmioAssumption, MmioInit PROVE RegInv
<1>1. PICK k \in Kinds :
        /\ dev = Fresh(k)
        /\ vring = [q \in Slots(k) |-> NewRing]
        /\ mdrv = [size |-> 0, gen |-> 0, pc |-> 0, offer |-> Zero, isr |-> "idle", submits |-> 0, quiet |-> FALSE]
  BY DEF MmioInit
<1>2. dev.kind = k /\ dev.queues = [q \in Slots(k) |-> NewQueue(k)]
  BY <1>1 DEF Fresh
<1>3. NewRing \in VRings /\ NewRing.avail = 0 /\ NewRing.used = 0
  BY DEF NewRing, VRings
<1>4. Zero \in Halves
  BY DEF Zero, Halves
<1>5. mdrv \in Drivers /\ mdrv.gen = 0 /\ mdrv.isr = "idle"
  BY <1>1, <1>4 DEF Drivers
<1>6. MmioTypes
  BY <1>1, <1>2, <1>3, <1>5, FreshType DEF MmioTypes
<1>7. Positioned
  BY <1>1, <1>2, <1>3 DEF Positioned, NewQueue
<1>8. Blank /\ Raising
  BY <1>5, <1>6, RunningIs DEF Blank, Raising
<1> QED BY <1>5, <1>6, <1>7, <1>8 DEF RegInv

-----------------------------------------------------------------------------
\* What a register access of the driver's program does.
CommonRegs == {"DeviceFeaturesSel", "DriverFeaturesSel", "DriverFeatures", "Status"} \cup Rings

\* The backends treat the registers of the first negotiation and of the rings alike.
LEMMA CommonWrite ==
  ASSUME NEW d, d.kind \in Kinds, NEW reg \in CommonRegs, NEW half, NEW v, ~Resets(reg, v)
  PROVE  MmioWriteReg(d, reg, half, v) = Common(d, reg, half, v)
<1>1. reg \notin {"QueueSel", "QueueNum", "QueueReady", "QueueNotify", "InterruptAck"}
  BY DEF CommonRegs, Rings
<1> HIDE DEF Resets
<1>2. CASE d.kind = "kvmBlk"
  BY <1>1, <1>2 DEF MmioWriteReg, kvm_blk_write_reg
<1>3. CASE d.kind = "hvfBlk"
  BY <1>1, <1>3 DEF MmioWriteReg, hvf_blk_write_reg
<1>4. CASE d.kind = "whpBlk"
  BY <1>1, <1>4 DEF MmioWriteReg, whp_blk_write_reg
<1>5. CASE d.kind = "rng"
  BY <1>1, <1>5 DEF MmioWriteReg, rng_write_reg
<1>6. CASE d.kind = "kvmNet"
  BY <1>1, <1>6 DEF MmioWriteReg, kvm_net_write_reg
<1>7. CASE d.kind = "hvfNet"
  BY <1>1, <1>7 DEF MmioWriteReg, hvf_net_write_reg
<1> QED BY <1>2, <1>3, <1>4, <1>5, <1>6, <1>7 DEF Kinds, Nets

\* The queue registers of a selected queue, in each backend.
LEMMA QueueWrites ==
  ASSUME NEW d, d.kind \in Kinds, d.qsel \in InUse(d.kind)
  PROVE  /\ \A q \in InUse(d.kind) : MmioWriteReg(d, "QueueSel", "", q) = [d EXCEPT !.qsel = q]
         /\ \A n \in 1..NumMax(d.kind) :
              MmioWriteReg(d, "QueueNum", "", n) = [d EXCEPT !.queues[d.qsel].size = n]
         /\ MmioWriteReg(d, "QueueReady", "", 1) =
              IF d.kind \in {"hvfBlk", "hvfNet"} THEN ReadyIfValid(d, 1) ELSE Ready(d, 1)
<1>0. InUse(d.kind) \subseteq Slots(d.kind) /\ (d.kind = "rng" => d.qsel = 0)
  BY DEF InUse, Slots, Kinds, Nets
<1>8. \A v : ~Resets("QueueSel", v) /\ ~Resets("QueueNum", v) /\ ~Resets("QueueReady", v)
  BY DEF Resets
<1>1. ASSUME d.kind = "kvmBlk"
      PROVE  /\ \A q \in InUse(d.kind) : MmioWriteReg(d, "QueueSel", "", q) = [d EXCEPT !.qsel = q]
             /\ \A n \in 1..NumMax(d.kind) : MmioWriteReg(d, "QueueNum", "", n) = Size(d, n)
             /\ MmioWriteReg(d, "QueueReady", "", 1) = Ready(d, 1)
  <2>2. ASSUME NEW q \in InUse(d.kind) PROVE MmioWriteReg(d, "QueueSel", "", q) = [d EXCEPT !.qsel = q]
    <3>1. MmioWriteReg(d, "QueueSel", "", q) = kvm_blk_write_reg(d, "QueueSel", "", q)
      BY <1>1 DEF MmioWriteReg
    <3> QED BY <1>0, <1>8, <3>1 DEF kvm_blk_write_reg, Select
  <2>3. ASSUME NEW n \in 1..NumMax(d.kind) PROVE MmioWriteReg(d, "QueueNum", "", n) = Size(d, n)
    <3>1. MmioWriteReg(d, "QueueNum", "", n) = kvm_blk_write_reg(d, "QueueNum", "", n)
      BY <1>1 DEF MmioWriteReg
    <3> QED BY <1>0, <1>8, <1>1, <3>1 DEF kvm_blk_write_reg
  <2>4. MmioWriteReg(d, "QueueReady", "", 1) = Ready(d, 1)
    <3>1. MmioWriteReg(d, "QueueReady", "", 1) = kvm_blk_write_reg(d, "QueueReady", "", 1)
      BY <1>1 DEF MmioWriteReg
    <3> QED BY <1>0, <1>8, <1>1, <3>1 DEF kvm_blk_write_reg
  <2> QED BY <2>2, <2>3, <2>4
<1>2. ASSUME d.kind = "hvfBlk"
      PROVE  /\ \A q \in InUse(d.kind) : MmioWriteReg(d, "QueueSel", "", q) = [d EXCEPT !.qsel = q]
             /\ \A n \in 1..NumMax(d.kind) : MmioWriteReg(d, "QueueNum", "", n) = Size(d, n)
             /\ MmioWriteReg(d, "QueueReady", "", 1) = ReadyIfValid(d, 1)
  <2>2. ASSUME NEW q \in InUse(d.kind) PROVE MmioWriteReg(d, "QueueSel", "", q) = [d EXCEPT !.qsel = q]
    <3>1. MmioWriteReg(d, "QueueSel", "", q) = hvf_blk_write_reg(d, "QueueSel", "", q)
      BY <1>2 DEF MmioWriteReg
    <3> QED BY <1>0, <1>8, <3>1 DEF hvf_blk_write_reg, Select
  <2>3. ASSUME NEW n \in 1..NumMax(d.kind) PROVE MmioWriteReg(d, "QueueNum", "", n) = Size(d, n)
    <3>1. MmioWriteReg(d, "QueueNum", "", n) = hvf_blk_write_reg(d, "QueueNum", "", n)
      BY <1>2 DEF MmioWriteReg
    <3> QED BY <1>0, <1>8, <1>2, <3>1 DEF hvf_blk_write_reg
  <2>4. MmioWriteReg(d, "QueueReady", "", 1) = ReadyIfValid(d, 1)
    <3>1. MmioWriteReg(d, "QueueReady", "", 1) = hvf_blk_write_reg(d, "QueueReady", "", 1)
      BY <1>2 DEF MmioWriteReg
    <3> QED BY <1>0, <1>8, <1>2, <3>1 DEF hvf_blk_write_reg
  <2> QED BY <2>2, <2>3, <2>4
<1>3. ASSUME d.kind = "whpBlk"
      PROVE  /\ \A q \in InUse(d.kind) : MmioWriteReg(d, "QueueSel", "", q) = [d EXCEPT !.qsel = q]
             /\ \A n \in 1..NumMax(d.kind) : MmioWriteReg(d, "QueueNum", "", n) = Size(d, n)
             /\ MmioWriteReg(d, "QueueReady", "", 1) = Ready(d, 1)
  <2>2. ASSUME NEW q \in InUse(d.kind) PROVE MmioWriteReg(d, "QueueSel", "", q) = [d EXCEPT !.qsel = q]
    <3>1. MmioWriteReg(d, "QueueSel", "", q) = whp_blk_write_reg(d, "QueueSel", "", q)
      BY <1>3 DEF MmioWriteReg
    <3> QED BY <1>0, <1>8, <3>1 DEF whp_blk_write_reg, Select
  <2>3. ASSUME NEW n \in 1..NumMax(d.kind) PROVE MmioWriteReg(d, "QueueNum", "", n) = Size(d, n)
    <3>1. MmioWriteReg(d, "QueueNum", "", n) = whp_blk_write_reg(d, "QueueNum", "", n)
      BY <1>3 DEF MmioWriteReg
    <3> QED BY <1>0, <1>8, <1>3, <3>1 DEF whp_blk_write_reg
  <2>4. MmioWriteReg(d, "QueueReady", "", 1) = Ready(d, 1)
    <3>1. MmioWriteReg(d, "QueueReady", "", 1) = whp_blk_write_reg(d, "QueueReady", "", 1)
      BY <1>3 DEF MmioWriteReg
    <3> QED BY <1>0, <1>8, <1>3, <3>1 DEF whp_blk_write_reg
  <2> QED BY <2>2, <2>3, <2>4
<1>4. ASSUME d.kind = "rng"
      PROVE  /\ \A q \in InUse(d.kind) : MmioWriteReg(d, "QueueSel", "", q) = [d EXCEPT !.qsel = q]
             /\ \A n \in 1..NumMax(d.kind) : MmioWriteReg(d, "QueueNum", "", n) = Size(d, n)
             /\ MmioWriteReg(d, "QueueReady", "", 1) = Ready(d, 1)
  <2>2. ASSUME NEW q \in InUse(d.kind) PROVE MmioWriteReg(d, "QueueSel", "", q) = [d EXCEPT !.qsel = q]
    <3>1. MmioWriteReg(d, "QueueSel", "", q) = rng_write_reg(d, "QueueSel", "", q)
      BY <1>4 DEF MmioWriteReg
    <3> QED BY <1>0, <1>8, <3>1 DEF rng_write_reg, Select
  <2>3. ASSUME NEW n \in 1..NumMax(d.kind) PROVE MmioWriteReg(d, "QueueNum", "", n) = Size(d, n)
    <3>1. MmioWriteReg(d, "QueueNum", "", n) = rng_write_reg(d, "QueueNum", "", n)
      BY <1>4 DEF MmioWriteReg
    <3> QED BY <1>0, <1>8, <1>4, <3>1 DEF rng_write_reg
  <2>4. MmioWriteReg(d, "QueueReady", "", 1) = Ready(d, 1)
    <3>1. MmioWriteReg(d, "QueueReady", "", 1) = rng_write_reg(d, "QueueReady", "", 1)
      BY <1>4 DEF MmioWriteReg
    <3> QED BY <1>0, <1>8, <1>4, <3>1 DEF rng_write_reg
  <2> QED BY <2>2, <2>3, <2>4
<1>5. ASSUME d.kind = "kvmNet"
      PROVE  /\ \A q \in InUse(d.kind) : MmioWriteReg(d, "QueueSel", "", q) = [d EXCEPT !.qsel = q]
             /\ \A n \in 1..NumMax(d.kind) : MmioWriteReg(d, "QueueNum", "", n) = Size(d, n)
             /\ MmioWriteReg(d, "QueueReady", "", 1) = Ready(d, 1)
  <2>2. ASSUME NEW q \in InUse(d.kind) PROVE MmioWriteReg(d, "QueueSel", "", q) = [d EXCEPT !.qsel = q]
    <3>1. MmioWriteReg(d, "QueueSel", "", q) = kvm_net_write_reg(d, "QueueSel", "", q)
      BY <1>5 DEF MmioWriteReg
    <3> QED BY <1>0, <1>8, <3>1 DEF kvm_net_write_reg, Select
  <2>3. ASSUME NEW n \in 1..NumMax(d.kind) PROVE MmioWriteReg(d, "QueueNum", "", n) = Size(d, n)
    <3>1. MmioWriteReg(d, "QueueNum", "", n) = kvm_net_write_reg(d, "QueueNum", "", n)
      BY <1>5 DEF MmioWriteReg
    <3> QED BY <1>0, <1>8, <1>5, <3>1 DEF kvm_net_write_reg
  <2>4. MmioWriteReg(d, "QueueReady", "", 1) = Ready(d, 1)
    <3>1. MmioWriteReg(d, "QueueReady", "", 1) = kvm_net_write_reg(d, "QueueReady", "", 1)
      BY <1>5 DEF MmioWriteReg
    <3> QED BY <1>0, <1>8, <1>5, <3>1 DEF kvm_net_write_reg
  <2> QED BY <2>2, <2>3, <2>4
<1>6. ASSUME d.kind = "hvfNet"
      PROVE  /\ \A q \in InUse(d.kind) : MmioWriteReg(d, "QueueSel", "", q) = [d EXCEPT !.qsel = q]
             /\ \A n \in 1..NumMax(d.kind) : MmioWriteReg(d, "QueueNum", "", n) = Size(d, n)
             /\ MmioWriteReg(d, "QueueReady", "", 1) = ReadyIfValid(d, 1)
  <2>2. ASSUME NEW q \in InUse(d.kind) PROVE MmioWriteReg(d, "QueueSel", "", q) = [d EXCEPT !.qsel = q]
    <3>1. MmioWriteReg(d, "QueueSel", "", q) = hvf_net_write_reg(d, "QueueSel", "", q)
      BY <1>6 DEF MmioWriteReg
    <3> QED BY <1>0, <1>8, <3>1 DEF hvf_net_write_reg, Select
  <2>3. ASSUME NEW n \in 1..NumMax(d.kind) PROVE MmioWriteReg(d, "QueueNum", "", n) = Size(d, n)
    <3>1. MmioWriteReg(d, "QueueNum", "", n) = hvf_net_write_reg(d, "QueueNum", "", n)
      BY <1>6 DEF MmioWriteReg
    <3> QED BY <1>0, <1>8, <1>6, <3>1 DEF hvf_net_write_reg
  <2>4. MmioWriteReg(d, "QueueReady", "", 1) = ReadyIfValid(d, 1)
    <3>1. MmioWriteReg(d, "QueueReady", "", 1) = hvf_net_write_reg(d, "QueueReady", "", 1)
      BY <1>6 DEF MmioWriteReg
    <3> QED BY <1>0, <1>8, <1>6, <3>1 DEF hvf_net_write_reg
  <2> QED BY <2>2, <2>3, <2>4
<1>7. \A n \in 1..NumMax(d.kind) : Size(d, n) = [d EXCEPT !.queues[d.qsel].size = n]
  BY DEF Size
<1> QED BY <1>1, <1>2, <1>3, <1>4, <1>5, <1>6, <1>7 DEF Kinds, Nets

Latched == {"whpBlk", "rng"}

\* Writing 0 to Status makes a new device, but for a latched interrupt line.
LEMMA ResetWrite ==
  ASSUME NEW d, d.kind \in Kinds
  PROVE  MmioWriteReg(d, "Status", "", {}) =
           IF d.kind \in Latched THEN [Fresh(d.kind) EXCEPT !.line = d.line] ELSE Fresh(d.kind)
<1>0. Resets("Status", {})
  BY DEF Resets
<1>1. CASE d.kind = "kvmBlk"
  BY <1>0, <1>1 DEF MmioWriteReg, kvm_blk_write_reg, kvm_reset, Latched
<1>2. CASE d.kind = "hvfBlk"
  BY <1>0, <1>2 DEF MmioWriteReg, hvf_blk_write_reg, hvf_reset, Latched
<1>3. CASE d.kind = "whpBlk"
  BY <1>0, <1>3 DEF MmioWriteReg, whp_blk_write_reg, whp_reset, Latched
<1>4. CASE d.kind = "rng"
  BY <1>0, <1>4 DEF MmioWriteReg, rng_write_reg, rng_reset, Latched
<1>5. CASE d.kind = "kvmNet"
  BY <1>0, <1>5 DEF MmioWriteReg, kvm_net_write_reg, kvm_net_reset, Latched
<1>6. CASE d.kind = "hvfNet"
  BY <1>0, <1>6 DEF MmioWriteReg, hvf_net_write_reg, hvf_net_reset, Latched
<1> QED BY <1>1, <1>2, <1>3, <1>4, <1>5, <1>6 DEF Kinds, Nets

\* One step w of the program.
ValueOf(w) == CASE w[1] = "Status" -> IF w[3] = "reset" THEN {} ELSE dev.status \cup {w[3]}
                [] w[1] = "DriverFeatures" -> mdrv.offer[w[2]]
                [] OTHER -> w[3]
Performs(w) ==
  IF w[1] = "ReadOffer"
  THEN /\ mdrv' = [mdrv EXCEPT !.pc = @ + 1, !.offer[w[2]] = DeviceFeatures(dev)]
       /\ UNCHANGED <<dev, vring>>
  ELSE /\ mdrv' = [mdrv EXCEPT !.pc = @ + 1]
       /\ dev' = MmioWriteReg(dev, w[1], w[2], ValueOf(w))
       /\ vring' = IF Resets(w[1], ValueOf(w)) THEN [q \in DOMAIN vring |-> NewRing] ELSE vring

\* A step of the probe performs the access its program counter stands at.
LEMMA StepPerforms ==
  ASSUME MmioTypes, ProbeStep
  PROVE  /\ mdrv.gen > 0 /\ mdrv.pc \in 1..LastStep(dev.kind)
         /\ Performs(Program(dev.kind, mdrv.size, mdrv.gen)[mdrv.pc])
<1>1. mdrv.gen > 0 /\ ~Running
  BY DEF ProbeStep
<1>2. mdrv.pc \in 1..LastStep(dev.kind)
  BY <1>1, RunningIs DEF MmioTypes, LastStep
<1>3. Performs(Program(dev.kind, mdrv.size, mdrv.gen)[mdrv.pc])
  BY DEF ProbeStep, Performs, ValueOf
<1> QED BY <1>1, <1>2, <1>3

\* Everything but the reset leaves the rings, and moves to the next step.
LEMMA StepEffects ==
  ASSUME MmioTypes
  PROVE  /\ Performs(Wr("Status", "", "reset")) =>
              /\ mdrv' = [mdrv EXCEPT !.pc = mdrv.pc + 1]
              /\ dev' = IF dev.kind \in Latched THEN [Fresh(dev.kind) EXCEPT !.line = dev.line] ELSE Fresh(dev.kind)
              /\ vring' = [q \in Slots(dev.kind) |-> NewRing]
         /\ \A x \in Bits : Performs(Wr("Status", "", x)) =>
              /\ mdrv' = [mdrv EXCEPT !.pc = mdrv.pc + 1] /\ vring' = vring
              /\ dev' = [dev EXCEPT !.status = dev.status \cup {x}]
         /\ \A x \in {0, 1} : Performs(Wr("DeviceFeaturesSel", "", x)) =>
              /\ mdrv' = [mdrv EXCEPT !.pc = mdrv.pc + 1] /\ vring' = vring
              /\ dev' = [dev EXCEPT !.dsel = x]
         /\ \A x \in {0, 1} : Performs(Wr("DriverFeaturesSel", "", x)) =>
              /\ mdrv' = [mdrv EXCEPT !.pc = mdrv.pc + 1] /\ vring' = vring
              /\ dev' = [dev EXCEPT !.fsel = x]
         /\ \A half \in {"lo", "hi"} : Performs(Wr("ReadOffer", half, 0)) =>
              /\ mdrv' = [mdrv EXCEPT !.pc = mdrv.pc + 1, !.offer[half] = DeviceFeatures(dev)]
              /\ vring' = vring /\ dev' = dev
         /\ \A half \in {"lo", "hi"} : Performs(Wr("DriverFeatures", half, 0)) =>
              /\ mdrv' = [mdrv EXCEPT !.pc = mdrv.pc + 1] /\ vring' = vring
              /\ dev' = [dev EXCEPT !.drv[IF dev.fsel = 0 THEN "lo" ELSE "hi"] = mdrv.offer[half]]
         /\ \A r \in Rings, half \in {"lo", "hi"} : \A v : Performs(Wr(r, half, v)) =>
              /\ mdrv' = [mdrv EXCEPT !.pc = mdrv.pc + 1] /\ vring' = vring
              /\ dev' = [dev EXCEPT !.queues[dev.qsel][r][half] = v]
         /\ \A reg \in {"QueueSel", "QueueNum", "QueueReady"} : \A v : Performs(Wr(reg, "", v)) =>
              /\ mdrv' = [mdrv EXCEPT !.pc = mdrv.pc + 1] /\ vring' = vring
              /\ dev' = MmioWriteReg(dev, reg, "", v)
<1>0. dev.kind \in Kinds /\ DOMAIN vring = Slots(dev.kind)
  BY DEF MmioTypes
<1>1. \A r, h, c : Wr(r, h, c)[1] = r /\ Wr(r, h, c)[2] = h /\ Wr(r, h, c)[3] = c
  BY DEF Wr
<1>2. ASSUME Performs(Wr("Status", "", "reset"))
      PROVE  /\ mdrv' = [mdrv EXCEPT !.pc = mdrv.pc + 1]
             /\ dev' = IF dev.kind \in Latched THEN [Fresh(dev.kind) EXCEPT !.line = dev.line] ELSE Fresh(dev.kind)
             /\ vring' = [q \in Slots(dev.kind) |-> NewRing]
  <2> DEFINE w == Wr("Status", "", "reset")
  <2>0. w[1] = "Status" /\ w[2] = "" /\ w[3] = "reset" /\ Performs(w)
    BY <1>2 DEF Wr
  <2> HIDE DEF w
  <2>1. ValueOf(w) = {}
    BY <2>0 DEF ValueOf
  <2>2. Resets("Status", {})
    BY DEF Resets
  <2>3. /\ mdrv' = [mdrv EXCEPT !.pc = mdrv.pc + 1]
        /\ dev' = MmioWriteReg(dev, "Status", "", {})
        /\ vring' = [q \in DOMAIN vring |-> NewRing]
    BY <2>0, <2>1, <2>2 DEF Performs
  <2> QED BY <1>0, <2>3, ResetWrite
<1>3. ASSUME NEW x \in Bits, Performs(Wr("Status", "", x))
      PROVE  /\ mdrv' = [mdrv EXCEPT !.pc = mdrv.pc + 1] /\ vring' = vring
             /\ dev' = [dev EXCEPT !.status = dev.status \cup {x}]
  <2> DEFINE w == Wr("Status", "", x)
  <2>0. w[1] = "Status" /\ w[2] = "" /\ w[3] = x /\ x # "reset" /\ Performs(w)
    BY <1>3 DEF Bits, Wr
  <2> HIDE DEF w
  <2>1. ValueOf(w) = dev.status \cup {x}
    BY <2>0 DEF ValueOf
  <2>2. ~Resets("Status", dev.status \cup {x})
    BY DEF Resets
  <2>3. MmioWriteReg(dev, "Status", "", dev.status \cup {x}) = Common(dev, "Status", "", dev.status \cup {x})
    BY <1>0, <2>2, CommonWrite DEF CommonRegs
  <2>4. Common(dev, "Status", "", dev.status \cup {x}) = [dev EXCEPT !.status = dev.status \cup {x}]
    <3>1. "Status" \notin Rings
      BY DEF Rings
    <3> QED BY <3>1 DEF Common
  <2>5. /\ mdrv' = [mdrv EXCEPT !.pc = mdrv.pc + 1] /\ vring' = vring
        /\ dev' = MmioWriteReg(dev, "Status", "", dev.status \cup {x})
    BY <2>0, <2>1, <2>2 DEF Performs
  <2> QED BY <2>3, <2>4, <2>5
<1>4. ASSUME NEW reg \in CommonRegs \ {"Status"}, NEW half, NEW v, Performs(Wr(reg, half, v))
      PROVE  /\ mdrv' = [mdrv EXCEPT !.pc = mdrv.pc + 1] /\ vring' = vring
             /\ dev' = Common(dev, reg, half, IF reg = "DriverFeatures" THEN mdrv.offer[half] ELSE v)
  <2> DEFINE y == IF reg = "DriverFeatures" THEN mdrv.offer[half] ELSE v
  <2>1. ValueOf(Wr(reg, half, v)) = y /\ reg # "ReadOffer" /\ reg # "Status"
    BY <1>1 DEF ValueOf, CommonRegs, Rings
  <2>2. ~Resets(reg, y)
    BY DEF Resets
  <2> HIDE DEF y
  <2>3. MmioWriteReg(dev, reg, half, y) = Common(dev, reg, half, y)
    BY <1>0, <2>2, CommonWrite
  <2>4. /\ mdrv' = [mdrv EXCEPT !.pc = mdrv.pc + 1]
        /\ dev' = MmioWriteReg(dev, reg, half, y)
        /\ vring' = vring
    BY <1>1, <1>4, <2>1, <2>2 DEF Performs
  <2> QED BY <2>3, <2>4 DEF y
<1>5. ASSUME NEW half \in {"lo", "hi"}, Performs(Wr("ReadOffer", half, 0))
      PROVE  /\ mdrv' = [mdrv EXCEPT !.pc = mdrv.pc + 1, !.offer[half] = DeviceFeatures(dev)]
             /\ vring' = vring /\ dev' = dev
  <2> DEFINE w == Wr("ReadOffer", half, 0)
  <2>0. w[1] = "ReadOffer" /\ w[2] = half /\ Performs(w)
    BY <1>1, <1>5
  <2> HIDE DEF w
  <2> QED BY <2>0 DEF Performs
<1>6. ASSUME NEW reg \in {"QueueSel", "QueueNum", "QueueReady"}, NEW v, Performs(Wr(reg, "", v))
      PROVE  /\ mdrv' = [mdrv EXCEPT !.pc = mdrv.pc + 1] /\ vring' = vring
             /\ dev' = MmioWriteReg(dev, reg, "", v)
  <2> DEFINE w == Wr(reg, "", v)
  <2>0. w[1] = reg /\ w[2] = "" /\ w[3] = v /\ Performs(w)
    BY <1>6 DEF Wr
  <2> HIDE DEF w
  <2>1. ValueOf(w) = v
    BY <2>0 DEF ValueOf
  <2>2. ~Resets(reg, v)
    BY DEF Resets
  <2> QED BY <2>0, <2>1, <2>2 DEF Performs
<1>7. ASSUME NEW x \in {0, 1}, Performs(Wr("DeviceFeaturesSel", "", x))
      PROVE  /\ mdrv' = [mdrv EXCEPT !.pc = mdrv.pc + 1] /\ vring' = vring
             /\ dev' = [dev EXCEPT !.dsel = x]
  <2>1. /\ mdrv' = [mdrv EXCEPT !.pc = mdrv.pc + 1] /\ vring' = vring
        /\ dev' = Common(dev, "DeviceFeaturesSel", "", x)
    BY <1>4, <1>7 DEF CommonRegs
  <2>2. "DeviceFeaturesSel" \notin Rings
    BY DEF Rings
  <2> QED BY <2>1, <2>2 DEF Common
<1>8. ASSUME NEW x \in {0, 1}, Performs(Wr("DriverFeaturesSel", "", x))
      PROVE  /\ mdrv' = [mdrv EXCEPT !.pc = mdrv.pc + 1] /\ vring' = vring
             /\ dev' = [dev EXCEPT !.fsel = x]
  <2>1. /\ mdrv' = [mdrv EXCEPT !.pc = mdrv.pc + 1] /\ vring' = vring
        /\ dev' = Common(dev, "DriverFeaturesSel", "", x)
    BY <1>4, <1>8 DEF CommonRegs
  <2>2. "DriverFeaturesSel" \notin Rings
    BY DEF Rings
  <2> QED BY <2>1, <2>2 DEF Common
<1>9. ASSUME NEW half \in {"lo", "hi"}, Performs(Wr("DriverFeatures", half, 0))
      PROVE  /\ mdrv' = [mdrv EXCEPT !.pc = mdrv.pc + 1] /\ vring' = vring
             /\ dev' = [dev EXCEPT !.drv[IF dev.fsel = 0 THEN "lo" ELSE "hi"] = mdrv.offer[half]]
  <2>1. /\ mdrv' = [mdrv EXCEPT !.pc = mdrv.pc + 1] /\ vring' = vring
        /\ dev' = Common(dev, "DriverFeatures", half, mdrv.offer[half])
    BY <1>4, <1>9 DEF CommonRegs
  <2>2. "DriverFeatures" \notin Rings
    BY DEF Rings
  <2> QED BY <2>1, <2>2 DEF Common
<1>10. ASSUME NEW r \in Rings, NEW half \in {"lo", "hi"}, NEW v, Performs(Wr(r, half, v))
      PROVE  /\ mdrv' = [mdrv EXCEPT !.pc = mdrv.pc + 1] /\ vring' = vring
             /\ dev' = [dev EXCEPT !.queues[dev.qsel][r][half] = v]
  <2>1. r \in CommonRegs \ {"Status"} /\ r # "DriverFeatures"
    BY DEF CommonRegs, Rings
  <2>2. /\ mdrv' = [mdrv EXCEPT !.pc = mdrv.pc + 1] /\ vring' = vring
        /\ dev' = Common(dev, r, half, v)
    BY <1>4, <1>10, <2>1
  <2> QED BY <2>2 DEF Common, Rings
<1> QED BY <1>2, <1>3, <1>5, <1>6, <1>7, <1>8, <1>9, <1>10

-----------------------------------------------------------------------------
\* A later step of the same probe.
Later(m, m2) == m2.size = m.size /\ m2.gen = m.gen /\ m2.pc = m.pc + 1 /\ m.pc \in Nat /\ m2.pc \in Nat

\* The status bits a step adds.
LEMMA StatusSteps ==
  ASSUME NEW k, NEW m, NEW m2, Later(m, m2)
  PROVE  /\ m.pc \notin {2, 3, 12, 21, LastStep(k)} => StatusIs(k, m2) = StatusIs(k, m)
         /\ m.pc = 2 => StatusIs(k, m2) = StatusIs(k, m) \cup {"acknowledge"}
         /\ m.pc = 3 => StatusIs(k, m2) = StatusIs(k, m) \cup {"driver"}
         /\ m.pc = 12 => StatusIs(k, m2) = StatusIs(k, m) \cup {"featuresOk"}
         /\ m.pc = LastStep(k) => StatusIs(k, m2) = StatusIs(k, m) \cup {"driverOk"}
         /\ m.pc = 21 => StatusIs(k, m2) = StatusIs(k, m) \cup
                           (IF GoodSize(k, m.size) THEN {} ELSE {"needsReset"})
<1>1. LastStep(k) \in {22, 31}
  BY DEF LastStep
<1>2. GoodSize(k, m2.size) = GoodSize(k, m.size)
  BY DEF Later
<1>3. PICK p \in Nat : p = m.pc /\ m2.pc = p + 1
  BY DEF Later
<1>a. PICK L \in {22, 31} : L = LastStep(k)
  BY <1>1
<1> HIDE DEF GoodSize
<1>4. ASSUME p \notin {2, 3, 12, 21, LastStep(k)} PROVE StatusIs(k, m2) = StatusIs(k, m)
  <2>1. /\ (p + 1 > 2) = (p > 2)
        /\ (p + 1 > 3) = (p > 3)
        /\ (p + 1 > 12) = (p > 12)
        /\ (p + 1 > 21) = (p > 21)
        /\ (p + 1 > L) = (p > L)
    BY <1>a, <1>4
  <2>2. /\ (m2.pc > 2) = (m.pc > 2)
        /\ (m2.pc > 3) = (m.pc > 3)
        /\ (m2.pc > 12) = (m.pc > 12)
        /\ (m2.pc > 21) = (m.pc > 21)
        /\ (m2.pc > LastStep(k)) = (m.pc > LastStep(k))
    BY <1>a, <1>3, <2>1
  <2> QED BY <1>2, <2>2, Zenon DEF StatusIs
<1>5. p = 2 => StatusIs(k, m2) = StatusIs(k, m) \cup {"acknowledge"}
  BY <1>1, <1>3 DEF StatusIs
<1>6. p = 3 => StatusIs(k, m2) = StatusIs(k, m) \cup {"driver"}
  BY <1>1, <1>3 DEF StatusIs
<1>7. p = 12 => StatusIs(k, m2) = StatusIs(k, m) \cup {"featuresOk"}
  BY <1>1, <1>3 DEF StatusIs
<1>8. p = LastStep(k) => StatusIs(k, m2) = StatusIs(k, m) \cup {"driverOk"}
  BY <1>1, <1>2, <1>3 DEF StatusIs
<1>9. p = 21 => StatusIs(k, m2) = StatusIs(k, m) \cup (IF GoodSize(k, m.size) THEN {} ELSE {"needsReset"})
  BY <1>1, <1>2, <1>3 DEF StatusIs
<1> QED BY <1>3, <1>4, <1>5, <1>6, <1>7, <1>8, <1>9

\* A queue that the step does not touch.
LEMMA QueueStays ==
  ASSUME NEW k \in Kinds, NEW m, NEW m2, Later(m, m2), NEW q \in Slots(k), NEW Q, QueueIs(Q, k, q, m),
         q \in InUse(k) => m.pc < 13 + 9 * q \/ m.pc = 13 + 9 * q \/ m.pc > 13 + 9 * q + 8
  PROVE  QueueIs(Q, k, q, m2)
<1>1. q \in Nat
  BY DEF Slots, Kinds, Nets
<1>a. 13 + 9 * q \in Nat /\ m.pc \in Nat /\ m2.pc = m.pc + 1
  BY <1>1 DEF Later
<1>2. PICK b \in Nat, p \in Nat : b = 13 + 9 * q /\ p = m.pc /\ m2.pc = p + 1
  BY <1>a
<1>3. q \in InUse(k) => p < b \/ p = b \/ p > b + 8
  BY <1>2
<1>4. \A i \in 1..8 : q \in InUse(k) => (p + 1 > b + i) = (p > b + i)
  BY <1>3
<1>5. GoodSize(k, m2.size) = GoodSize(k, m.size) /\ m2.size = m.size /\ m2.gen = m.gen
  BY DEF Later
<1> HIDE DEF GoodSize
<1>6. \A i \in 1..8 : \A v, old : (IF q \in InUse(k) /\ p + 1 > b + i THEN v ELSE old)
                              = (IF q \in InUse(k) /\ p > b + i THEN v ELSE old)
  BY <1>4
<1> QED BY <1>2, <1>4, <1>5, <1>6 DEF QueueIs

\* What is not a queue register leaves the queues as they are.
LEMMA PlainStep ==
  ASSUME RegInv, mdrv.gen > 0, mdrv.pc > 1,
         mdrv.pc <= 12 \/ mdrv.pc = LastStep(dev.kind) \/ mdrv.pc = 13 \/ mdrv.pc = 22,
         dev'.queues = dev.queues, dev'.kind = dev.kind, Later(mdrv, mdrv'), Registers(dev', mdrv')
  PROVE  Settings(dev', mdrv')
<1>1. dev.kind \in Kinds /\ Settings(dev, mdrv) /\ mdrv.pc \in Nat
  BY DEF RegInv, MmioTypes, Later
<1>2. ASSUME NEW q \in Slots(dev.kind) PROVE QueueIs(dev.queues[q], dev.kind, q, mdrv')
  <2>1. QueueIs(dev.queues[q], dev.kind, q, mdrv)
    BY <1>1, <1>2 DEF Settings
  <2>2. q \in InUse(dev.kind) => mdrv.pc < 13 + 9 * q \/ mdrv.pc = 13 + 9 * q \/ mdrv.pc > 13 + 9 * q + 8
    <3> SUFFICES ASSUME q \in InUse(dev.kind)
                 PROVE  mdrv.pc < 13 + 9 * q \/ mdrv.pc = 13 + 9 * q \/ mdrv.pc > 13 + 9 * q + 8
      OBVIOUS
    <3>1. q = 0 \/ (q = 1 /\ LastStep(dev.kind) = 31)
      BY DEF InUse, LastStep
    <3>2. LastStep(dev.kind) \in {22, 31}
      BY DEF LastStep
    <3>3. mdrv.pc \in Nat
      BY <1>1
    <3> QED BY <3>1, <3>2, <3>3
  <2> QED BY <1>1, <2>1, <2>2, QueueStays
<1> QED BY <1>2 DEF Settings

\* The accesses of the program, one by one.
LEMMA OpeningAt ==
  /\ Opening[1] = Wr("Status", "", "reset") /\ Opening[2] = Wr("Status", "", "acknowledge")
  /\ Opening[3] = Wr("Status", "", "driver") /\ Opening[4] = Wr("DeviceFeaturesSel", "", 1)
  /\ Opening[5] = Wr("ReadOffer", "hi", 0) /\ Opening[6] = Wr("DeviceFeaturesSel", "", 0)
  /\ Opening[7] = Wr("ReadOffer", "lo", 0) /\ Opening[8] = Wr("DriverFeaturesSel", "", 1)
  /\ Opening[9] = Wr("DriverFeatures", "hi", 0) /\ Opening[10] = Wr("DriverFeaturesSel", "", 0)
  /\ Opening[11] = Wr("DriverFeatures", "lo", 0) /\ Opening[12] = Wr("Status", "", "featuresOk")
BY DEF Opening

\* The accesses that set up a queue, one by one.
LEMMA SetUpAt ==
  ASSUME NEW q, NEW n, NEW g
  PROVE  /\ SetUp(q, n, g)[1] = Wr("QueueSel", "", q) /\ SetUp(q, n, g)[2] = Wr("QueueNum", "", n)
         /\ SetUp(q, n, g)[3] = Wr("desc", "lo", g) /\ SetUp(q, n, g)[4] = Wr("desc", "hi", g)
         /\ SetUp(q, n, g)[5] = Wr("driver", "lo", g) /\ SetUp(q, n, g)[6] = Wr("driver", "hi", g)
         /\ SetUp(q, n, g)[7] = Wr("device", "lo", g) /\ SetUp(q, n, g)[8] = Wr("device", "hi", g)
         /\ SetUp(q, n, g)[9] = Wr("QueueReady", "", 1)
BY DEF SetUp

\* Which access the driver performs at each step.
LEMMA StepAt ==
  ASSUME MmioTypes, ProbeStep
  PROVE  /\ mdrv.gen > 0 /\ mdrv.pc \in 1..LastStep(dev.kind)
         /\ mdrv.pc = 1 => Performs(Wr("Status", "", "reset"))
         /\ mdrv.pc = 2 => Performs(Wr("Status", "", "acknowledge"))
         /\ mdrv.pc = 3 => Performs(Wr("Status", "", "driver"))
         /\ mdrv.pc = 4 => Performs(Wr("DeviceFeaturesSel", "", 1))
         /\ mdrv.pc = 5 => Performs(Wr("ReadOffer", "hi", 0))
         /\ mdrv.pc = 6 => Performs(Wr("DeviceFeaturesSel", "", 0))
         /\ mdrv.pc = 7 => Performs(Wr("ReadOffer", "lo", 0))
         /\ mdrv.pc = 8 => Performs(Wr("DriverFeaturesSel", "", 1))
         /\ mdrv.pc = 9 => Performs(Wr("DriverFeatures", "hi", 0))
         /\ mdrv.pc = 10 => Performs(Wr("DriverFeaturesSel", "", 0))
         /\ mdrv.pc = 11 => Performs(Wr("DriverFeatures", "lo", 0))
         /\ mdrv.pc = 12 => Performs(Wr("Status", "", "featuresOk"))
         /\ mdrv.pc = LastStep(dev.kind) => Performs(Wr("Status", "", "driverOk"))
         /\ \A q \in InUse(dev.kind) : \A i \in 1..9 :
              mdrv.pc = 12 + 9 * q + i => Performs(SetUp(q, mdrv.size, mdrv.gen)[i])
<1>1. PICK k, n, g : k \in Kinds /\ k = dev.kind /\ n = mdrv.size /\ g = mdrv.gen
  BY DEF MmioTypes
<1>2. k \in Kinds
  BY <1>1
<1>e. ProgramIs(k, n, g)
  BY <1>2, ProgramAt
<1>a. \A i \in 1..12 : Program(k, n, g)[i] = Opening[i]
  BY <1>e DEF ProgramIs
<1>b. \A i \in 1..9 : Program(k, n, g)[12 + i] = SetUp(0, n, g)[i]
  BY <1>e DEF ProgramIs
<1>c. k \in Nets => \A i \in 1..9 : Program(k, n, g)[21 + i] = SetUp(1, n, g)[i]
  BY <1>e DEF ProgramIs
<1>d. Program(k, n, g)[LastStep(k)] = Wr("Status", "", "driverOk")
  BY <1>e DEF ProgramIs
<1>3. /\ \A i \in 1..9 : Program(k, n, g)[12 + i] = SetUp(0, n, g)[i]
      /\ k \in Nets => \A i \in 1..9 : Program(k, n, g)[21 + i] = SetUp(1, n, g)[i]
      /\ Program(k, n, g)[LastStep(k)] = Wr("Status", "", "driverOk")
  BY <1>b, <1>c, <1>d
<1>4. /\ mdrv.gen > 0 /\ mdrv.pc \in 1..LastStep(dev.kind)
      /\ Performs(Program(k, n, g)[mdrv.pc])
  BY <1>1, StepPerforms
<1>5. /\ mdrv.pc = 1 => Performs(Wr("Status", "", "reset"))
      /\ mdrv.pc = 2 => Performs(Wr("Status", "", "acknowledge"))
      /\ mdrv.pc = 3 => Performs(Wr("Status", "", "driver"))
      /\ mdrv.pc = 4 => Performs(Wr("DeviceFeaturesSel", "", 1))
      /\ mdrv.pc = 5 => Performs(Wr("ReadOffer", "hi", 0))
      /\ mdrv.pc = 6 => Performs(Wr("DeviceFeaturesSel", "", 0))
      /\ mdrv.pc = 7 => Performs(Wr("ReadOffer", "lo", 0))
      /\ mdrv.pc = 8 => Performs(Wr("DriverFeaturesSel", "", 1))
      /\ mdrv.pc = 9 => Performs(Wr("DriverFeatures", "hi", 0))
      /\ mdrv.pc = 10 => Performs(Wr("DriverFeaturesSel", "", 0))
      /\ mdrv.pc = 11 => Performs(Wr("DriverFeatures", "lo", 0))
      /\ mdrv.pc = 12 => Performs(Wr("Status", "", "featuresOk"))
  <2>1. /\ Program(k, n, g)[1] = Wr("Status", "", "reset")
        /\ Program(k, n, g)[2] = Wr("Status", "", "acknowledge")
        /\ Program(k, n, g)[3] = Wr("Status", "", "driver")
        /\ Program(k, n, g)[4] = Wr("DeviceFeaturesSel", "", 1)
        /\ Program(k, n, g)[5] = Wr("ReadOffer", "hi", 0)
        /\ Program(k, n, g)[6] = Wr("DeviceFeaturesSel", "", 0)
        /\ Program(k, n, g)[7] = Wr("ReadOffer", "lo", 0)
        /\ Program(k, n, g)[8] = Wr("DriverFeaturesSel", "", 1)
        /\ Program(k, n, g)[9] = Wr("DriverFeatures", "hi", 0)
        /\ Program(k, n, g)[10] = Wr("DriverFeaturesSel", "", 0)
        /\ Program(k, n, g)[11] = Wr("DriverFeatures", "lo", 0)
        /\ Program(k, n, g)[12] = Wr("Status", "", "featuresOk")
    <3> DEFINE P == Program(k, n, g)
    <3>1. \A i \in 1..12 : P[i] = Opening[i]
      BY <1>a
    <3> HIDE DEF P
    <3>2. /\ P[1] = Opening[1]
          /\ P[2] = Opening[2]
          /\ P[3] = Opening[3]
          /\ P[4] = Opening[4]
          /\ P[5] = Opening[5]
          /\ P[6] = Opening[6]
          /\ P[7] = Opening[7]
          /\ P[8] = Opening[8]
          /\ P[9] = Opening[9]
          /\ P[10] = Opening[10]
          /\ P[11] = Opening[11]
          /\ P[12] = Opening[12]
      BY <3>1
    <3>3. P = Program(k, n, g)
      BY DEF P
    <3> QED BY <3>2, <3>3, OpeningAt
  <2> QED BY <1>4, <2>1
<1>6. mdrv.pc = LastStep(dev.kind) => Performs(Wr("Status", "", "driverOk"))
  BY <1>1, <1>3, <1>4
<1>7. ASSUME NEW q \in InUse(dev.kind), NEW i \in 1..9, mdrv.pc = 12 + 9 * q + i
      PROVE  Performs(SetUp(q, mdrv.size, mdrv.gen)[i])
  <2>1. CASE q = 0
    <3>1. mdrv.pc = 12 + i
      BY <1>7, <2>1
    <3>2. Program(k, n, g)[mdrv.pc] = SetUp(0, n, g)[i]
      BY <1>3, <3>1
    <3> QED BY <1>1, <1>4, <2>1, <3>2
  <2>2. CASE q = 1 /\ dev.kind \in Nets
    <3>1. mdrv.pc = 21 + i
      BY <1>7, <2>2
    <3>2. Program(k, n, g)[mdrv.pc] = SetUp(1, n, g)[i]
      BY <1>1, <1>3, <2>2, <3>1
    <3> QED BY <1>1, <1>4, <2>2, <3>2
  <2> QED BY <2>1, <2>2 DEF InUse
<1> QED BY <1>4, <1>5, <1>6, <1>7

\* What the driver remembers of a step that is not its first.
Moves == /\ mdrv' \in Drivers /\ Later(mdrv, mdrv') /\ vring' = vring
         /\ mdrv'.isr = mdrv.isr /\ mdrv'.quiet = mdrv.quiet

\* Such a step moves no ring and raises no interrupt.
LEMMA StepKeeps ==
  ASSUME RegInv, ProbeStep, mdrv.pc > 1, Moves, dev' \in Devs(dev.kind),
         \A q \in Slots(dev.kind) : dev'.queues[q].last = dev.queues[q].last
  PROVE  (MmioTypes /\ Positioned /\ Blank /\ Raising)' /\ dev'.kind = dev.kind
<1>a. MmioTypes /\ Positioned /\ Blank /\ Raising
  BY DEF RegInv
<1>b. mdrv.gen > 0 /\ mdrv.pc \in 1..LastStep(dev.kind)
  BY <1>a, StepAt
<1>c. mdrv.pc \in 2..LastStep(dev.kind)
  BY <1>b
<1>1. /\ dev.kind \in Kinds /\ MmioTypes /\ Positioned /\ Blank /\ Raising
      /\ mdrv.gen > 0 /\ mdrv.pc \in 2..LastStep(dev.kind) /\ ~Running
      /\ mdrv.size \in 1..NumMax(dev.kind)
  BY <1>a, <1>b, <1>c DEF MmioTypes, ProbeStep
<1>2. dev'.kind = dev.kind
  BY DEF Devs
<1>3. LastStep(dev.kind) \in {22, 31}
  BY DEF LastStep
<1>4. mdrv'.pc = mdrv.pc + 1 /\ mdrv'.gen = mdrv.gen /\ mdrv'.size = mdrv.size
  BY DEF Moves, Later
<1>5. MmioTypes'
  <2>1. mdrv'.pc \in 1..LastStep(dev.kind) + 1
    BY <1>1, <1>3, <1>4
  <2> QED BY <1>1, <1>2, <1>4, <2>1 DEF MmioTypes, Moves
<1>6. vring' = [q \in Slots(dev.kind) |-> NewRing] /\ vring' = vring
  BY <1>1 DEF Blank, Moves
<1>7. Positioned'
  BY <1>1, <1>2, <1>6 DEF Positioned
<1>8. Blank'
  BY <1>2, <1>6 DEF Blank
<1>9. Raising'
  <2>1. mdrv'.isr = "idle"
    BY <1>1 DEF Raising, Moves
  <2>2. ~Unseen'
    BY <1>2, <1>6 DEF Unseen, NewRing
  <2> QED BY <2>1, <2>2 DEF Raising
<1> QED BY <1>2, <1>5, <1>7, <1>8, <1>9

\* What the driver may have written of the shared registers is well typed.
LEMMA MovesOn ==
  ASSUME MmioTypes, mdrv' = [mdrv EXCEPT !.pc = mdrv.pc + 1], vring' = vring
  PROVE  Moves
BY DEF MmioTypes, Moves, Later, Drivers

\* The bits of the status.
LEMMA StatusStep ==
  ASSUME RegInv, ProbeStep, mdrv.pc \in {2, 3, 12, LastStep(dev.kind)}
  PROVE  RegInv'
<1>1. MmioTypes /\ Settings(dev, mdrv) /\ Registers(dev, mdrv) /\ mdrv.gen > 0 /\ dev \in Devs(dev.kind)
  <2>1. MmioTypes
    BY DEF RegInv
  <2>2. mdrv.gen > 0 /\ mdrv.pc \in 1..LastStep(dev.kind)
    BY <2>1, StepAt
  <2>3. mdrv.pc > 1
    BY DEF LastStep
  <2> QED BY <2>1, <2>2, <2>3 DEF RegInv, Settings, MmioTypes
<1>a. /\ mdrv.pc = 2 => Performs(Wr("Status", "", "acknowledge"))
      /\ mdrv.pc = 3 => Performs(Wr("Status", "", "driver"))
      /\ mdrv.pc = 12 => Performs(Wr("Status", "", "featuresOk"))
      /\ mdrv.pc = LastStep(dev.kind) => Performs(Wr("Status", "", "driverOk"))
  BY <1>1, StepAt
<1>2. LastStep(dev.kind) \in {22, 31} /\ (LastStep(dev.kind) = 31 <=> dev.kind \in Nets)
  BY DEF LastStep
<1>3. PICK x \in Bits : /\ Performs(Wr("Status", "", x))
                        /\ \/ mdrv.pc = 2 /\ x = "acknowledge"
                           \/ mdrv.pc = 3 /\ x = "driver"
                           \/ mdrv.pc = 12 /\ x = "featuresOk"
                           \/ mdrv.pc = LastStep(dev.kind) /\ x = "driverOk"
  <2>1. CASE mdrv.pc = 2
    <3>1. Performs(Wr("Status", "", "acknowledge"))
      BY <1>a, <2>1
    <3>2. "acknowledge" \in Bits
      BY DEF Bits
    <3> QED BY <2>1, <3>1, <3>2, Zenon
  <2>2. CASE mdrv.pc = 3
    <3>1. Performs(Wr("Status", "", "driver"))
      BY <1>a, <2>2
    <3>2. "driver" \in Bits
      BY DEF Bits
    <3> QED BY <2>2, <3>1, <3>2, Zenon
  <2>3. CASE mdrv.pc = 12
    <3>1. Performs(Wr("Status", "", "featuresOk"))
      BY <1>a, <2>3
    <3>2. "featuresOk" \in Bits
      BY DEF Bits
    <3> QED BY <2>3, <3>1, <3>2, Zenon
  <2>4. CASE mdrv.pc = LastStep(dev.kind)
    <3>1. Performs(Wr("Status", "", "driverOk"))
      BY <1>a, <2>4
    <3>2. "driverOk" \in Bits
      BY DEF Bits
    <3> QED BY <2>4, <3>1, <3>2, Zenon
  <2> QED BY <2>1, <2>2, <2>3, <2>4
<1>4. /\ mdrv' = [mdrv EXCEPT !.pc = mdrv.pc + 1] /\ vring' = vring
      /\ dev' = [dev EXCEPT !.status = dev.status \cup {x}]
  BY <1>1, <1>3, StepEffects
<1>5. /\ Moves /\ Later(mdrv, mdrv')
  BY <1>1, <1>4, MovesOn DEF Moves
<1>6. dev' \in Devs(dev.kind) /\ dev'.kind = dev.kind /\ dev'.queues = dev.queues /\ dev'.status = dev.status \cup {x}
      /\ dev'.dsel = dev.dsel /\ dev'.fsel = dev.fsel /\ dev'.qsel = dev.qsel /\ dev'.drv = dev.drv
  BY <1>1, <1>4 DEF Devs
<1>7. mdrv.pc > 1
  BY <1>2
<1>8. (MmioTypes /\ Positioned /\ Blank /\ Raising)'
  BY <1>5, <1>6, <1>7, StepKeeps
<1>9. Registers(dev', mdrv')
  <2>1. StatusIs(dev.kind, mdrv') = StatusIs(dev.kind, mdrv) \cup {x}
    <3>1. mdrv.pc # 21 /\ LastStep(dev.kind) \notin {2, 3, 12, 21}
      BY <1>2
    <3>2. /\ mdrv.pc = 2 => StatusIs(dev.kind, mdrv') = StatusIs(dev.kind, mdrv) \cup {"acknowledge"}
          /\ mdrv.pc = 3 => StatusIs(dev.kind, mdrv') = StatusIs(dev.kind, mdrv) \cup {"driver"}
          /\ mdrv.pc = 12 => StatusIs(dev.kind, mdrv') = StatusIs(dev.kind, mdrv) \cup {"featuresOk"}
          /\ mdrv.pc = LastStep(dev.kind) => StatusIs(dev.kind, mdrv') = StatusIs(dev.kind, mdrv) \cup {"driverOk"}
      <4>1. PICK k, m, n : k = dev.kind /\ m = mdrv /\ n = mdrv'
        OBVIOUS
      <4>2. Later(m, n)
        BY <1>5, <4>1
      <4>3. /\ m.pc = 2 => StatusIs(k, n) = StatusIs(k, m) \cup {"acknowledge"}
            /\ m.pc = 3 => StatusIs(k, n) = StatusIs(k, m) \cup {"driver"}
            /\ m.pc = 12 => StatusIs(k, n) = StatusIs(k, m) \cup {"featuresOk"}
            /\ m.pc = LastStep(k) => StatusIs(k, n) = StatusIs(k, m) \cup {"driverOk"}
        BY <4>2, StatusSteps
      <4> QED BY <4>1, <4>3
    <3> HIDE DEF StatusIs
    <3> QED BY <1>3, <3>1, <3>2
  <2>2. dev'.status = StatusIs(dev'.kind, mdrv')
    BY <1>1, <1>6, <2>1 DEF Registers
  <2>3. mdrv'.pc = mdrv.pc + 1 /\ mdrv'.offer = mdrv.offer
    BY <1>1, <1>4 DEF MmioTypes, Drivers
  <2>4. PICK p \in Nat : p = mdrv.pc /\ p \in {2, 3, 12, 22, 31} /\ mdrv'.pc = p + 1 /\ (p = 22 => dev.kind \notin Nets)
    BY <1>2, <2>3
  <2>5. /\ (mdrv'.pc \in 5..6) = (mdrv.pc \in 5..6) /\ (mdrv'.pc \in 9..10) = (mdrv.pc \in 9..10)
        /\ (mdrv'.pc > 5) = (mdrv.pc > 5) /\ (mdrv'.pc > 9) = (mdrv.pc > 9) /\ (mdrv'.pc > 11) = (mdrv.pc > 11)
        /\ (mdrv'.pc > 22 /\ dev.kind \in Nets) = (mdrv.pc > 22 /\ dev.kind \in Nets)
    BY <2>4
  <2> QED BY <1>1, <1>6, <2>2, <2>3, <2>5 DEF Registers
<1>10. Settings(dev', mdrv')
  BY <1>1, <1>5, <1>6, <1>7, <1>9, PlainStep
<1> QED BY <1>8, <1>10 DEF RegInv

\* What every step of the opening starts from.
LEMMA AtOpening ==
  ASSUME RegInv, ProbeStep, mdrv.pc \in 2..12
  PROVE  /\ MmioTypes /\ Registers(dev, mdrv) /\ mdrv.gen > 0 /\ dev \in Devs(dev.kind) /\ dev.kind \in Kinds
         /\ mdrv \in Drivers /\ mdrv.pc > 1 /\ mdrv.pc <= 12
         /\ StatusIs(dev.kind, mdrv) = dev.status /\ LastStep(dev.kind) \in {22, 31}
<1>1. MmioTypes
  BY DEF RegInv
<1>2. mdrv.gen > 0
  BY <1>1, StepAt
<1>3. Registers(dev, mdrv)
  BY <1>2 DEF RegInv, Settings
<1> QED BY <1>1, <1>2, <1>3 DEF MmioTypes, Registers, LastStep

\* A selector of a feature word.
LEMMA SelectorStep ==
  ASSUME RegInv, ProbeStep, mdrv.pc \in {4, 6, 8, 10}
  PROVE  RegInv'
<1>1. /\ MmioTypes /\ Registers(dev, mdrv) /\ mdrv.gen > 0 /\ dev \in Devs(dev.kind) /\ dev.kind \in Kinds
      /\ mdrv \in Drivers /\ mdrv.pc > 1 /\ mdrv.pc <= 12
      /\ StatusIs(dev.kind, mdrv) = dev.status /\ LastStep(dev.kind) \in {22, 31}
  BY AtOpening
<1>2. /\ mdrv.pc = 4 => Performs(Wr("DeviceFeaturesSel", "", 1))
      /\ mdrv.pc = 6 => Performs(Wr("DeviceFeaturesSel", "", 0))
      /\ mdrv.pc = 8 => Performs(Wr("DriverFeaturesSel", "", 1))
      /\ mdrv.pc = 10 => Performs(Wr("DriverFeaturesSel", "", 0))
  BY <1>1, StepAt
<1>3. /\ mdrv' = [mdrv EXCEPT !.pc = mdrv.pc + 1] /\ vring' = vring
      /\ mdrv.pc = 4 => dev' = [dev EXCEPT !.dsel = 1]
      /\ mdrv.pc = 6 => dev' = [dev EXCEPT !.dsel = 0]
      /\ mdrv.pc = 8 => dev' = [dev EXCEPT !.fsel = 1]
      /\ mdrv.pc = 10 => dev' = [dev EXCEPT !.fsel = 0]
  <2>1. /\ \A x \in {0, 1} : Performs(Wr("DeviceFeaturesSel", "", x)) =>
              /\ mdrv' = [mdrv EXCEPT !.pc = mdrv.pc + 1] /\ vring' = vring
              /\ dev' = [dev EXCEPT !.dsel = x]
        /\ \A x \in {0, 1} : Performs(Wr("DriverFeaturesSel", "", x)) =>
              /\ mdrv' = [mdrv EXCEPT !.pc = mdrv.pc + 1] /\ vring' = vring
              /\ dev' = [dev EXCEPT !.fsel = x]
    BY <1>1, StepEffects
  <2>2. 0 \in {0, 1} /\ 1 \in {0, 1}
    OBVIOUS
  <2> QED BY <1>2, <2>1, <2>2
<1>4. /\ Moves /\ Later(mdrv, mdrv') /\ mdrv'.pc = mdrv.pc + 1 /\ mdrv'.offer = mdrv.offer
  BY <1>1, <1>3, MovesOn DEF Moves, Drivers
<1>5. /\ dev' \in Devs(dev.kind) /\ dev'.kind = dev.kind /\ dev'.queues = dev.queues /\ dev'.status = dev.status
      /\ dev'.qsel = dev.qsel /\ dev'.drv = dev.drv
      /\ dev'.dsel = (IF mdrv.pc = 4 THEN 1 ELSE IF mdrv.pc = 6 THEN 0 ELSE dev.dsel)
      /\ dev'.fsel = (IF mdrv.pc = 8 THEN 1 ELSE IF mdrv.pc = 10 THEN 0 ELSE dev.fsel)
  BY <1>1, <1>3 DEF Devs
<1>6. (MmioTypes /\ Positioned /\ Blank /\ Raising)'
  BY <1>1, <1>4, <1>5, StepKeeps
<1>7. Registers(dev', mdrv')
  <2>1. dev'.status = StatusIs(dev'.kind, mdrv')
    <3>1. mdrv.pc \notin {2, 3, 12, 21, LastStep(dev.kind)}
      BY <1>1
    <3> QED BY <1>1, <1>4, <1>5, <3>1, StatusSteps
  <2> HIDE DEF StatusIs
  <2> QED BY <1>1, <1>4, <1>5, <2>1 DEF Registers
<1>8. Settings(dev', mdrv')
  BY <1>1, <1>4, <1>5, <1>7, PlainStep
<1> QED BY <1>6, <1>8 DEF RegInv

\* What a device offers: VERSION_1 in the high half.
LEMMA OfferIs ==
  ASSUME NEW d, d.kind \in Kinds
  PROVE  DeviceFeatures(d) \in Nat /\ (d.dsel = 1 => DeviceFeatures(d) = 1)
BY DEF Kinds, Nets, DeviceFeatures, Offers, kvm_blk_read_reg, hvf_blk_read_reg, whp_blk_read_reg,
       rng_read_reg, kvm_net_read_reg, hvf_net_read_reg

\* The driver reads half of what the device offers.
LEMMA ReadStep ==
  ASSUME RegInv, ProbeStep, mdrv.pc \in {5, 7}
  PROVE  RegInv'
<1>1. /\ MmioTypes /\ Registers(dev, mdrv) /\ mdrv.gen > 0 /\ dev \in Devs(dev.kind) /\ dev.kind \in Kinds
      /\ mdrv \in Drivers /\ mdrv.pc > 1 /\ mdrv.pc <= 12
      /\ StatusIs(dev.kind, mdrv) = dev.status /\ LastStep(dev.kind) \in {22, 31}
  BY AtOpening
<1>2. PICK half \in {"lo", "hi"} : Performs(Wr("ReadOffer", half, 0)) /\ (half = "hi" <=> mdrv.pc = 5)
  <2>1. /\ mdrv.pc = 5 => Performs(Wr("ReadOffer", "hi", 0))
        /\ mdrv.pc = 7 => Performs(Wr("ReadOffer", "lo", 0))
    BY <1>1, StepAt
  <2>2. CASE mdrv.pc = 5
    BY <2>1, <2>2
  <2>3. CASE mdrv.pc = 7
    <3>1. Performs(Wr("ReadOffer", "lo", 0)) /\ mdrv.pc # 5
      BY <2>1, <2>3
    <3> QED BY <3>1
  <2> QED BY <2>2, <2>3
<1>3. PICK f : f = DeviceFeatures(dev) /\ f \in Nat /\ (dev.dsel = 1 => f = 1)
  BY <1>1, OfferIs
<1>4. /\ mdrv' = [mdrv EXCEPT !.pc = mdrv.pc + 1, !.offer[half] = f]
      /\ vring' = vring /\ dev' = dev
  BY <1>1, <1>2, <1>3, StepEffects
<1>5. /\ mdrv' \in Drivers /\ mdrv'.pc = mdrv.pc + 1 /\ mdrv'.isr = mdrv.isr /\ mdrv'.quiet = mdrv.quiet
      /\ mdrv'.size = mdrv.size /\ mdrv'.gen = mdrv.gen
      /\ mdrv'.offer = [mdrv.offer EXCEPT ![half] = f]
  <2> DEFINE o == [mdrv.offer EXCEPT ![half] = f]
  <2>1. mdrv.offer \in Halves
    BY <1>1 DEF Drivers
  <2>2. o \in Halves
    BY <1>3, <2>1 DEF Halves
  <2>3. mdrv' = [mdrv EXCEPT !.pc = mdrv.pc + 1, !.offer = o]
    BY <1>4
  <2> HIDE DEF o
  <2>4. /\ mdrv' \in Drivers /\ mdrv'.pc = mdrv.pc + 1 /\ mdrv'.isr = mdrv.isr /\ mdrv'.quiet = mdrv.quiet
        /\ mdrv'.size = mdrv.size /\ mdrv'.gen = mdrv.gen /\ mdrv'.offer = o
    <3>1. mdrv.pc + 1 \in Nat /\ mdrv \in Drivers
      BY <1>1 DEF Drivers
    <3>2. PICK p : p = mdrv.pc + 1 /\ p \in Nat
      BY <3>1
    <3>3. mdrv' = [[mdrv EXCEPT !.pc = p] EXCEPT !.offer = o]
      BY <2>3, <3>2
    <3>4. [mdrv EXCEPT !.pc = p] \in Drivers
      BY <3>1, <3>2 DEF Drivers
    <3>5. mdrv' \in Drivers
      BY <2>2, <3>3, <3>4 DEF Drivers
    <3>6. /\ mdrv'.pc = p /\ mdrv'.isr = mdrv.isr /\ mdrv'.quiet = mdrv.quiet
          /\ mdrv'.size = mdrv.size /\ mdrv'.gen = mdrv.gen /\ mdrv'.offer = o
      BY <3>1, <3>3 DEF Drivers
    <3> QED BY <3>2, <3>5, <3>6
  <2> QED BY <2>4 DEF o
<1>6. /\ Moves /\ Later(mdrv, mdrv')
  BY <1>1, <1>4, <1>5 DEF Moves, Later, Drivers
<1>7. (MmioTypes /\ Positioned /\ Blank /\ Raising)'
  BY <1>1, <1>4, <1>6, StepKeeps
<1>8. Registers(dev', mdrv')
  <2>1. dev'.status = StatusIs(dev'.kind, mdrv')
    <3>1. mdrv.pc \notin {2, 3, 12, 21, LastStep(dev.kind)}
      BY <1>1
    <3> QED BY <1>1, <1>4, <1>6, <3>1, StatusSteps
  <2>2. mdrv'.offer.hi = 1
    <3>1. mdrv.offer \in Halves
      BY <1>1 DEF Drivers
    <3>2. CASE mdrv.pc = 5
      <4>1. dev.dsel = 1
        BY <1>1, <3>2 DEF Registers
      <4> QED BY <1>2, <1>3, <1>5, <3>1, <3>2, <4>1 DEF Halves
    <3>3. CASE mdrv.pc = 7
      <4>1. mdrv.offer.hi = 1 /\ half = "lo"
        BY <1>1, <1>2, <3>3 DEF Registers
      <4> QED BY <1>5, <3>1, <4>1 DEF Halves
    <3> QED BY <3>2, <3>3
  <2> HIDE DEF StatusIs
  <2> QED BY <1>1, <1>4, <1>5, <2>1, <2>2 DEF Registers
<1>9. Settings(dev', mdrv')
  BY <1>1, <1>4, <1>6, <1>8, PlainStep
<1> QED BY <1>7, <1>9 DEF RegInv

\* The driver writes half of what it was offered.
LEMMA FeatureStep ==
  ASSUME RegInv, ProbeStep, mdrv.pc \in {9, 11}
  PROVE  RegInv'
<1>1. /\ MmioTypes /\ Registers(dev, mdrv) /\ mdrv.gen > 0 /\ dev \in Devs(dev.kind) /\ dev.kind \in Kinds
      /\ mdrv \in Drivers /\ mdrv.pc > 1 /\ mdrv.pc <= 12
      /\ StatusIs(dev.kind, mdrv) = dev.status /\ LastStep(dev.kind) \in {22, 31}
  BY AtOpening
<1>2. /\ mdrv.pc = 9 => Performs(Wr("DriverFeatures", "hi", 0)) /\ dev.fsel = 1
      /\ mdrv.pc = 11 => Performs(Wr("DriverFeatures", "lo", 0)) /\ dev.fsel = 0
  <2>1. /\ mdrv.pc = 9 => Performs(Wr("DriverFeatures", "hi", 0))
        /\ mdrv.pc = 11 => Performs(Wr("DriverFeatures", "lo", 0))
    BY <1>1, StepAt
  <2>2. (mdrv.pc = 9 => dev.fsel = 1) /\ (mdrv.pc = 11 => dev.fsel = 0)
    BY <1>1 DEF Registers
  <2> QED BY <2>1, <2>2
<1>3. /\ mdrv' = [mdrv EXCEPT !.pc = mdrv.pc + 1] /\ vring' = vring
      /\ mdrv.pc = 9 => dev' = [dev EXCEPT !.drv["hi"] = mdrv.offer["hi"]]
      /\ mdrv.pc = 11 => dev' = [dev EXCEPT !.drv["lo"] = mdrv.offer["lo"]]
  <2>1. \A half \in {"lo", "hi"} : Performs(Wr("DriverFeatures", half, 0)) =>
              /\ mdrv' = [mdrv EXCEPT !.pc = mdrv.pc + 1] /\ vring' = vring
              /\ dev' = [dev EXCEPT !.drv[IF dev.fsel = 0 THEN "lo" ELSE "hi"] = mdrv.offer[half]]
    BY <1>1, StepEffects
  <2>2. "lo" \in {"lo", "hi"} /\ "hi" \in {"lo", "hi"}
    OBVIOUS
  <2>3. CASE mdrv.pc = 9
    <3>1. /\ mdrv' = [mdrv EXCEPT !.pc = mdrv.pc + 1] /\ vring' = vring
          /\ dev' = [dev EXCEPT !.drv[IF dev.fsel = 0 THEN "lo" ELSE "hi"] = mdrv.offer["hi"]]
      BY <1>2, <2>1, <2>2, <2>3
    <3>2. (IF dev.fsel = 0 THEN "lo" ELSE "hi") = "hi" /\ mdrv.pc # 11
      BY <1>2, <2>3
    <3> QED BY <3>1, <3>2
  <2>4. CASE mdrv.pc = 11
    <3>1. /\ mdrv' = [mdrv EXCEPT !.pc = mdrv.pc + 1] /\ vring' = vring
          /\ dev' = [dev EXCEPT !.drv[IF dev.fsel = 0 THEN "lo" ELSE "hi"] = mdrv.offer["lo"]]
      BY <1>2, <2>1, <2>2, <2>4
    <3>2. (IF dev.fsel = 0 THEN "lo" ELSE "hi") = "lo" /\ mdrv.pc # 9
      BY <1>2, <2>4
    <3> QED BY <3>1, <3>2
  <2> QED BY <2>3, <2>4
<1>4. /\ Moves /\ Later(mdrv, mdrv') /\ mdrv'.pc = mdrv.pc + 1 /\ mdrv'.offer = mdrv.offer
  BY <1>1, <1>3, MovesOn DEF Moves, Drivers
<1>5. /\ dev' \in Devs(dev.kind) /\ dev'.kind = dev.kind /\ dev'.queues = dev.queues /\ dev'.status = dev.status
      /\ dev'.qsel = dev.qsel /\ dev'.dsel = dev.dsel /\ dev'.fsel = dev.fsel
      /\ mdrv.pc = 9 => dev'.drv.hi = mdrv.offer.hi /\ dev'.drv.lo = dev.drv.lo
      /\ mdrv.pc = 11 => dev'.drv.lo = mdrv.offer.lo /\ dev'.drv.hi = dev.drv.hi
  <2>1. mdrv.offer \in Halves
    BY <1>1 DEF Drivers
  <2> QED BY <1>1, <1>3, <2>1 DEF Devs, Halves
<1>6. (MmioTypes /\ Positioned /\ Blank /\ Raising)'
  BY <1>1, <1>4, <1>5, StepKeeps
<1>7. Registers(dev', mdrv')
  <2>1. dev'.status = StatusIs(dev'.kind, mdrv')
    <3>1. mdrv.pc \notin {2, 3, 12, 21, LastStep(dev.kind)}
      BY <1>1
    <3> QED BY <1>1, <1>4, <1>5, <3>1, StatusSteps
  <2> HIDE DEF StatusIs
  <2> QED BY <1>1, <1>4, <1>5, <2>1 DEF Registers
<1>8. Settings(dev', mdrv')
  BY <1>1, <1>4, <1>5, <1>7, PlainStep
<1> QED BY <1>6, <1>8 DEF RegInv

\* The driver's first access resets the device and gives it new rings.
LEMMA ProbeReset ==
  ASSUME MmioAssumption, RegInv, ProbeStep, mdrv.pc = 1
  PROVE  RegInv'
<1>1. /\ MmioTypes /\ mdrv.gen > 0 /\ dev \in Devs(dev.kind) /\ dev.kind \in Kinds /\ mdrv \in Drivers
      /\ mdrv.size \in 1..NumMax(dev.kind) /\ Raising /\ ~Running
  <2>1. MmioTypes /\ Raising /\ ~Running
    BY DEF RegInv, ProbeStep
  <2> QED BY <2>1, StepAt DEF MmioTypes
<1>2. Performs(Wr("Status", "", "reset"))
  BY <1>1, StepAt
<1>3. /\ mdrv' = [mdrv EXCEPT !.pc = mdrv.pc + 1]
      /\ dev' = IF dev.kind \in Latched THEN [Fresh(dev.kind) EXCEPT !.line = dev.line] ELSE Fresh(dev.kind)
      /\ vring' = [q \in Slots(dev.kind) |-> NewRing]
  BY <1>1, <1>2, StepEffects
<1>4. PICK k \in Kinds : k = dev.kind /\ Fresh(k) \in Devs(k)
  BY <1>1, FreshType
<1>5. /\ dev' \in Devs(k) /\ dev'.kind = k /\ dev'.status = {} /\ dev'.drv = Zero
      /\ dev'.dsel = 0 /\ dev'.fsel = 0 /\ dev'.qsel = 0 /\ dev'.queues = [q \in Slots(k) |-> NewQueue(k)]
  <2>0. dev.line \in BOOLEAN
    BY <1>1 DEF Devs
  <2>1. /\ Fresh(k).kind = k /\ Fresh(k).status = {} /\ Fresh(k).drv = Zero
        /\ Fresh(k).dsel = 0 /\ Fresh(k).fsel = 0 /\ Fresh(k).qsel = 0
        /\ Fresh(k).queues = [q \in Slots(k) |-> NewQueue(k)]
    BY DEF Fresh
  <2>2. CASE k \in Latched
    <3>1. dev' = [Fresh(k) EXCEPT !.line = dev.line]
      BY <1>3, <1>4, <2>2
    <3> QED BY <1>4, <2>0, <2>1, <3>1 DEF Devs
  <2>3. CASE k \notin Latched
    BY <1>3, <1>4, <2>1, <2>3
  <2> QED BY <2>2, <2>3
<1>6. mdrv' \in Drivers /\ mdrv'.pc = 2 /\ mdrv'.gen = mdrv.gen /\ mdrv'.size = mdrv.size /\ mdrv'.isr = mdrv.isr
  BY <1>1, <1>3 DEF Drivers
<1>7. NewRing \in VRings /\ NewRing.avail = 0 /\ NewRing.used = 0 /\ NewRing.seen = 0 /\ NewQueue(k).last = 0
  BY DEF NewRing, VRings, NewQueue
<1>8. /\ vring' = [q \in Slots(dev'.kind) |-> NewRing]
      /\ \A q \in Slots(dev'.kind) : vring'[q] = NewRing /\ dev'.queues[q] = NewQueue(k)
  BY <1>3, <1>4, <1>5
<1>9. MmioTypes'
  <2>1. 2 \in 1..LastStep(k) + 1
    BY DEF LastStep
  <2> QED BY <1>1, <1>4, <1>5, <1>6, <1>7, <1>8, <2>1 DEF MmioTypes
<1>10. Positioned'
  BY <1>7, <1>8 DEF Positioned
<1>11. Blank'
  BY <1>8 DEF Blank
<1>12. Raising'
  <2>1. mdrv'.isr = "idle"
    BY <1>1, <1>6 DEF Raising
  <2>2. ~Unseen'
    BY <1>7, <1>8 DEF Unseen
  <2> QED BY <2>1, <2>2 DEF Raising
<1>13. Registers(dev', mdrv')
  <2>1. LastStep(k) \in {22, 31}
    BY DEF LastStep
  <2>2. StatusIs(k, mdrv') = {}
    BY <1>6, <2>1 DEF StatusIs
  <2>3. Zero.lo = 0 /\ Zero.hi = 0
    BY DEF Zero
  <2> HIDE DEF StatusIs
  <2> QED BY <1>5, <1>6, <2>2, <2>3 DEF Registers
<1>14. ASSUME NEW q \in Slots(k) PROVE QueueIs(NewQueue(k), k, q, mdrv')
  <2>1. q \in Nat
    BY <1>14 DEF Slots, Kinds, Nets
  <2>2. PICK b \in Nat : b = 13 + 9 * q
    <3>1. 13 + 9 * q \in Nat
      BY <2>1
    <3> QED BY <3>1
  <2>3. ~(2 > b + 1) /\ ~(2 > b + 2) /\ ~(2 > b + 3) /\ ~(2 > b + 4) /\ ~(2 > b + 5) /\ ~(2 > b + 6)
        /\ ~(2 > b + 7) /\ ~(2 > b + 8)
    BY <2>1, <2>2
  <2>4. /\ NewQueue(k).size = NumMax(k) /\ NewQueue(k).ready = FALSE
        /\ NewQueue(k).desc = Zero /\ NewQueue(k).driver = Zero /\ NewQueue(k).device = Zero
        /\ Zero.lo = 0 /\ Zero.hi = 0
    BY DEF NewQueue, Zero
  <2> QED BY <1>6, <2>2, <2>3, <2>4 DEF QueueIs
<1>15. Settings(dev', mdrv')
  BY <1>5, <1>13, <1>14 DEF Settings
<1> QED BY <1>9, <1>10, <1>11, <1>12, <1>15 DEF RegInv

\* Each access of a queue's set-up writes one of its fields.
LEMMA FieldWritten ==
  ASSUME NEW k \in Kinds, NEW m, NEW m2, Later(m, m2), NEW q \in InUse(k), NEW Q \in Queues,
         QueueIs(Q, k, q, m), m.size \in Nat, m.gen \in Nat
  PROVE  LET b == 13 + 9 * q IN
         /\ m.pc = b + 1 => QueueIs([Q EXCEPT !.size = m.size], k, q, m2)
         /\ m.pc = b + 2 => QueueIs([Q EXCEPT !.desc.lo = m.gen], k, q, m2)
         /\ m.pc = b + 3 => QueueIs([Q EXCEPT !.desc.hi = m.gen], k, q, m2)
         /\ m.pc = b + 4 => QueueIs([Q EXCEPT !.driver.lo = m.gen], k, q, m2)
         /\ m.pc = b + 5 => QueueIs([Q EXCEPT !.driver.hi = m.gen], k, q, m2)
         /\ m.pc = b + 6 => QueueIs([Q EXCEPT !.device.lo = m.gen], k, q, m2)
         /\ m.pc = b + 7 => QueueIs([Q EXCEPT !.device.hi = m.gen], k, q, m2)
         /\ m.pc = b + 8 => QueueIs([Q EXCEPT !.ready = GoodSize(k, m.size)], k, q, m2)
<1>1. q \in Nat
  BY DEF InUse
<1>2. 13 + 9 * q \in Nat /\ m.pc \in Nat /\ m2.pc = m.pc + 1
  BY <1>1 DEF Later
<1>3. PICK b \in Nat, p \in Nat : b = 13 + 9 * q /\ p = m.pc /\ m2.pc = p + 1
  BY <1>2
<1>4. GoodSize(k, m2.size) = GoodSize(k, m.size) /\ m2.size = m.size /\ m2.gen = m.gen
      /\ GoodSize(k, m.size) \in BOOLEAN
  BY DEF Later, GoodSize
<1>5. /\ Q.desc \in Halves /\ Q.driver \in Halves /\ Q.device \in Halves
  BY DEF Queues
<1> HIDE DEF GoodSize
<1>6. ASSUME p = b + 1 PROVE QueueIs([Q EXCEPT !.size = m.size], k, q, m2)
  BY <1>3, <1>4, <1>5, <1>6 DEF QueueIs, Queues, Halves
<1>7. ASSUME p = b + 2 PROVE QueueIs([Q EXCEPT !.desc.lo = m.gen], k, q, m2)
  BY <1>3, <1>4, <1>5, <1>7 DEF QueueIs, Queues, Halves
<1>8. ASSUME p = b + 3 PROVE QueueIs([Q EXCEPT !.desc.hi = m.gen], k, q, m2)
  BY <1>3, <1>4, <1>5, <1>8 DEF QueueIs, Queues, Halves
<1>9. ASSUME p = b + 4 PROVE QueueIs([Q EXCEPT !.driver.lo = m.gen], k, q, m2)
  BY <1>3, <1>4, <1>5, <1>9 DEF QueueIs, Queues, Halves
<1>10. ASSUME p = b + 5 PROVE QueueIs([Q EXCEPT !.driver.hi = m.gen], k, q, m2)
  BY <1>3, <1>4, <1>5, <1>10 DEF QueueIs, Queues, Halves
<1>11. ASSUME p = b + 6 PROVE QueueIs([Q EXCEPT !.device.lo = m.gen], k, q, m2)
  BY <1>3, <1>4, <1>5, <1>11 DEF QueueIs, Queues, Halves
<1>12. ASSUME p = b + 7 PROVE QueueIs([Q EXCEPT !.device.hi = m.gen], k, q, m2)
  BY <1>3, <1>4, <1>5, <1>12 DEF QueueIs, Queues, Halves
<1>13. ASSUME p = b + 8 PROVE QueueIs([Q EXCEPT !.ready = GoodSize(k, m.size)], k, q, m2)
  BY <1>3, <1>4, <1>5, <1>13 DEF QueueIs, Queues, Halves
<1> QED BY <1>3, <1>6, <1>7, <1>8, <1>9, <1>10, <1>11, <1>12, <1>13

\* What every step of a queue's set-up starts from.
LEMMA AtQueue ==
  ASSUME RegInv, ProbeStep, NEW q \in InUse(dev.kind), NEW i \in 0..8, mdrv.pc = 13 + 9 * q + i
  PROVE  /\ MmioTypes /\ Registers(dev, mdrv) /\ mdrv.gen > 0 /\ dev \in Devs(dev.kind) /\ dev.kind \in Kinds
         /\ mdrv \in Drivers /\ mdrv.pc > 12 /\ mdrv.pc \in 1..LastStep(dev.kind)
         /\ q \in Slots(dev.kind) /\ QueueIs(dev.queues[q], dev.kind, q, mdrv) /\ dev.queues[q] \in Queues
         /\ mdrv.size \in 1..NumMax(dev.kind)
         /\ Performs(SetUp(q, mdrv.size, mdrv.gen)[i + 1])
         /\ i > 0 => dev.qsel = q
         /\ q = 0 \/ (q = 1 /\ dev.kind \in Nets)
<1>1. MmioTypes
  BY DEF RegInv
<1>2. mdrv.gen > 0 /\ mdrv.pc \in 1..LastStep(dev.kind)
  BY <1>1, StepAt
<1>3. q = 0 \/ (q = 1 /\ dev.kind \in Nets)
  BY DEF InUse
<1>4. mdrv.pc > 12 /\ mdrv.pc > 1
  BY <1>3
<1>5. Registers(dev, mdrv) /\ \A x \in Slots(dev.kind) : QueueIs(dev.queues[x], dev.kind, x, mdrv)
  BY <1>2, <1>4 DEF RegInv, Settings
<1>6. dev \in Devs(dev.kind) /\ dev.kind \in Kinds /\ mdrv \in Drivers /\ mdrv.size \in 1..NumMax(dev.kind)
  BY <1>1, <1>2 DEF MmioTypes
<1>7. q \in Slots(dev.kind)
  BY <1>3, <1>6 DEF Slots, Kinds, Nets
<1>8. Performs(SetUp(q, mdrv.size, mdrv.gen)[i + 1])
  <2>1. PICK j \in 1..9 : j = i + 1 /\ mdrv.pc = 12 + 9 * q + j
    <3>1. i + 1 \in 1..9 /\ mdrv.pc = 12 + 9 * q + (i + 1)
      BY <1>3
    <3> QED BY <3>1
  <2>2. Performs(SetUp(q, mdrv.size, mdrv.gen)[j])
    BY <1>1, <2>1, StepAt
  <2> QED BY <2>1, <2>2
<1>9. i > 0 => dev.qsel = q
  <2> SUFFICES ASSUME i > 0 PROVE dev.qsel = q
    OBVIOUS
  <2>1. CASE q = 0
    <3>1. ~(mdrv.pc > 22)
      BY <2>1
    <3> QED BY <1>5, <2>1, <3>1 DEF Registers
  <2>2. CASE q = 1 /\ dev.kind \in Nets
    <3>1. mdrv.pc > 22
      BY <2>2
    <3> QED BY <1>5, <2>2, <3>1 DEF Registers
  <2> QED BY <1>3, <2>1, <2>2
<1>10. dev.queues[q] \in Queues
  BY <1>6, <1>7 DEF Devs
<1> QED BY <1>1, <1>2, <1>3, <1>4, <1>5, <1>6, <1>7, <1>8, <1>9, <1>10

\* A write to one queue leaves the others alone.
LEMMA QueueChange ==
  ASSUME RegInv, ProbeStep, NEW q \in InUse(dev.kind), NEW i \in 1..8, mdrv.pc = 13 + 9 * q + i,
         Moves, NEW Q \in Queues, QueueIs(Q, dev.kind, q, mdrv'), Q.last = dev.queues[q].last,
         dev' \in Devs(dev.kind), dev'.queues = [dev.queues EXCEPT ![q] = Q], Registers(dev', mdrv')
  PROVE  RegInv'
<1>1. /\ MmioTypes /\ dev \in Devs(dev.kind) /\ dev.kind \in Kinds /\ mdrv.gen > 0
      /\ mdrv.pc > 12 /\ q \in Slots(dev.kind) /\ (q = 0 \/ (q = 1 /\ dev.kind \in Nets))
  <2>1. i \in 0..8
    OBVIOUS
  <2> QED BY <2>1, AtQueue
<1>2. dev.queues \in [Slots(dev.kind) -> Queues]
  BY <1>1 DEF Devs
<1>3. mdrv.pc > 1
  BY <1>1 DEF MmioTypes, Drivers
<1>4. \A x \in Slots(dev.kind) : dev'.queues[x] = IF x = q THEN Q ELSE dev.queues[x]
  BY <1>2
<1>5. (MmioTypes /\ Positioned /\ Blank /\ Raising)' /\ dev'.kind = dev.kind
  BY <1>1, <1>3, <1>4, StepKeeps
<1>6. ASSUME NEW x \in Slots(dev.kind) PROVE QueueIs(dev'.queues[x], dev.kind, x, mdrv')
  <2>1. CASE x = q
    BY <1>4, <2>1
  <2>2. CASE x # q
    <3>1. QueueIs(dev.queues[x], dev.kind, x, mdrv)
      BY <1>1, <1>3 DEF RegInv, Settings
    <3>2. x \in InUse(dev.kind) => mdrv.pc < 13 + 9 * x \/ mdrv.pc = 13 + 9 * x \/ mdrv.pc > 13 + 9 * x + 8
      BY <1>1, <2>2 DEF InUse
    <3>3. QueueIs(dev.queues[x], dev.kind, x, mdrv')
      BY <1>1, <3>1, <3>2, QueueStays DEF Moves
    <3> QED BY <1>4, <2>2, <3>3
  <2> QED BY <2>1, <2>2
<1>7. Settings(dev', mdrv')
  BY <1>5, <1>6 DEF Settings
<1> QED BY <1>5, <1>7 DEF RegInv

\* Registers that a queue's set-up does not write.
LEMMA SharedStay ==
  ASSUME RegInv, ProbeStep, NEW q \in InUse(dev.kind), NEW i \in 0..8, mdrv.pc = 13 + 9 * q + i,
         mdrv' = [mdrv EXCEPT !.pc = mdrv.pc + 1], dev'.kind = dev.kind,
         dev'.dsel = dev.dsel, dev'.fsel = dev.fsel, dev'.drv = dev.drv, dev'.qsel = q,
         dev'.status = StatusIs(dev.kind, mdrv')
  PROVE  Registers(dev', mdrv')
<1>1. /\ Registers(dev, mdrv) /\ mdrv \in Drivers /\ (q = 0 \/ (q = 1 /\ dev.kind \in Nets))
  BY AtQueue
<1>2. PICK p \in Nat : p = mdrv.pc /\ mdrv'.pc = p + 1 /\ mdrv'.offer = mdrv.offer
  BY <1>1 DEF Drivers
<1>3. p \in 13..30 /\ (q = 0 => p <= 21) /\ (q = 1 => p >= 22)
  BY <1>1, <1>2
<1> HIDE DEF StatusIs
<1>4. dev'.qsel = IF mdrv'.pc > 22 /\ dev'.kind \in Nets THEN 1 ELSE 0
  BY <1>1, <1>2, <1>3
<1> QED BY <1>1, <1>2, <1>3, <1>4 DEF Registers

\* The status changes only when a queue is found unusable.
LEMMA QueueStatus ==
  ASSUME RegInv, ProbeStep, NEW q \in InUse(dev.kind), NEW i \in 0..8, mdrv.pc = 13 + 9 * q + i,
         mdrv' = [mdrv EXCEPT !.pc = mdrv.pc + 1]
  PROVE  StatusIs(dev.kind, mdrv') =
           dev.status \cup (IF i = 8 /\ ~GoodSize(dev.kind, mdrv.size) THEN {"needsReset"} ELSE {})
<1>1. /\ Registers(dev, mdrv) /\ mdrv \in Drivers /\ (q = 0 \/ (q = 1 /\ dev.kind \in Nets))
  BY AtQueue
<1>2. Later(mdrv, mdrv')
  BY <1>1 DEF Drivers, Later
<1>3. StatusIs(dev.kind, mdrv) = dev.status
  BY <1>1 DEF Registers
<1>4. mdrv.pc \notin {2, 3, 12} /\ mdrv.pc # LastStep(dev.kind)
  BY <1>1 DEF LastStep
<1>5. CASE q = 0 /\ i = 8
  <2>1. mdrv.pc = 21
    BY <1>5
  <2>2. StatusIs(dev.kind, mdrv') = StatusIs(dev.kind, mdrv) \cup
                                      (IF GoodSize(dev.kind, mdrv.size) THEN {} ELSE {"needsReset"})
    BY <1>2, <2>1, StatusSteps
  <2> HIDE DEF GoodSize, StatusIs
  <2> QED BY <1>3, <1>5, <2>2
<1>6. CASE ~(q = 0 /\ i = 8)
  <2>1. mdrv.pc # 21
    BY <1>1, <1>6
  <2>2. StatusIs(dev.kind, mdrv') = StatusIs(dev.kind, mdrv)
    BY <1>2, <1>4, <2>1, StatusSteps
  <2>3. i = 8 /\ ~GoodSize(dev.kind, mdrv.size) => "needsReset" \in StatusIs(dev.kind, mdrv)
    <3>1. i = 8 => mdrv.pc > 21
      BY <1>1, <1>6
    <3> HIDE DEF GoodSize
    <3> QED BY <3>1 DEF StatusIs
  <2> HIDE DEF GoodSize, StatusIs
  <2> QED BY <1>3, <2>2, <2>3
<1> QED BY <1>5, <1>6

\* The driver selects the queue.
LEMMA SelectStep ==
  ASSUME RegInv, ProbeStep, NEW q \in InUse(dev.kind), mdrv.pc = 13 + 9 * q
  PROVE  RegInv'
<1>0. 0 \in 0..8 /\ mdrv.pc = 13 + 9 * q + 0
  BY DEF InUse
<1>1. /\ MmioTypes /\ Registers(dev, mdrv) /\ mdrv.gen > 0 /\ dev \in Devs(dev.kind) /\ dev.kind \in Kinds
      /\ mdrv \in Drivers /\ mdrv.pc > 12 /\ q \in Slots(dev.kind) /\ (q = 0 \/ (q = 1 /\ dev.kind \in Nets))
      /\ Performs(SetUp(q, mdrv.size, mdrv.gen)[1])
  <2>1. Performs(SetUp(q, mdrv.size, mdrv.gen)[0 + 1])
    BY <1>0, AtQueue
  <2>2. SetUp(q, mdrv.size, mdrv.gen)[0 + 1] = SetUp(q, mdrv.size, mdrv.gen)[1]
    OBVIOUS
  <2> QED BY <1>0, <2>1, <2>2, AtQueue
<1>2. Performs(Wr("QueueSel", "", q))
  <2>1. SetUp(q, mdrv.size, mdrv.gen)[1] = Wr("QueueSel", "", q)
    BY DEF SetUp
  <2> QED BY <1>1, <2>1
<1>3. /\ mdrv' = [mdrv EXCEPT !.pc = mdrv.pc + 1] /\ vring' = vring
      /\ dev' = MmioWriteReg(dev, "QueueSel", "", q)
  BY <1>1, <1>2, StepEffects
<1>4. dev.qsel \in InUse(dev.kind)
  BY <1>1 DEF Registers, InUse
<1>5. dev' = [dev EXCEPT !.qsel = q]
  BY <1>1, <1>3, <1>4, QueueWrites
<1>6. /\ dev' \in Devs(dev.kind) /\ dev'.kind = dev.kind /\ dev'.queues = dev.queues /\ dev'.status = dev.status
      /\ dev'.qsel = q /\ dev'.drv = dev.drv /\ dev'.dsel = dev.dsel /\ dev'.fsel = dev.fsel
  BY <1>1, <1>5 DEF Devs
<1>7. StatusIs(dev.kind, mdrv') = dev.status
  <2>1. StatusIs(dev.kind, mdrv') =
          dev.status \cup (IF 0 = 8 /\ ~GoodSize(dev.kind, mdrv.size) THEN {"needsReset"} ELSE {})
    BY <1>0, <1>3, QueueStatus
  <2> HIDE DEF StatusIs, GoodSize
  <2> QED BY <2>1
<1>8. Registers(dev', mdrv')
  BY <1>0, <1>3, <1>6, <1>7, SharedStay
<1>9. Moves /\ Later(mdrv, mdrv') /\ mdrv.pc > 1
  <2>1. Moves
    BY <1>1, <1>3, MovesOn
  <2>2. mdrv.pc \in Nat
    BY <1>1 DEF Drivers
  <2>3. mdrv.pc > 1
    BY <1>1, <2>2
  <2> QED BY <2>1, <2>3 DEF Moves
<1>10. (MmioTypes /\ Positioned /\ Blank /\ Raising)'
  BY <1>1, <1>6, <1>9, StepKeeps
<1>11. Settings(dev', mdrv')
  <2>1. mdrv.pc = 13 \/ mdrv.pc = 22
    BY <1>1
  <2> QED BY <1>1, <1>6, <1>8, <1>9, <2>1, PlainStep
<1> QED BY <1>10, <1>11 DEF RegInv

\* A field of the queue is written, and nothing else.
LEMMA OneField ==
  ASSUME RegInv, ProbeStep, NEW q \in InUse(dev.kind), NEW i \in 1..7, mdrv.pc = 13 + 9 * q + i,
         mdrv' = [mdrv EXCEPT !.pc = mdrv.pc + 1], vring' = vring,
         NEW Q \in Queues, QueueIs(Q, dev.kind, q, mdrv'), Q.last = dev.queues[q].last,
         dev' = [dev EXCEPT !.queues[q] = Q]
  PROVE  RegInv'
<1>0. i \in 0..8 /\ i \in 1..8 /\ i > 0 /\ i # 8
  OBVIOUS
<1>1. /\ MmioTypes /\ dev \in Devs(dev.kind) /\ dev.kind \in Kinds /\ mdrv \in Drivers
      /\ dev.qsel = q /\ q \in Slots(dev.kind)
  BY <1>0, AtQueue
<1>2. /\ dev'.kind = dev.kind /\ dev'.queues = [dev.queues EXCEPT ![q] = Q] /\ dev'.status = dev.status
      /\ dev'.qsel = q /\ dev'.drv = dev.drv /\ dev'.dsel = dev.dsel /\ dev'.fsel = dev.fsel
      /\ dev' \in Devs(dev.kind)
  BY <1>1 DEF Devs
<1>3. StatusIs(dev.kind, mdrv') = dev.status
  <2>1. StatusIs(dev.kind, mdrv') =
          dev.status \cup (IF i = 8 /\ ~GoodSize(dev.kind, mdrv.size) THEN {"needsReset"} ELSE {})
    BY <1>0, QueueStatus
  <2> HIDE DEF StatusIs, GoodSize
  <2> QED BY <1>0, <2>1
<1>4. Registers(dev', mdrv')
  BY <1>0, <1>2, <1>3, SharedStay
<1>5. Moves
  BY <1>1, MovesOn
<1> QED BY <1>0, <1>2, <1>4, <1>5, QueueChange

\* The size and the addresses.
LEMMA FieldStep ==
  ASSUME MmioAssumption, RegInv, ProbeStep, NEW q \in InUse(dev.kind), NEW i \in 1..7, mdrv.pc = 13 + 9 * q + i
  PROVE  RegInv'
<1>0. i \in 0..8 /\ i > 0
  OBVIOUS
<1>1. /\ MmioTypes /\ dev \in Devs(dev.kind) /\ dev.kind \in Kinds /\ mdrv \in Drivers
      /\ dev.qsel = q /\ q \in Slots(dev.kind) /\ q \in InUse(dev.kind)
      /\ QueueIs(dev.queues[q], dev.kind, q, mdrv) /\ dev.queues[q] \in Queues
      /\ mdrv.size \in 1..NumMax(dev.kind)
      /\ Performs(SetUp(q, mdrv.size, mdrv.gen)[i + 1])
  BY <1>0, AtQueue
<1>2. PICK k, m, n, g, Q : /\ k = dev.kind /\ m = mdrv /\ n = mdrv.size /\ g = mdrv.gen /\ Q = dev.queues[q]
                           /\ n \in Nat /\ g \in Nat /\ Q \in Queues /\ k \in Kinds
  <2>1. NumMax(dev.kind) \in Nat
    BY <1>1, FreshType
  <2>2. mdrv.size \in Nat /\ mdrv.gen \in Nat
    BY <1>1, <2>1 DEF Drivers
  <2> QED BY <1>1, <2>2
<1>3. PICK S : S = SetUp(q, n, g) /\ Performs(S[i + 1])
  BY <1>1, <1>2
<1>4. /\ S[2] = Wr("QueueNum", "", n)
      /\ S[3] = Wr("desc", "lo", g) /\ S[4] = Wr("desc", "hi", g)
      /\ S[5] = Wr("driver", "lo", g) /\ S[6] = Wr("driver", "hi", g)
      /\ S[7] = Wr("device", "lo", g) /\ S[8] = Wr("device", "hi", g)
  BY <1>3 DEF SetUp
<1>5. PICK m2 : m2 = [mdrv EXCEPT !.pc = mdrv.pc + 1] /\ Later(m, m2)
  <2>1. Later(mdrv, [mdrv EXCEPT !.pc = mdrv.pc + 1])
    BY <1>1 DEF Later, Drivers
  <2> QED BY <1>2, <2>1
<1>6. m.pc = 13 + 9 * q + i /\ QueueIs(Q, k, q, m) /\ q \in InUse(k) /\ m.size = n /\ m.gen = g
  BY <1>1, <1>2
<1>7. /\ i = 1 => QueueIs([Q EXCEPT !.size = n], k, q, m2)
      /\ i = 2 => QueueIs([Q EXCEPT !.desc.lo = g], k, q, m2)
      /\ i = 3 => QueueIs([Q EXCEPT !.desc.hi = g], k, q, m2)
      /\ i = 4 => QueueIs([Q EXCEPT !.driver.lo = g], k, q, m2)
      /\ i = 5 => QueueIs([Q EXCEPT !.driver.hi = g], k, q, m2)
      /\ i = 6 => QueueIs([Q EXCEPT !.device.lo = g], k, q, m2)
      /\ i = 7 => QueueIs([Q EXCEPT !.device.hi = g], k, q, m2)
  <2>1. /\ m.pc = 13 + 9 * q + 1 => QueueIs([Q EXCEPT !.size = m.size], k, q, m2)
        /\ m.pc = 13 + 9 * q + 2 => QueueIs([Q EXCEPT !.desc.lo = m.gen], k, q, m2)
        /\ m.pc = 13 + 9 * q + 3 => QueueIs([Q EXCEPT !.desc.hi = m.gen], k, q, m2)
        /\ m.pc = 13 + 9 * q + 4 => QueueIs([Q EXCEPT !.driver.lo = m.gen], k, q, m2)
        /\ m.pc = 13 + 9 * q + 5 => QueueIs([Q EXCEPT !.driver.hi = m.gen], k, q, m2)
        /\ m.pc = 13 + 9 * q + 6 => QueueIs([Q EXCEPT !.device.lo = m.gen], k, q, m2)
        /\ m.pc = 13 + 9 * q + 7 => QueueIs([Q EXCEPT !.device.hi = m.gen], k, q, m2)
    BY <1>2, <1>5, <1>6, FieldWritten
  <2> QED BY <1>6, <2>1
<1>8. ASSUME NEW Q2 \in Queues, QueueIs(Q2, k, q, m2), Q2.last = Q.last,
             mdrv' = [mdrv EXCEPT !.pc = mdrv.pc + 1], vring' = vring, dev' = [dev EXCEPT !.queues[q] = Q2]
      PROVE  RegInv'
  <2>1. QueueIs(Q2, dev.kind, q, mdrv')
    BY <1>2, <1>5, <1>8
  <2>2. Q2.last = dev.queues[q].last
    BY <1>2, <1>8
  <2> QED BY <1>8, <2>1, <2>2, OneField
<1>9. Q.desc \in Halves /\ Q.driver \in Halves /\ Q.device \in Halves
  BY <1>2 DEF Queues
<1>10. CASE i = 1
  <2>1. Performs(Wr("QueueNum", "", n))
    <3>1. i + 1 = 2
      BY <1>10
    <3>2. Performs(S[2])
      BY <1>3, <3>1
    <3> QED BY <1>4, <3>2
  <2>2. /\ mdrv' = [mdrv EXCEPT !.pc = mdrv.pc + 1] /\ vring' = vring
        /\ dev' = MmioWriteReg(dev, "QueueNum", "", n)
    BY <1>1, <2>1, StepEffects
  <2>3. dev' = [dev EXCEPT !.queues[dev.qsel].size = n]
    BY <1>1, <1>2, <2>2, QueueWrites
  <2>4. PICK Q2 : Q2 = [Q EXCEPT !.size = n]
    OBVIOUS
  <2>5. Q2 \in Queues /\ Q2.last = Q.last
    BY <1>2, <2>4 DEF Queues
  <2>6. dev' = [dev EXCEPT !.queues[q] = Q2]
    BY <1>1, <1>2, <2>3, <2>4
  <2> QED BY <1>7, <1>8, <1>10, <2>2, <2>4, <2>5, <2>6
<1>11. CASE i = 2
  <2>1. Performs(Wr("desc", "lo", g))
    <3>1. i + 1 = 3
      BY <1>11
    <3>2. Performs(S[3])
      BY <1>3, <3>1
    <3> QED BY <1>4, <3>2
  <2>2. /\ mdrv' = [mdrv EXCEPT !.pc = mdrv.pc + 1] /\ vring' = vring
        /\ dev' = [dev EXCEPT !.queues[dev.qsel]["desc"]["lo"] = g]
    BY <1>1, <2>1, StepEffects DEF Rings
  <2>4. PICK Q2 : Q2 = [Q EXCEPT !.desc.lo = g]
    OBVIOUS
  <2>5. Q2 \in Queues /\ Q2.last = Q.last
    BY <1>2, <1>9, <2>4 DEF Queues, Halves
  <2>6. dev' = [dev EXCEPT !.queues[q] = Q2]
    BY <1>1, <1>2, <2>2, <2>4
  <2> QED BY <1>7, <1>8, <1>11, <2>2, <2>4, <2>5, <2>6
<1>12. CASE i = 3
  <2>1. Performs(Wr("desc", "hi", g))
    <3>1. i + 1 = 4
      BY <1>12
    <3>2. Performs(S[4])
      BY <1>3, <3>1
    <3> QED BY <1>4, <3>2
  <2>2. /\ mdrv' = [mdrv EXCEPT !.pc = mdrv.pc + 1] /\ vring' = vring
        /\ dev' = [dev EXCEPT !.queues[dev.qsel]["desc"]["hi"] = g]
    BY <1>1, <2>1, StepEffects DEF Rings
  <2>4. PICK Q2 : Q2 = [Q EXCEPT !.desc.hi = g]
    OBVIOUS
  <2>5. Q2 \in Queues /\ Q2.last = Q.last
    BY <1>2, <1>9, <2>4 DEF Queues, Halves
  <2>6. dev' = [dev EXCEPT !.queues[q] = Q2]
    BY <1>1, <1>2, <2>2, <2>4
  <2> QED BY <1>7, <1>8, <1>12, <2>2, <2>4, <2>5, <2>6
<1>13. CASE i = 4
  <2>1. Performs(Wr("driver", "lo", g))
    <3>1. i + 1 = 5
      BY <1>13
    <3>2. Performs(S[5])
      BY <1>3, <3>1
    <3> QED BY <1>4, <3>2
  <2>2. /\ mdrv' = [mdrv EXCEPT !.pc = mdrv.pc + 1] /\ vring' = vring
        /\ dev' = [dev EXCEPT !.queues[dev.qsel]["driver"]["lo"] = g]
    BY <1>1, <2>1, StepEffects DEF Rings
  <2>4. PICK Q2 : Q2 = [Q EXCEPT !.driver.lo = g]
    OBVIOUS
  <2>5. Q2 \in Queues /\ Q2.last = Q.last
    BY <1>2, <1>9, <2>4 DEF Queues, Halves
  <2>6. dev' = [dev EXCEPT !.queues[q] = Q2]
    BY <1>1, <1>2, <2>2, <2>4
  <2> QED BY <1>7, <1>8, <1>13, <2>2, <2>4, <2>5, <2>6
<1>14. CASE i = 5
  <2>1. Performs(Wr("driver", "hi", g))
    <3>1. i + 1 = 6
      BY <1>14
    <3>2. Performs(S[6])
      BY <1>3, <3>1
    <3> QED BY <1>4, <3>2
  <2>2. /\ mdrv' = [mdrv EXCEPT !.pc = mdrv.pc + 1] /\ vring' = vring
        /\ dev' = [dev EXCEPT !.queues[dev.qsel]["driver"]["hi"] = g]
    BY <1>1, <2>1, StepEffects DEF Rings
  <2>4. PICK Q2 : Q2 = [Q EXCEPT !.driver.hi = g]
    OBVIOUS
  <2>5. Q2 \in Queues /\ Q2.last = Q.last
    BY <1>2, <1>9, <2>4 DEF Queues, Halves
  <2>6. dev' = [dev EXCEPT !.queues[q] = Q2]
    BY <1>1, <1>2, <2>2, <2>4
  <2> QED BY <1>7, <1>8, <1>14, <2>2, <2>4, <2>5, <2>6
<1>15. CASE i = 6
  <2>1. Performs(Wr("device", "lo", g))
    <3>1. i + 1 = 7
      BY <1>15
    <3>2. Performs(S[7])
      BY <1>3, <3>1
    <3> QED BY <1>4, <3>2
  <2>2. /\ mdrv' = [mdrv EXCEPT !.pc = mdrv.pc + 1] /\ vring' = vring
        /\ dev' = [dev EXCEPT !.queues[dev.qsel]["device"]["lo"] = g]
    BY <1>1, <2>1, StepEffects DEF Rings
  <2>4. PICK Q2 : Q2 = [Q EXCEPT !.device.lo = g]
    OBVIOUS
  <2>5. Q2 \in Queues /\ Q2.last = Q.last
    BY <1>2, <1>9, <2>4 DEF Queues, Halves
  <2>6. dev' = [dev EXCEPT !.queues[q] = Q2]
    BY <1>1, <1>2, <2>2, <2>4
  <2> QED BY <1>7, <1>8, <1>15, <2>2, <2>4, <2>5, <2>6
<1>16. CASE i = 7
  <2>1. Performs(Wr("device", "hi", g))
    <3>1. i + 1 = 8
      BY <1>16
    <3>2. Performs(S[8])
      BY <1>3, <3>1
    <3> QED BY <1>4, <3>2
  <2>2. /\ mdrv' = [mdrv EXCEPT !.pc = mdrv.pc + 1] /\ vring' = vring
        /\ dev' = [dev EXCEPT !.queues[dev.qsel]["device"]["hi"] = g]
    BY <1>1, <2>1, StepEffects DEF Rings
  <2>4. PICK Q2 : Q2 = [Q EXCEPT !.device.hi = g]
    OBVIOUS
  <2>5. Q2 \in Queues /\ Q2.last = Q.last
    BY <1>2, <1>9, <2>4 DEF Queues, Halves
  <2>6. dev' = [dev EXCEPT !.queues[q] = Q2]
    BY <1>1, <1>2, <2>2, <2>4
  <2> QED BY <1>7, <1>8, <1>16, <2>2, <2>4, <2>5, <2>6
<1> QED BY <1>10, <1>11, <1>12, <1>13, <1>14, <1>15, <1>16

\* The queue is marked ready, or refused.
LEMMA ReadyStep ==
  ASSUME MmioAssumption, RegInv, ProbeStep, NEW q \in InUse(dev.kind), mdrv.pc = 13 + 9 * q + 8
  PROVE  RegInv'
<1>0. 8 \in 0..8 /\ 8 \in 1..8 /\ 8 > 0
  OBVIOUS
<1>1. /\ MmioTypes /\ Registers(dev, mdrv) /\ dev \in Devs(dev.kind) /\ dev.kind \in Kinds /\ mdrv \in Drivers
      /\ dev.qsel = q /\ q \in Slots(dev.kind) /\ q \in InUse(dev.kind)
      /\ QueueIs(dev.queues[q], dev.kind, q, mdrv) /\ dev.queues[q] \in Queues
      /\ mdrv.size \in 1..NumMax(dev.kind)
      /\ Performs(SetUp(q, mdrv.size, mdrv.gen)[8 + 1])
  BY <1>0, AtQueue
<1>2. Performs(Wr("QueueReady", "", 1))
  <2>1. SetUp(q, mdrv.size, mdrv.gen)[8 + 1] = Wr("QueueReady", "", 1)
    BY DEF SetUp
  <2> QED BY <1>1, <2>1
<1>3. /\ mdrv' = [mdrv EXCEPT !.pc = mdrv.pc + 1] /\ vring' = vring
      /\ dev' = MmioWriteReg(dev, "QueueReady", "", 1)
  BY <1>1, <1>2, StepEffects
<1>4. dev' = IF dev.kind \in {"hvfBlk", "hvfNet"} THEN ReadyIfValid(dev, 1) ELSE Ready(dev, 1)
  BY <1>1, <1>3, QueueWrites
<1>5. PICK Q, good : /\ Q = dev.queues[q] /\ good = GoodSize(dev.kind, mdrv.size) /\ good \in BOOLEAN
                     /\ Q \in Queues
  BY <1>1 DEF GoodSize
<1>6. Q.size = mdrv.size
  <2>1. q \in Nat
    BY DEF InUse
  <2>2. mdrv.pc > 13 + 9 * q + 1
    BY <2>1
  <2> QED BY <1>1, <1>5, <2>2 DEF QueueIs
<1>7. PICK Q2 : Q2 = [Q EXCEPT !.ready = good]
  OBVIOUS
<1>8. Q2 \in Queues /\ Q2.last = Q.last
  BY <1>5, <1>7 DEF Queues
<1>9. dev' = [dev EXCEPT !.queues[q] = Q2,
                         !.status = dev.status \cup (IF good THEN {} ELSE {"needsReset"})]
  <2>0. Ready(dev, 1) = [dev EXCEPT !.queues[q].ready = TRUE]
    <3>1. (1 # 0) = TRUE
      OBVIOUS
    <3> QED BY <1>1, <3>1 DEF Ready
  <2>1. CASE dev.kind \notin {"hvfBlk", "hvfNet"}
    <3>1. good
      BY <1>5, <2>1 DEF GoodSize
    <3>2. dev' = [dev EXCEPT !.queues[q].ready = TRUE]
      BY <1>4, <2>0, <2>1
    <3>3. dev' = [dev EXCEPT !.queues[q] = Q2]
      BY <1>5, <1>7, <3>1, <3>2
    <3>4. dev.status \cup (IF good THEN {} ELSE {"needsReset"}) = dev.status
      BY <3>1
    <3> QED BY <1>1, <3>3, <3>4 DEF Devs
  <2>2. CASE dev.kind \in {"hvfBlk", "hvfNet"}
    <3>1. good = IsPowerOfTwo(mdrv.size)
      BY <1>5, <2>2 DEF GoodSize, IsPowerOfTwo
    <3>2. mdrv.size <= kMaxQueueSize
      <4>1. NumMax(dev.kind) = kMaxQueueSize /\ kMaxQueueSize \in Nat
        BY <2>2 DEF NumMax, MmioAssumption
      <4> QED BY <1>1, <4>1
    <3>3. ValidVirtQueue(dev.queues[dev.qsel]) = good
      BY <1>1, <1>5, <1>6, <3>1, <3>2 DEF ValidVirtQueue, IsPowerOfTwo
    <3>4. CASE good
      <4>1. dev' = Ready(dev, 1)
        BY <1>4, <2>2, <3>3, <3>4 DEF ReadyIfValid
      <4>3. dev' = [dev EXCEPT !.queues[q] = Q2]
        BY <1>5, <1>7, <2>0, <3>4, <4>1
      <4>4. dev.status \cup (IF good THEN {} ELSE {"needsReset"}) = dev.status
        BY <3>4
      <4> QED BY <1>1, <4>3, <4>4 DEF Devs
    <3>5. CASE ~good
      <4>1. dev' = [dev EXCEPT !.queues[dev.qsel].ready = FALSE, !.status = @ \cup {"needsReset"}]
        BY <1>4, <2>2, <3>3, <3>5 DEF ReadyIfValid
      <4> QED BY <1>1, <1>5, <1>7, <3>5, <4>1
    <3> QED BY <1>5, <3>4, <3>5
  <2> QED BY <2>1, <2>2
<1>10. PICK s : s = dev.status \cup (IF good THEN {} ELSE {"needsReset"}) /\ s \in SUBSET Bits
  <2>1. dev.status \in SUBSET Bits
    BY <1>1 DEF Devs
  <2>2. "needsReset" \in Bits
    BY DEF Bits
  <2> QED BY <2>1, <2>2
<1>11. /\ dev'.kind = dev.kind /\ dev'.queues = [dev.queues EXCEPT ![q] = Q2] /\ dev'.status = s
       /\ dev'.qsel = q /\ dev'.drv = dev.drv /\ dev'.dsel = dev.dsel /\ dev'.fsel = dev.fsel
       /\ dev' \in Devs(dev.kind)
  <2>1. dev' = [[dev EXCEPT !.queues[q] = Q2] EXCEPT !.status = s]
    BY <1>9, <1>10
  <2>2. /\ [dev EXCEPT !.queues[q] = Q2] \in Devs(dev.kind)
        /\ [dev EXCEPT !.queues[q] = Q2].queues = [dev.queues EXCEPT ![q] = Q2]
    BY <1>1, <1>8 DEF Devs
  <2> QED BY <1>1, <1>10, <2>1, <2>2 DEF Devs
<1>12. StatusIs(dev.kind, mdrv') = s
  <2>1. StatusIs(dev.kind, mdrv') =
          dev.status \cup (IF 8 = 8 /\ ~GoodSize(dev.kind, mdrv.size) THEN {"needsReset"} ELSE {})
    BY <1>0, <1>3, QueueStatus
  <2> HIDE DEF StatusIs, GoodSize
  <2> QED BY <1>5, <1>10, <2>1
<1>13. Registers(dev', mdrv')
  BY <1>0, <1>3, <1>11, <1>12, SharedStay
<1>14. Moves /\ Later(mdrv, mdrv')
  BY <1>1, <1>3, MovesOn DEF Moves
<1>15. QueueIs(Q2, dev.kind, q, mdrv')
  <2>1. PICK k, m, m2, n : k = dev.kind /\ m = mdrv /\ m2 = mdrv' /\ n = mdrv.size
    OBVIOUS
  <2>2. /\ Later(m, m2) /\ QueueIs(Q, k, q, m) /\ m.size \in Nat /\ m.gen \in Nat /\ q \in InUse(k) /\ k \in Kinds
        /\ m.pc = 13 + 9 * q + 8
    BY <1>1, <1>5, <1>14, <2>1 DEF Drivers
  <2>3. m.pc = 13 + 9 * q + 8 => QueueIs([Q EXCEPT !.ready = GoodSize(k, m.size)], k, q, m2)
    BY <1>5, <2>2, FieldWritten
  <2> HIDE DEF GoodSize
  <2> QED BY <1>5, <1>7, <2>1, <2>2, <2>3
<1> QED BY <1>0, <1>5, <1>8, <1>11, <1>13, <1>14, <1>15, QueueChange

\* Every step of a probe.
LEMMA ProbeStepKeeps == ASSUME MmioAssumption, RegInv, ProbeStep PROVE RegInv'
<1>1. mdrv.pc \in 1..LastStep(dev.kind)
  <2>1. MmioTypes
    BY DEF RegInv
  <2> QED BY <2>1, StepAt
<1>2. CASE mdrv.pc \in 1..12 \/ mdrv.pc = LastStep(dev.kind)
  <2>1. mdrv.pc \in {1, 2, 3, 4, 5, 6, 7, 8, 9, 10, 11, 12, LastStep(dev.kind)}
    BY <1>2
  <2> QED BY <2>1, ProbeReset, StatusStep, SelectorStep, ReadStep, FeatureStep
<1>3. CASE mdrv.pc > 12 /\ mdrv.pc # LastStep(dev.kind)
  <2>1. PICK q \in InUse(dev.kind), i \in 0..8 : mdrv.pc = 13 + 9 * q + i
    <3>1. CASE mdrv.pc \in 13..21
      <4>1. mdrv.pc - 13 \in 0..8 /\ mdrv.pc = 13 + 9 * 0 + (mdrv.pc - 13) /\ 0 \in InUse(dev.kind)
        BY <3>1 DEF InUse
      <4> QED BY <4>1
    <3>2. CASE mdrv.pc \in 22..30 /\ dev.kind \in Nets
      <4>1. mdrv.pc - 22 \in 0..8 /\ mdrv.pc = 13 + 9 * 1 + (mdrv.pc - 22) /\ 1 \in InUse(dev.kind)
        BY <3>2 DEF InUse
      <4> QED BY <4>1
    <3>3. LastStep(dev.kind) = IF dev.kind \in Nets THEN 31 ELSE 22
      BY DEF LastStep
    <3> QED BY <1>1, <1>3, <3>1, <3>2, <3>3
  <2>2. CASE i = 0
    <3>1. mdrv.pc = 13 + 9 * q
      BY <2>1, <2>2 DEF InUse
    <3> QED BY <3>1, SelectStep
  <2>3. CASE i \in 1..7
    BY <2>1, <2>3, FieldStep
  <2>4. CASE i = 8
    BY <2>1, <2>4, ReadyStep
  <2>5. i = 0 \/ i \in 1..7 \/ i = 8
    BY <2>1
  <2> QED BY <2>2, <2>3, <2>4, <2>5
<1>4. LastStep(dev.kind) \in {22, 31}
  BY DEF LastStep
<1> QED BY <1>1, <1>2, <1>3, <1>4

-----------------------------------------------------------------------------
\* A step of the driver's that is not an access changes neither what the device
\* was told nor where it is.
LEMMA SettingsStay ==
  ASSUME NEW d, NEW d2, NEW m, NEW m2, Settings(d, m), d2.kind = d.kind, d2.status = d.status, d2.drv = d.drv,
         d2.dsel = d.dsel, d2.fsel = d.fsel, d2.qsel = d.qsel, m2.pc = m.pc, m2.size = m.size, m2.gen = m.gen,
         m2.offer = m.offer,
         \A q \in Slots(d.kind) :
           /\ d2.queues[q].size = d.queues[q].size /\ d2.queues[q].ready = d.queues[q].ready
           /\ d2.queues[q].desc = d.queues[q].desc /\ d2.queues[q].driver = d.queues[q].driver
           /\ d2.queues[q].device = d.queues[q].device
  PROVE  Settings(d2, m2)
<1>1. GoodSize(d2.kind, m2.size) = GoodSize(d.kind, m.size)
  OBVIOUS
<1> HIDE DEF GoodSize
<1>2. StatusIs(d2.kind, m2) = StatusIs(d.kind, m)
  BY <1>1 DEF StatusIs
<1>3. Registers(d2, m2)
  BY <1>2 DEF Registers, Settings
<1>4. ASSUME NEW q \in Slots(d.kind) PROVE QueueIs(d2.queues[q], d2.kind, q, m2)
  <2>1. QueueIs(d.queues[q], d.kind, q, m)
    BY DEF Settings
  <2> QED BY <1>1, <2>1 DEF QueueIs
<1> QED BY <1>3, <1>4 DEF Settings

\* The driver starts over: only the reset can follow.
LEMMA ProbeKeeps == ASSUME RegInv, NEW n \in 1..NumMax(dev.kind), NumMax(dev.kind) \in Nat, Probe(n) PROVE RegInv'
<1>1. /\ MmioTypes /\ Positioned /\ mdrv \in Drivers /\ dev.kind \in Kinds
  BY DEF RegInv, MmioTypes
<1>2. /\ dev' = dev /\ vring' = vring /\ mdrv.isr = "idle"
      /\ mdrv' = [mdrv EXCEPT !.gen = mdrv.gen + 1, !.pc = 1, !.size = n, !.quiet = FALSE]
  BY DEF Probe
<1>3. mdrv' \in Drivers /\ mdrv'.pc = 1 /\ mdrv'.isr = "idle" /\ mdrv'.size = n
  <2>1. n \in Nat
    OBVIOUS
  <2>2. PICK g : g = mdrv.gen + 1 /\ g \in Nat
    BY <1>1 DEF Drivers
  <2>3. mdrv' = [mdrv EXCEPT !.gen = g, !.pc = 1, !.size = n, !.quiet = FALSE]
    BY <1>2, <2>2
  <2>4. mdrv' = [[[[mdrv EXCEPT !.gen = g] EXCEPT !.pc = 1] EXCEPT !.size = n] EXCEPT !.quiet = FALSE]
    BY <2>3
  <2>5. [mdrv EXCEPT !.gen = g] \in Drivers /\ [mdrv EXCEPT !.gen = g].isr = "idle"
    BY <1>1, <1>2, <2>2 DEF Drivers
  <2>6. PICK a : a = [mdrv EXCEPT !.gen = g] /\ a \in Drivers /\ a.isr = "idle"
    BY <2>5
  <2>7. PICK b, c : b = [a EXCEPT !.pc = 1] /\ c = [b EXCEPT !.size = n]
    OBVIOUS
  <2>a. b \in Drivers /\ b.isr = "idle" /\ b.pc = 1
    BY <2>6, <2>7 DEF Drivers
  <2>8. c \in Drivers /\ c.isr = "idle" /\ c.pc = 1 /\ c.size = n
    BY <2>1, <2>7, <2>a DEF Drivers
  <2>9. mdrv' = [c EXCEPT !.quiet = FALSE]
    BY <2>4, <2>6, <2>7
  <2> QED BY <2>8, <2>9 DEF Drivers
<1>4. 1 \in 1..LastStep(dev.kind) + 1 /\ ~(1 > LastStep(dev.kind)) /\ 1 \notin 2..LastStep(dev.kind)
  BY DEF LastStep
<1>5. MmioTypes'
  BY <1>1, <1>2, <1>3, <1>4 DEF MmioTypes
<1>6. Positioned' /\ Blank'
  BY <1>1, <1>2, <1>3, <1>4 DEF Positioned, Blank
<1>7. ~Running'
  BY <1>2, <1>3, <1>4, <1>5, RunningIsNext
<1>8. Raising'
  BY <1>3, <1>7 DEF Raising
<1> QED BY <1>3, <1>5, <1>6, <1>8 DEF RegInv

\* A buffer is made available.
LEMMA SubmitKeeps == ASSUME RegInv, NEW x \in 0..2, Submit(x) PROVE RegInv'
<1>1. /\ MmioTypes /\ Positioned /\ Raising /\ mdrv \in Drivers /\ dev.kind \in Kinds
      /\ vring \in [Slots(dev.kind) -> VRings] /\ Running
  BY DEF RegInv, MmioTypes, Submit
<1>2. mdrv.gen > 0 /\ mdrv.pc > LastStep(dev.kind)
  BY <1>1, RunningIs
<1>3. x \in InUse(dev.kind) /\ x \in Slots(dev.kind)
  <2>1. \E i \in DOMAIN Uses(dev.kind) : Uses(dev.kind)[i] = x
    BY DEF Submit
  <2> QED BY <1>1, <2>1 DEF Uses, InUse, Slots, Kinds, Nets
<1>4. /\ vring' = [vring EXCEPT ![x].avail = vring[x].avail + 1]
      /\ mdrv' = [mdrv EXCEPT !.submits = mdrv.submits + 1] /\ dev' = dev
  BY DEF Submit
<1>5. /\ mdrv' \in Drivers /\ mdrv'.pc = mdrv.pc /\ mdrv'.gen = mdrv.gen /\ mdrv'.size = mdrv.size
      /\ mdrv'.isr = mdrv.isr /\ mdrv'.quiet = mdrv.quiet /\ mdrv'.offer = mdrv.offer
  BY <1>1, <1>4 DEF Drivers
<1>6. /\ vring' \in [Slots(dev.kind) -> VRings]
      /\ \A q \in Slots(dev.kind) : /\ vring'[q].used = vring[q].used /\ vring'[q].seen = vring[q].seen
                                    /\ vring'[q].avail = IF q = x THEN vring[q].avail + 1 ELSE vring[q].avail
                                    /\ vring[q] \in VRings
  BY <1>1, <1>3, <1>4 DEF VRings
<1>7. MmioTypes'
  BY <1>1, <1>4, <1>5, <1>6 DEF MmioTypes
<1>8. Positioned'
  BY <1>1, <1>3, <1>4, <1>6 DEF Positioned, VRings
<1>9. LastStep(dev.kind) \in Nat
  BY DEF LastStep
<1>10. Blank'
  BY <1>1, <1>2, <1>4, <1>5, <1>9 DEF Blank, Drivers
<1>11. Raising'
  <2>1. Running'
    BY <1>2, <1>4, <1>5, <1>7, RunningIsNext
  <2>2. Unseen' => Unseen
    BY <1>4, <1>6 DEF Unseen
  <2> QED BY <1>1, <1>4, <1>5, <2>1, <2>2 DEF Raising
<1>12. Settings(dev', mdrv')
  <2>1. Settings(dev, mdrv)
    BY <1>2, <1>9, <1>1 DEF RegInv, Drivers, LastStep
  <2> QED BY <1>4, <1>5, <2>1, SettingsStay
<1> QED BY <1>7, <1>8, <1>10, <1>11, <1>12 DEF RegInv

\* What a device was told, as far as its work goes.
SameOrders(d, d2) ==
  /\ d2.kind = d.kind /\ d2.status = d.status /\ d2.drv = d.drv
  /\ d2.dsel = d.dsel /\ d2.fsel = d.fsel /\ d2.qsel = d.qsel
  /\ \A q \in Slots(d.kind) :
       /\ d2.queues[q].size = d.queues[q].size /\ d2.queues[q].ready = d.queues[q].ready
       /\ d2.queues[q].desc = d.queues[q].desc /\ d2.queues[q].driver = d.queues[q].driver
       /\ d2.queues[q].device = d.queues[q].device
SameProbe(m, m2) == m2.pc = m.pc /\ m2.size = m.size /\ m2.gen = m.gen /\ m2.offer = m.offer

\* Work that neither side's set-up notices.
LEMMA WorkKeeps ==
  ASSUME RegInv, dev' \in Devs(dev.kind), SameOrders(dev, dev'), mdrv' \in Drivers, SameProbe(mdrv, mdrv'),
         vring' \in [Slots(dev.kind) -> VRings], Positioned', Raising',
         mdrv.gen > 0 /\ mdrv.pc \in 2..LastStep(dev.kind) => vring' = vring
  PROVE  RegInv'
<1>1. MmioTypes /\ Blank /\ dev.kind \in Kinds /\ dev'.kind = dev.kind
  BY DEF RegInv, MmioTypes, SameOrders
<1>2. MmioTypes'
  BY <1>1 DEF MmioTypes, SameProbe
<1>3. Blank'
  BY <1>1 DEF Blank, SameProbe
<1>4. mdrv'.gen > 0 /\ mdrv'.pc > 1 => Settings(dev', mdrv')
  <2> SUFFICES ASSUME mdrv'.gen > 0 /\ mdrv'.pc > 1 PROVE Settings(dev', mdrv')
    OBVIOUS
  <2>1. Settings(dev, mdrv)
    BY DEF RegInv, SameProbe
  <2> QED BY <2>1, SettingsStay DEF SameOrders, SameProbe
<1> QED BY <1>2, <1>3, <1>4 DEF RegInv

\* The device moves on in a queue and publishes what it took.
LEMMA AdvanceKeeps ==
  ASSUME RegInv, NEW x \in Slots(dev.kind), NEW n \in Nat, dev.queues[x].last <= n, n <= vring[x].avail,
         NEW d, \/ d = Raised([dev EXCEPT !.queues[x].last = n])
                \/ d = [dev EXCEPT !.queues[x].last = n] /\ mdrv.quiet,
         Writes(d), UNCHANGED mdrv
  PROVE  RegInv'
<1>1. /\ MmioTypes /\ Positioned /\ Raising /\ Blank /\ dev.kind \in Kinds /\ dev \in Devs(dev.kind)
      /\ mdrv \in Drivers /\ vring \in [Slots(dev.kind) -> VRings]
  BY DEF RegInv, MmioTypes
<1>2. PICK e : e = [dev EXCEPT !.queues[x].last = n]
  OBVIOUS
<1>3. /\ e \in Devs(dev.kind) /\ SameOrders(dev, e)
      /\ \A q \in Slots(dev.kind) : e.queues[q].last = IF q = x THEN n ELSE dev.queues[q].last
  <2>1. PICK Q : Q = dev.queues[x] /\ Q \in Queues
    BY <1>1 DEF Devs
  <2>2. PICK Q2 : Q2 = [Q EXCEPT !.last = n]
    OBVIOUS
  <2>3. /\ Q2 \in Queues /\ Q2.last = n /\ Q2.size = Q.size /\ Q2.ready = Q.ready
        /\ Q2.desc = Q.desc /\ Q2.driver = Q.driver /\ Q2.device = Q.device
    BY <2>1, <2>2 DEF Queues
  <2>4. e = [dev EXCEPT !.queues[x] = Q2]
    BY <1>2, <2>1, <2>2
  <2>5. /\ e \in Devs(dev.kind) /\ e.kind = dev.kind /\ e.status = dev.status /\ e.drv = dev.drv
        /\ e.dsel = dev.dsel /\ e.fsel = dev.fsel /\ e.qsel = dev.qsel
        /\ e.queues = [dev.queues EXCEPT ![x] = Q2]
    BY <1>1, <2>3, <2>4 DEF Devs
  <2>6. \A q \in Slots(dev.kind) : e.queues[q] = IF q = x THEN Q2 ELSE dev.queues[q]
    BY <1>1, <2>5 DEF Devs
  <2>7. SameOrders(dev, e)
    BY <2>1, <2>3, <2>5, <2>6 DEF SameOrders
  <2> QED BY <2>3, <2>5, <2>6, <2>7
<1>4. dev' = d /\ (d = Raised(e) \/ (d = e /\ mdrv.quiet))
  BY <1>2 DEF Writes
<1>5. /\ dev' \in Devs(dev.kind) /\ SameOrders(dev, dev') /\ dev'.kind = dev.kind
      /\ \A q \in Slots(dev.kind) : dev'.queues[q].last = IF q = x THEN n ELSE dev.queues[q].last
      /\ (dev'.isr /\ dev'.line) \/ mdrv.quiet
  <2>1. CASE d = e /\ mdrv.quiet
    BY <1>3, <1>4, <2>1 DEF SameOrders
  <2>2. CASE d = Raised(e)
    <3>1. dev' = [e EXCEPT !.isr = TRUE, !.line = TRUE]
      BY <1>4, <2>2 DEF Raised
    <3>2. dev' \in Devs(dev.kind) /\ dev'.isr /\ dev'.line
      BY <1>3, <3>1 DEF Devs
    <3>3. SameOrders(dev, dev') /\ dev'.queues = e.queues
      BY <1>3, <3>1 DEF SameOrders, Devs
    <3> QED BY <1>3, <3>2, <3>3 DEF SameOrders
  <2> QED BY <1>4, <2>1, <2>2
<1>6. vring' = [q \in DOMAIN vring |-> [vring[q] EXCEPT !.used = vring[q].used + d.queues[q].last - dev.queues[q].last]]
  BY DEF Writes
<1>7. ASSUME NEW q \in Slots(dev.kind)
      PROVE  /\ vring'[q] = [vring[q] EXCEPT !.used = IF q = x THEN n ELSE vring[q].used]
             /\ vring[q] \in VRings /\ dev.queues[q].last = vring[q].used
  <2>1. /\ vring[q] \in VRings /\ dev.queues[q].last = vring[q].used /\ dev.queues[q].last \in Nat
        /\ vring[q].used \in Nat
    BY <1>1, <1>7 DEF Positioned, VRings
  <2>2. PICK l \in Nat : l = vring[q].used
    BY <2>1
  <2>3. d.queues[q].last = IF q = x THEN n ELSE l
    BY <1>4, <1>5, <2>1, <2>2
  <2>4. vring[q].used + d.queues[q].last - dev.queues[q].last = IF q = x THEN n ELSE l
    BY <2>1, <2>2, <2>3
  <2>5. vring'[q] = [vring[q] EXCEPT !.used = vring[q].used + d.queues[q].last - dev.queues[q].last]
    BY <1>1, <1>6
  <2> QED BY <2>1, <2>2, <2>4, <2>5
<1>8. vring' \in [Slots(dev.kind) -> VRings]
  <2>1. DOMAIN vring' = Slots(dev.kind) /\ vring' = [q \in Slots(dev.kind) |-> vring'[q]]
    BY <1>1, <1>6
  <2>2. \A q \in Slots(dev.kind) : vring'[q] \in VRings
    BY <1>7 DEF VRings
  <2> QED BY <2>1, <2>2
<1>9. Positioned'
  <2>1. ASSUME NEW q \in Slots(dev.kind)
        PROVE  /\ dev'.queues[q].last = vring'[q].used /\ vring'[q].used <= vring'[q].avail
               /\ q \notin InUse(dev.kind) => vring'[q].avail = 0
    <3>1. /\ vring[q].used <= vring[q].avail /\ (q \notin InUse(dev.kind) => vring[q].avail = 0)
          /\ dev.queues[q].last = vring[q].used
      BY <1>1 DEF Positioned
    <3>2. /\ vring'[q].used = (IF q = x THEN n ELSE vring[q].used) /\ vring'[q].avail = vring[q].avail
      BY <1>7 DEF VRings
    <3>3. dev'.queues[q].last = IF q = x THEN n ELSE dev.queues[q].last
      BY <1>5
    <3> QED BY <3>1, <3>2, <3>3
  <2> QED BY <1>5, <2>1 DEF Positioned
<1>10. mdrv.gen > 0 /\ mdrv.pc \in 2..LastStep(dev.kind) => vring' = vring
  <2> SUFFICES ASSUME vring = [q \in Slots(dev.kind) |-> NewRing] PROVE vring' = vring
    BY <1>1 DEF Blank
  <2>1. \A q \in Slots(dev.kind) : vring[q] = NewRing
    OBVIOUS
  <2>2. NewRing = [avail |-> 0, used |-> 0, seen |-> 0]
    BY DEF NewRing
  <2>3. n = 0
    BY <2>1, <2>2
  <2>4. \A q \in Slots(dev.kind) : vring'[q] = vring[q]
    BY <1>7, <2>1, <2>2, <2>3 DEF VRings
  <2> QED BY <1>1, <1>8, <2>4
<1>11. Raising'
  <2>1. MmioTypes'
    BY <1>1, <1>5, <1>8 DEF MmioTypes
  <2>2. Running' <=> Running
    BY <1>1, <1>5, <2>1, RunningIs, RunningIsNext
  <2> QED BY <1>1, <1>5, <2>2 DEF Raising
<1>12. mdrv' \in Drivers /\ SameProbe(mdrv, mdrv')
  BY <1>1 DEF SameProbe
<1> QED BY <1>5, <1>8, <1>9, <1>10, <1>11, <1>12, WorkKeeps

\* Nothing happens.
LEMMA StaysKeeps == ASSUME RegInv, UNCHANGED <<dev, vring, mdrv>> PROVE RegInv'
<1>1. Running' <=> Running
  BY DEF Running
<1>2. MmioTypes' /\ Positioned' /\ Blank'
  BY DEF RegInv, MmioTypes, Positioned, Blank
<1>3. Raising'
  BY <1>1 DEF RegInv, Raising, Unseen
<1>4. mdrv'.gen > 0 /\ mdrv'.pc > 1 => Settings(dev', mdrv')
  BY DEF RegInv
<1> QED BY <1>2, <1>3, <1>4 DEF RegInv

\* What a notification does.
LEMMA NotifyWrite ==
  ASSUME MmioTypes, NEW q \in Slots(dev.kind), NEW d, d = MmioWriteReg(dev, "QueueNotify", "", q)
  PROVE  \/ d = dev
         \/ d = Raised(Handled(dev, q))
         \/ d = Handled(dev, q) /\ mdrv.quiet
<1>0. dev.kind \in Kinds
  BY DEF MmioTypes
<1>a. ~Resets("QueueNotify", q)
  BY DEF Resets
<1>1. CASE dev.kind = "kvmBlk"
  <2>1. d = kvm_blk_write_reg(dev, "QueueNotify", "", q)
    BY <1>1 DEF MmioWriteReg
  <2> QED BY <1>a, <2>1 DEF kvm_blk_write_reg
<1>2. CASE dev.kind = "hvfBlk"
  <2>1. d = hvf_blk_write_reg(dev, "QueueNotify", "", q)
    BY <1>2 DEF MmioWriteReg
  <2> QED BY <1>a, <2>1 DEF hvf_blk_write_reg
<1>3. CASE dev.kind = "whpBlk"
  <2>1. d = whp_blk_write_reg(dev, "QueueNotify", "", q)
    BY <1>3 DEF MmioWriteReg
  <2> QED BY <1>a, <2>1 DEF whp_blk_write_reg
<1>4. CASE dev.kind = "rng"
  <2>1. d = rng_write_reg(dev, "QueueNotify", "", q)
    BY <1>4 DEF MmioWriteReg
  <2>2. d = IF q = 0 THEN rng_handle_queue(dev) ELSE dev
    BY <1>a, <2>1 DEF rng_write_reg
  <2> QED BY <2>2 DEF rng_handle_queue
<1>5. CASE dev.kind = "kvmNet"
  <2>1. d = kvm_net_write_reg(dev, "QueueNotify", "", q)
    BY <1>5 DEF MmioWriteReg
  <2>2. d = TransmitNotify(dev, q)
    BY <1>a, <2>1 DEF kvm_net_write_reg
  <2> QED BY <2>2 DEF TransmitNotify
<1>6. CASE dev.kind = "hvfNet"
  <2>1. d = hvf_net_write_reg(dev, "QueueNotify", "", q)
    BY <1>6 DEF MmioWriteReg
  <2>2. d = TransmitNotify(dev, q)
    BY <1>a, <2>1 DEF hvf_net_write_reg
  <2> QED BY <2>2 DEF TransmitNotify
<1> QED BY <1>0, <1>1, <1>2, <1>3, <1>4, <1>5, <1>6 DEF Kinds, Nets

\* The device handles what was made available, or finds the queue not ready.
LEMMA NotifyKeeps == ASSUME RegInv, NEW q \in 0..2, Notify(q) PROVE RegInv'
<1>1. /\ MmioTypes /\ Positioned /\ Raising /\ Blank /\ dev.kind \in Kinds /\ dev \in Devs(dev.kind)
      /\ mdrv \in Drivers /\ vring \in [Slots(dev.kind) -> VRings]
  BY DEF RegInv, MmioTypes
<1>2. q \in Slots(dev.kind) /\ UNCHANGED mdrv
  BY DEF Notify
<1>3. PICK d : d = MmioWriteReg(dev, "QueueNotify", "", q) /\ Writes(d)
  BY DEF Notify
<1>4. PICK n : n = vring[q].avail /\ n \in Nat /\ dev.queues[q].last <= n /\ n <= vring[q].avail
  BY <1>1, <1>2 DEF Positioned, VRings
<1>5. CASE d # dev
  <2>1. d = Raised(Handled(dev, q)) \/ (d = Handled(dev, q) /\ mdrv.quiet)
    BY <1>1, <1>2, <1>3, <1>5, NotifyWrite
  <2>2. Handled(dev, q) = [dev EXCEPT !.queues[q].last = n]
    BY <1>4 DEF Handled
  <2>3. d = Raised([dev EXCEPT !.queues[q].last = n]) \/ (d = [dev EXCEPT !.queues[q].last = n] /\ mdrv.quiet)
    BY <2>1, <2>2
  <2> QED BY <1>2, <1>3, <1>4, <2>3, AdvanceKeeps
<1>6. CASE d = dev
  <2>1. dev' = dev
    BY <1>3, <1>6 DEF Writes
  <2>2. \A x \in Slots(dev.kind) : vring'[x] = [vring[x] EXCEPT !.used = vring[x].used]
    <3>1. vring' = [x \in DOMAIN vring |-> [vring[x] EXCEPT !.used = vring[x].used + dev.queues[x].last - dev.queues[x].last]]
      BY <1>3, <1>6 DEF Writes
    <3>2. \A x \in Slots(dev.kind) : vring[x].used + dev.queues[x].last - dev.queues[x].last = vring[x].used
      BY <1>1 DEF Devs, Queues, VRings
    <3> QED BY <1>1, <3>1, <3>2
  <2>3. vring' = vring
    <3>1. DOMAIN vring' = Slots(dev.kind) /\ vring' = [x \in Slots(dev.kind) |-> vring'[x]]
      BY <1>1, <1>3 DEF Writes
    <3>2. \A x \in Slots(dev.kind) : vring'[x] = vring[x]
      BY <1>1, <2>2 DEF VRings
    <3> QED BY <1>1, <3>1, <3>2
  <2> QED BY <1>2, <2>1, <2>3, StaysKeeps
<1> QED BY <1>5, <1>6

\* A frame of the host goes into the next receive buffer.
LEMMA HostFrameKeeps == ASSUME RegInv, HostFrame PROVE RegInv'
<1>1. /\ MmioTypes /\ Positioned /\ dev.kind \in Nets /\ dev \in Devs(dev.kind)
      /\ mdrv \in Drivers /\ vring \in [Slots(dev.kind) -> VRings]
  BY DEF RegInv, MmioTypes, HostFrame
<1>2. 0 \in Slots(dev.kind)
  BY <1>1 DEF Slots
<1>3. PICK l \in Nat, a \in Nat : l = dev.queues[0].last /\ a = vring[0].avail /\ l <= a /\ l # a
  BY <1>1, <1>2 DEF Positioned, VRings, HostFrame
<1>4. PICK n \in Nat : n = l + 1 /\ l <= n /\ n <= a
  <2>1. l + 1 \in Nat /\ l <= l + 1 /\ l + 1 <= a
    BY <1>3
  <2> QED BY <2>1
<1>5. Writes(Raised([dev EXCEPT !.queues[0].last = n])) /\ UNCHANGED mdrv
  BY <1>3, <1>4 DEF HostFrame
<1>6. PICK d : d = Raised([dev EXCEPT !.queues[0].last = n]) /\ Writes(d)
  BY <1>5
<1> QED BY <1>2, <1>3, <1>4, <1>5, <1>6, AdvanceKeeps

\* The driver's interrupt handler starts.
LEMMA TakeKeeps == ASSUME RegInv, TakeMmioInterrupt PROVE RegInv'
<1>1. /\ MmioTypes /\ Positioned /\ Raising /\ dev.kind \in Kinds /\ dev \in Devs(dev.kind)
      /\ mdrv \in Drivers /\ vring \in [Slots(dev.kind) -> VRings] /\ Running /\ dev.line /\ mdrv.isr = "idle"
  BY DEF RegInv, MmioTypes, TakeMmioInterrupt
<1>2. /\ mdrv' = [mdrv EXCEPT !.isr = "read"] /\ vring' = vring
      /\ dev' = IF dev.kind \in {"whpBlk", "rng"} THEN [dev EXCEPT !.line = FALSE] ELSE dev
  BY DEF TakeMmioInterrupt
<1>3. mdrv' \in Drivers /\ SameProbe(mdrv, mdrv') /\ mdrv'.isr = "read" /\ mdrv'.quiet = mdrv.quiet
  BY <1>1, <1>2 DEF Drivers, SameProbe
<1>4. dev' \in Devs(dev.kind) /\ dev'.isr = dev.isr /\ dev'.queues = dev.queues /\ SameOrders(dev, dev')
  <2>1. CASE dev.kind \in {"whpBlk", "rng"}
    BY <1>1, <1>2, <2>1 DEF Devs, SameOrders
  <2>2. CASE dev.kind \notin {"whpBlk", "rng"}
    BY <1>1, <1>2, <2>2 DEF SameOrders
  <2> QED BY <2>1, <2>2
<1>5. Positioned'
  BY <1>1, <1>2, <1>4 DEF Positioned, SameOrders
<1>6. Raising'
  <2>1. MmioTypes'
    BY <1>1, <1>2, <1>3, <1>4 DEF MmioTypes, SameProbe, SameOrders
  <2>2. Running'
    BY <1>1, <1>3, <1>4, <2>1, RunningIs, RunningIsNext DEF SameProbe, SameOrders
  <2>3. Unseen' => Unseen
    BY <1>2, <1>4 DEF Unseen, SameOrders
  <2> QED BY <1>1, <1>3, <1>4, <2>2, <2>3 DEF Raising
<1> QED BY <1>1, <1>2, <1>3, <1>4, <1>5, <1>6, WorkKeeps

\* What an acknowledgement does.
LEMMA AckWrite ==
  ASSUME NEW d, d.kind \in Kinds
  PROVE  MmioWriteReg(d, "InterruptAck", "", 1) \in {Acked(d), [d EXCEPT !.isr = FALSE]}
<1>0. ~Resets("InterruptAck", 1)
  BY DEF Resets
<1>1. CASE d.kind = "kvmBlk"
  BY <1>0, <1>1 DEF MmioWriteReg, kvm_blk_write_reg
<1>2. CASE d.kind = "hvfBlk"
  BY <1>0, <1>2 DEF MmioWriteReg, hvf_blk_write_reg
<1>3. CASE d.kind = "whpBlk"
  BY <1>0, <1>3 DEF MmioWriteReg, whp_blk_write_reg
<1>4. CASE d.kind = "rng"
  BY <1>0, <1>4 DEF MmioWriteReg, rng_write_reg
<1>5. CASE d.kind = "kvmNet"
  BY <1>0, <1>5 DEF MmioWriteReg, kvm_net_write_reg
<1>6. CASE d.kind = "hvfNet"
  BY <1>0, <1>6 DEF MmioWriteReg, hvf_net_write_reg
<1> QED BY <1>1, <1>2, <1>3, <1>4, <1>5, <1>6 DEF Kinds, Nets

\* The handler acknowledges, or finds that the device wanted nothing.
LEMMA AckKeeps == ASSUME RegInv, AckInterrupt PROVE RegInv'
<1>1. /\ MmioTypes /\ Positioned /\ Raising /\ dev.kind \in Kinds /\ dev \in Devs(dev.kind)
      /\ mdrv \in Drivers /\ vring \in [Slots(dev.kind) -> VRings] /\ mdrv.isr = "read"
  BY DEF RegInv, MmioTypes, AckInterrupt
<1>2. vring' = vring /\ Running
  BY <1>1 DEF AckInterrupt, Raising
<1>3. PICK s \in {"acked", "idle"} : /\ mdrv' = [mdrv EXCEPT !.isr = s]
                                     /\ s = "idle" => dev' = dev /\ ~dev.isr
                                     /\ s = "acked" => dev' = MmioWriteReg(dev, "InterruptAck", "", 1)
  BY DEF AckInterrupt
<1>4. mdrv' \in Drivers /\ SameProbe(mdrv, mdrv') /\ mdrv'.isr = s /\ mdrv'.quiet = mdrv.quiet
  BY <1>1, <1>3 DEF Drivers, SameProbe
<1>5. dev' \in Devs(dev.kind) /\ dev'.queues = dev.queues /\ SameOrders(dev, dev')
  <2>1. CASE s = "idle"
    BY <1>1, <1>3, <2>1 DEF SameOrders
  <2>2. CASE s = "acked"
    <3>1. dev' = Acked(dev) \/ dev' = [dev EXCEPT !.isr = FALSE]
      BY <1>1, <1>3, <2>2, AckWrite
    <3> QED BY <1>1, <3>1 DEF Acked, Devs, SameOrders
  <2> QED BY <2>1, <2>2
<1>6. Positioned'
  BY <1>1, <1>2, <1>5 DEF Positioned, SameOrders
<1>7. Raising'
  <2>1. MmioTypes'
    BY <1>1, <1>2, <1>4, <1>5 DEF MmioTypes, SameProbe, SameOrders
  <2>2. Running'
    BY <1>1, <1>2, <1>4, <1>5, <2>1, RunningIs, RunningIsNext DEF SameProbe, SameOrders
  <2>3. Unseen' => Unseen
    BY <1>2, <1>5 DEF Unseen, SameOrders
  <2>4. s = "idle" => ~(~mdrv.quiet /\ Unseen)
    BY <1>1, <1>2, <1>3 DEF Raising
  <2> QED BY <1>4, <2>2, <2>3, <2>4 DEF Raising
<1> QED BY <1>1, <1>2, <1>4, <1>5, <1>6, <1>7, WorkKeeps

\* The handler collects what was used.
LEMMA CollectKeeps == ASSUME RegInv, Collect PROVE RegInv'
<1>1. /\ MmioTypes /\ Positioned /\ Raising /\ dev.kind \in Kinds /\ dev \in Devs(dev.kind)
      /\ mdrv \in Drivers /\ vring \in [Slots(dev.kind) -> VRings] /\ mdrv.isr = "acked"
  BY DEF RegInv, MmioTypes, Collect
<1>2. /\ dev' = dev /\ mdrv' = [mdrv EXCEPT !.isr = "idle"]
      /\ vring' = [q \in DOMAIN vring |-> [vring[q] EXCEPT !.seen = vring[q].used]]
  BY DEF Collect
<1>3. mdrv' \in Drivers /\ SameProbe(mdrv, mdrv') /\ mdrv'.isr = "idle"
  BY <1>1, <1>2 DEF Drivers, SameProbe
<1>4. ASSUME NEW q \in Slots(dev.kind)
      PROVE  /\ vring'[q] \in VRings /\ vring'[q].used = vring[q].used /\ vring'[q].avail = vring[q].avail
             /\ vring'[q].seen = vring'[q].used
  <2>1. vring[q] \in VRings /\ vring'[q] = [vring[q] EXCEPT !.seen = vring[q].used]
    BY <1>1, <1>2
  <2> QED BY <2>1 DEF VRings
<1>5. vring' \in [Slots(dev.kind) -> VRings]
  BY <1>1, <1>2, <1>4
<1>6. Positioned'
  BY <1>1, <1>2, <1>4 DEF Positioned
<1>7. Raising'
  <2>1. ~Unseen'
    BY <1>2, <1>4 DEF Unseen
  <2> QED BY <1>3, <2>1 DEF Raising
<1>8. ~(mdrv.pc \in 2..LastStep(dev.kind))
  <2>1. mdrv.pc > LastStep(dev.kind)
    BY <1>1, RunningIs DEF Raising
  <2>2. mdrv.pc \in Nat /\ LastStep(dev.kind) \in Nat
    BY <1>1 DEF Drivers, LastStep
  <2> QED BY <2>1, <2>2
<1>9. SameOrders(dev, dev') /\ dev' \in Devs(dev.kind)
  BY <1>1, <1>2 DEF SameOrders
<1> QED BY <1>3, <1>5, <1>6, <1>7, <1>8, <1>9, WorkKeeps

\* A driver of the random number device asks not to be interrupted.
LEMMA QuietKeeps == ASSUME RegInv, SetQuiet PROVE RegInv'
<1>1. /\ MmioTypes /\ Positioned /\ Raising /\ dev.kind \in Kinds /\ dev \in Devs(dev.kind)
      /\ mdrv \in Drivers /\ vring \in [Slots(dev.kind) -> VRings]
  BY DEF RegInv, MmioTypes
<1>2. dev' = dev /\ vring' = vring /\ mdrv' = [mdrv EXCEPT !.quiet = TRUE] /\ Running
  BY DEF SetQuiet
<1>3. mdrv' \in Drivers /\ SameProbe(mdrv, mdrv') /\ mdrv'.quiet /\ mdrv'.isr = mdrv.isr
  BY <1>1, <1>2 DEF Drivers, SameProbe
<1>4. Positioned'
  BY <1>1, <1>2 DEF Positioned
<1>5. Raising'
  <2>1. MmioTypes'
    BY <1>1, <1>2, <1>3 DEF MmioTypes, SameProbe
  <2>2. Running'
    BY <1>1, <1>2, <1>3, <2>1, RunningIs, RunningIsNext DEF SameProbe
  <2> QED BY <1>3, <2>2 DEF Raising
<1>6. SameOrders(dev, dev') /\ dev' \in Devs(dev.kind)
  BY <1>1, <1>2 DEF SameOrders
<1> QED BY <1>1, <1>2, <1>3, <1>4, <1>5, <1>6, WorkKeeps

\* Every step of the driver, the device and the host.
LEMMA RegInductive == ASSUME MmioAssumption, RegInv, [MmioNext]_mmioVars PROVE RegInv'
<1>1. CASE UNCHANGED mmioVars
  BY <1>1, StaysKeeps DEF mmioVars
<1>2. CASE \E n \in 1..NumMax(dev.kind) : Probe(n)
  <2>1. NumMax(dev.kind) \in Nat
    BY FreshType DEF RegInv, MmioTypes
  <2> QED BY <1>2, <2>1, ProbeKeeps
<1>3. CASE ProbeStep
  BY <1>3, ProbeStepKeeps
<1>4. CASE \E q \in 0..2 : Submit(q) \/ Notify(q)
  BY <1>4, SubmitKeeps, NotifyKeeps
<1>5. CASE HostFrame \/ TakeMmioInterrupt \/ AckInterrupt \/ Collect \/ SetQuiet
  BY <1>5, HostFrameKeeps, TakeKeeps, AckKeeps, CollectKeeps, QuietKeeps
<1> QED BY <1>1, <1>2, <1>3, <1>4, <1>5 DEF MmioNext

\* What the run checks follows from the invariant.
LEMMA RegInvAgrees == ASSUME MmioAssumption, RegInv PROVE RegistersAgree
<1>1. /\ MmioTypes /\ Positioned /\ Raising /\ dev.kind \in Kinds /\ dev \in Devs(dev.kind) /\ mdrv \in Drivers
  BY DEF RegInv, MmioTypes
<1>2. PositionsAgree
  BY <1>1 DEF PositionsAgree, Positioned
<1>3. CompletionSignalled
  BY <1>1 DEF CompletionSignalled, Raising, Unseen
<1>4. ConfiguredAsAsked
  <2> SUFFICES ASSUME Running PROVE ConfiguredAsAsked
    BY DEF ConfiguredAsAsked
  <2>1. mdrv.gen > 0 /\ mdrv.pc > LastStep(dev.kind) /\ mdrv.pc \in Nat /\ LastStep(dev.kind) \in {22, 31}
    BY <1>1, RunningIs DEF Drivers, LastStep
  <2>2. mdrv.pc > 22 /\ (dev.kind \in Nets => mdrv.pc > 31) /\ mdrv.pc > 1
    BY <2>1 DEF LastStep
  <2>3. Settings(dev, mdrv) /\ Registers(dev, mdrv)
    BY <2>1, <2>2 DEF RegInv, Settings
  <2>4. PICK good : good = GoodSize(dev.kind, mdrv.size) /\ good \in BOOLEAN
    BY DEF GoodSize
  <2>5. PICK p, k : p \in Nat /\ p = mdrv.pc /\ k = dev.kind /\ p > 22 /\ (k \in Nets => p > 31) /\ p > LastStep(k)
    BY <2>1, <2>2
  <2>6. dev.drv = mdrv.offer /\ dev.drv.hi = 1
    <3>1. dev.drv \in Halves /\ mdrv.offer \in Halves
      BY <1>1 DEF Devs, Drivers
    <3>2. dev.drv.hi = 1 /\ mdrv.offer.hi = 1 /\ dev.drv.lo = mdrv.offer.lo
      BY <2>3, <2>5 DEF Registers
    <3> QED BY <3>1, <3>2 DEF Halves
  <2>7. dev.status = {"acknowledge", "driver", "featuresOk", "driverOk"} \cup (IF good THEN {} ELSE {"needsReset"})
    <3>1. p > 2 /\ p > 3 /\ p > 12 /\ p > 21
      BY <2>5
    <3> HIDE DEF GoodSize
    <3>2. StatusIs(dev.kind, mdrv) = {"acknowledge"} \cup {"driver"} \cup {"featuresOk"} \cup {"driverOk"}
                                       \cup (IF ~good THEN {"needsReset"} ELSE {})
      BY <2>4, <2>5, <3>1 DEF StatusIs
    <3>3. dev.status = StatusIs(dev.kind, mdrv)
      BY <2>3 DEF Registers
    <3> QED BY <2>4, <3>2, <3>3
  <2>8. ASSUME NEW q \in Slots(dev.kind)
        PROVE  IF q \in InUse(dev.kind)
               THEN dev.queues[q] = [size |-> mdrv.size, ready |-> good, last |-> dev.queues[q].last,
                                     desc |-> [lo |-> mdrv.gen, hi |-> mdrv.gen],
                                     driver |-> [lo |-> mdrv.gen, hi |-> mdrv.gen],
                                     device |-> [lo |-> mdrv.gen, hi |-> mdrv.gen]]
               ELSE dev.queues[q] = NewQueue(dev.kind)
    <3>1. PICK Q : Q = dev.queues[q] /\ Q \in Queues /\ QueueIs(Q, dev.kind, q, mdrv)
      BY <1>1, <2>3, <2>8 DEF Devs, Settings
    <3>2. Q.desc \in Halves /\ Q.driver \in Halves /\ Q.device \in Halves
      BY <3>1 DEF Queues
    <3> HIDE DEF GoodSize
    <3>3. CASE q \in InUse(dev.kind)
      <4>1. q = 0 \/ (q = 1 /\ p > 31)
        BY <2>5, <3>3 DEF InUse
      <4>2. PICK b \in Nat : b = 13 + 9 * q /\ p > b + 8
        <5>1. 13 + 9 * q \in Nat /\ p > 13 + 9 * q + 8
          BY <2>5, <4>1
        <5> QED BY <5>1
      <4>3. p > b + 1 /\ p > b + 2 /\ p > b + 3 /\ p > b + 4 /\ p > b + 5 /\ p > b + 6 /\ p > b + 7 /\ p > b + 8
        <5>1. p \in Nat
          BY <2>5
        <5> QED BY <4>2, <5>1
      <4>4. /\ Q.size = mdrv.size /\ Q.ready = good
            /\ Q.desc.lo = mdrv.gen /\ Q.desc.hi = mdrv.gen /\ Q.driver.lo = mdrv.gen /\ Q.driver.hi = mdrv.gen
            /\ Q.device.lo = mdrv.gen /\ Q.device.hi = mdrv.gen
        BY <2>4, <2>5, <3>1, <3>3, <4>2, <4>3 DEF QueueIs
      <4> QED BY <3>1, <3>2, <3>3, <4>4 DEF Queues, Halves
    <3>4. CASE q \notin InUse(dev.kind)
      <4>1. /\ Q.size = NumMax(dev.kind) /\ Q.ready = FALSE
            /\ Q.desc.lo = 0 /\ Q.desc.hi = 0 /\ Q.driver.lo = 0 /\ Q.driver.hi = 0
            /\ Q.device.lo = 0 /\ Q.device.hi = 0
        BY <3>1, <3>4 DEF QueueIs
      <4>2. Q.last = 0
        <5>1. vring[q] \in VRings /\ vring[q].avail = 0 /\ vring[q].used <= vring[q].avail /\ Q.last = vring[q].used
          BY <1>1, <2>8, <3>1, <3>4 DEF Positioned, MmioTypes
        <5> QED BY <5>1 DEF VRings
      <4> QED BY <3>1, <3>2, <3>4, <4>1, <4>2 DEF NewQueue, Zero, Queues, Halves
    <3> QED BY <3>3, <3>4
  <2>9. \A q : (\E i \in DOMAIN Uses(dev.kind) : Uses(dev.kind)[i] = q) <=> q \in InUse(dev.kind)
    BY DEF Uses, InUse
  <2>10. good = (dev.kind \in {"hvfBlk", "hvfNet"} => IsPowerOfTwo(mdrv.size))
    BY <2>4 DEF GoodSize
  <2> HIDE DEF GoodSize
  <2> QED BY <2>6, <2>7, <2>8, <2>9, <2>10 DEF ConfiguredAsAsked
<1> QED BY <1>2, <1>3, <1>4 DEF RegistersAgree

\* Device and driver agree on what was configured, where each queue stands and
\* what has yet to be collected, for any queue size, probes cut off anywhere and
\* any number of requests and frames.
THEOREM RegistersAgreeHolds == MmioSpec => []RegistersAgree
<1>1. MmioInit => RegInv
  BY MmioAssumption, RegInitInv
<1>2. RegInv /\ [MmioNext]_mmioVars => RegInv'
  BY MmioAssumption, RegInductive
<1>3. RegInv => RegistersAgree
  BY MmioAssumption, RegInvAgrees
<1> QED BY <1>1, <1>2, <1>3, PTL DEF MmioSpec

-----------------------------------------------------------------------------
\* Descriptor chains, configuration space and the used ring.

\* A turn of the walk, of a state that is one.
WalkStates == [st : {"walk", "ok", "throws"}, idx : 0..TableSize, seen : SUBSET Idx, chain : Seq(Idx)]
RngStates == [st : {"walk", "ok"}, idx : 0..TableSize, hops : Nat, seen : SUBSET Idx, written : Nat]

Tables == [Idx -> [len : Nat, write : BOOLEAN, far : BOOLEAN, more : BOOLEAN, indirect : BOOLEAN,
                   next : 0..TableSize]]

\* The tables of the model have well-typed descriptors, whose links stay within one of its end.
LEMMA TablesAre ==
  ASSUME ChainAssumption PROVE LinkTables \subseteq Tables
<1>1. TableSize \in Nat
  BY DEF ChainAssumption
<1> DEFINE Q == 0..TableSize
           T == [len : Nat, write : BOOLEAN, far : BOOLEAN, more : BOOLEAN, indirect : BOOLEAN, next : Q]
<1>2. 0 \in Q
  BY <1>1
<1>3. PlainDesc \in T
  BY <1>2 DEF PlainDesc
<1> HIDE DEF Q
<1>4. [PlainDesc EXCEPT !.indirect = TRUE] \in T /\ [PlainDesc EXCEPT !.write = FALSE] \in T
  BY <1>3
<1>5. ASSUME NEW n \in Q PROVE [PlainDesc EXCEPT !.len = 2, !.more = TRUE, !.next = n] \in T
  <2>1. 2 \in Nat
    OBVIOUS
  <2> QED BY <1>3, <2>1
<1>6. {[PlainDesc EXCEPT !.len = 2, !.more = TRUE, !.next = n] : n \in Q} \subseteq T
  <2> HIDE DEF T
  <2> QED BY <1>5
<1> DEFINE A == {PlainDesc, [PlainDesc EXCEPT !.indirect = TRUE], [PlainDesc EXCEPT !.write = FALSE]}
           B == {[PlainDesc EXCEPT !.len = 2, !.more = TRUE, !.next = n] : n \in Q}
<1>7. Tables = [Idx -> T] /\ LinkTables = [Idx -> A \cup B]
  BY DEF LinkTables, Tables, Q
<1>8. A \subseteq T /\ B \subseteq T
  <2> HIDE DEF T
  <2> QED BY <1>3, <1>4, <1>6
<1> HIDE DEF A, B, T
<1> QED BY <1>7, <1>8

\* One turn of the walk leaves a state of the walk (walk_chain).
LEMMA WalkStepTyped ==
  ASSUME ChainAssumption, NEW t \in Tables, NEW s \in WalkStates
  PROVE  WalkStep(t, s) \in WalkStates
<1>1. TableSize \in Nat
  BY DEF ChainAssumption
<1>2. CASE s.st # "walk"
  BY <1>2 DEF WalkStep
<1>3. CASE s.st = "walk" /\ (s.idx >= TableSize \/ s.idx \in s.seen \/ t[s.idx].indirect)
  BY <1>3 DEF WalkStep, WalkStates
<1>4. CASE s.st = "walk" /\ ~(s.idx >= TableSize \/ s.idx \in s.seen \/ t[s.idx].indirect)
  <2>1. s.idx \in Idx /\ t[s.idx].next \in 0..TableSize /\ s.seen \cup {s.idx} \in SUBSET Idx
    BY <1>1, <1>4 DEF WalkStates, Idx, Tables
  <2>2. Append(s.chain, s.idx) \in Seq(Idx)
    BY <2>1 DEF WalkStates
  <2> DEFINE nst == IF t[s.idx].more THEN "walk" ELSE "ok"
             ch == Append(s.chain, s.idx)
             nx == t[s.idx].next
             sn == s.seen \cup {s.idx}
  <2>3. nst \in {"walk", "ok", "throws"} /\ ch \in Seq(Idx) /\ nx \in 0..TableSize /\ sn \in SUBSET Idx
    BY <2>1, <2>2
  <2>4. WalkStep(t, s) = [st |-> nst, idx |-> nx, seen |-> sn, chain |-> ch]
    BY <1>4 DEF WalkStep
  <2> HIDE DEF nst, ch, nx, sn
  <2> QED BY <2>3, <2>4 DEF WalkStates
<1> QED BY <1>2, <1>3, <1>4

WalkFrom(head) == [st |-> "walk", idx |-> head, seen |-> {}, chain |-> <<>>]
IsWalk(h, t, head) ==
  /\ h[0] = WalkFrom(head) /\ h \in [0..(TableSize + 1) -> WalkStates]
  /\ \A k \in 1..(TableSize + 1) : h[k] = WalkStep(t, h[k - 1])

\* The loop of walk_chain, turn by turn.
LEMMA WalkRun ==
  ASSUME ChainAssumption, NEW t \in Tables, NEW head \in 0..TableSize
  PROVE  \E h : IsWalk(h, t, head) /\ walk_chain_inline(t, head) = h[TableSize + 1]
<1> DEFINE N == TableSize + 1
           V == WalkStates
           v0 == WalkFrom(head)
           D == [k \in 1..N |-> [s \in V |-> WalkStep(t, s)]]
           Body(at, k) == IF k = 0 THEN [st |-> "walk", idx |-> head, seen |-> {}, chain |-> <<>>] ELSE WalkStep(t, at[k-1])
           f == CHOOSE at : at = [k \in 0..N |-> Body(at, k)]
<1>1. walk_chain_inline(t, head) = f[TableSize + 1]
  BY DEF walk_chain_inline
<1>2. N \in Nat
  BY DEF ChainAssumption
<1>3. v0 \in V
  BY DEF WalkFrom, WalkStates
<1>4. \A k \in 1..N : \A s \in V : WalkStep(t, s) \in V
  BY WalkStepTyped
<1>0. v0 = [st |-> "walk", idx |-> head, seen |-> {}, chain |-> <<>>]
  BY DEF WalkFrom
<1> HIDE DEF V, v0, N
<1>5. D \in [1..N -> [V -> V]] /\ \A k \in 1..N : \A s \in V : D[k][s] = WalkStep(t, s)
  BY <1>4
<1> HIDE DEF D
<1>6. PICK e \in Unrolled(V, N, v0, D) : TRUE
  <2>1. Unrolled(V, N, v0, D) # {}
    BY <1>2, <1>3, <1>5, RunExists
  <2> HIDE DEF f, Body
  <2> QED BY <2>1
<1>7. e \in [0..N -> V] /\ e[0] = v0 /\ \A k \in 1..N : e[k] = D[k][e[k - 1]]
  BY <1>6 DEF Unrolled
<1>8. ASSUME NEW k \in 1..N PROVE e[k] = WalkStep(t, e[k - 1])
  <2>1. k - 1 \in 0..N
    BY <1>2
  <2>2. e[k - 1] \in V
    BY <1>7, <2>1
  <2> QED BY <1>5, <1>7, <2>2
<1>9. e = [k \in 0..N |-> Body(e, k)]
  <2>1. ASSUME NEW k \in 0..N PROVE e[k] = Body(e, k)
    <3>1. k = 0 \/ (k # 0 /\ k \in 1..N)
      BY <1>2
    <3> QED BY <1>0, <1>7, <1>8, <3>1
  <2> HIDE DEF Body, f
  <2> QED BY <1>7, <2>1
<1>10. f = [k \in 0..N |-> Body(f, k)]
  BY <1>9
<1> HIDE DEF f
<1>11. f[0] = v0 /\ \A k \in 1..N : f[k] = WalkStep(t, f[k - 1])
  <2>1. \A k \in 0..N : f[k] = Body(f, k)
    <3> HIDE DEF Body
    <3> QED BY <1>10
  <2>2. 0 \in 0..N /\ \A k \in 1..N : k \in 0..N /\ k # 0
    BY <1>2
  <2> QED BY <1>0, <2>1, <2>2
<1>12. f \in [0..N -> V]
  <2>1. IsOn(f, 0..N)
    <3> HIDE DEF Body
    <3> QED BY <1>10 DEF IsOn
  <2>2. f[0] = v0 /\ \A k \in 1..N : f[k - 1] \in V => f[k] = D[k][f[k - 1]]
    BY <1>5, <1>11
  <2>3. f \in Unrolled(V, N, v0, D)
    BY <1>2, <1>3, <1>5, <2>1, <2>2, RunStays
  <2> QED BY <2>3 DEF Unrolled
<1> QED BY <1>1, <1>11, <1>12 DEF N, V, v0, IsWalk

RngFrom(head) == [st |-> "walk", idx |-> head, hops |-> 0, seen |-> {}, written |-> 0]
IsRng(h, t, head) ==
  /\ h[0] = RngFrom(head) /\ h \in [0..(TableSize + 1) -> RngStates]
  /\ \A k \in 1..(TableSize + 1) : h[k] = RngStep(t, h[k - 1])

\* One turn of the random number device leaves a state of its loop (service_chain).
LEMMA RngStepTyped ==
  ASSUME ChainAssumption, NEW t \in Tables, NEW s \in RngStates
  PROVE  RngStep(t, s) \in RngStates
<1> DEFINE stops == s.st # "walk" \/ s.hops = TableSize \/ s.idx >= TableSize \/ s.idx \in s.seen
<1>1. TableSize \in Nat
  BY DEF ChainAssumption
<1>3. CASE stops
  BY <1>3 DEF RngStep, RngStates
<1>4. CASE ~stops
  <2>1. s.idx \in Idx /\ t[s.idx].next \in 0..TableSize /\ s.seen \cup {s.idx} \in SUBSET Idx
        /\ t[s.idx].len \in Nat /\ s.written \in Nat /\ s.hops + 1 \in Nat
    BY <1>1, <1>4 DEF RngStates, Idx, Tables
  <2> DEFINE nst == IF t[s.idx].more THEN "walk" ELSE "ok"
             hp == s.hops + 1
             nx == t[s.idx].next
             sn == s.seen \cup {s.idx}
             wr == s.written + (IF t[s.idx].write /\ ~t[s.idx].far THEN t[s.idx].len ELSE 0)
  <2>2. wr \in Nat
    BY <2>1
  <2>3. nst \in {"walk", "ok"} /\ hp \in Nat /\ nx \in 0..TableSize /\ sn \in SUBSET Idx
    BY <2>1
  <2>4. RngStep(t, s) = [st |-> nst, idx |-> nx, hops |-> hp, seen |-> sn, written |-> wr]
    BY <1>4 DEF RngStep
  <2> HIDE DEF nst, hp, nx, sn, wr
  <2> QED BY <2>2, <2>3, <2>4 DEF RngStates
<1> QED BY <1>3, <1>4

\* The loop of service_chain.
LEMMA RngRun ==
  ASSUME ChainAssumption, NEW t \in Tables, NEW head \in 0..TableSize
  PROVE  \E h : IsRng(h, t, head) /\ service_chain(t, head) = h[TableSize + 1]
<1> DEFINE N == TableSize + 1
           V == RngStates
           v0 == RngFrom(head)
           D == [k \in 1..N |-> [s \in V |-> RngStep(t, s)]]
           Body(at, k) == IF k = 0 THEN [st |-> "walk", idx |-> head, hops |-> 0, seen |-> {}, written |-> 0] ELSE RngStep(t, at[k-1])
           f == CHOOSE at : at = [k \in 0..N |-> Body(at, k)]
<1>1. service_chain(t, head) = f[TableSize + 1]
  BY DEF service_chain
<1>2. N \in Nat
  BY DEF ChainAssumption
<1>3. v0 \in V
  BY DEF RngFrom, RngStates
<1>4. \A k \in 1..N : \A s \in V : RngStep(t, s) \in V
  BY RngStepTyped
<1>0. v0 = [st |-> "walk", idx |-> head, hops |-> 0, seen |-> {}, written |-> 0]
  BY DEF RngFrom
<1> HIDE DEF V, v0, N
<1>5. D \in [1..N -> [V -> V]] /\ \A k \in 1..N : \A s \in V : D[k][s] = RngStep(t, s)
  BY <1>4
<1> HIDE DEF D
<1>6. PICK e \in Unrolled(V, N, v0, D) : TRUE
  <2>1. Unrolled(V, N, v0, D) # {}
    BY <1>2, <1>3, <1>5, RunExists
  <2> HIDE DEF f, Body
  <2> QED BY <2>1
<1>7. e \in [0..N -> V] /\ e[0] = v0 /\ \A k \in 1..N : e[k] = D[k][e[k - 1]]
  BY <1>6 DEF Unrolled
<1>8. ASSUME NEW k \in 1..N PROVE e[k] = RngStep(t, e[k - 1])
  <2>1. k - 1 \in 0..N
    BY <1>2
  <2>2. e[k - 1] \in V
    BY <1>7, <2>1
  <2> QED BY <1>5, <1>7, <2>2
<1>9. e = [k \in 0..N |-> Body(e, k)]
  <2>1. ASSUME NEW k \in 0..N PROVE e[k] = Body(e, k)
    <3>1. k = 0 \/ (k # 0 /\ k \in 1..N)
      BY <1>2
    <3> QED BY <1>0, <1>7, <1>8, <3>1
  <2> HIDE DEF Body, f
  <2> QED BY <1>7, <2>1
<1>10. f = [k \in 0..N |-> Body(f, k)]
  BY <1>9
<1> HIDE DEF f
<1>11. f[0] = v0 /\ \A k \in 1..N : f[k] = RngStep(t, f[k - 1])
  <2>1. \A k \in 0..N : f[k] = Body(f, k)
    <3> HIDE DEF Body
    <3> QED BY <1>10
  <2>2. 0 \in 0..N /\ \A k \in 1..N : k \in 0..N /\ k # 0
    BY <1>2
  <2> QED BY <1>0, <2>1, <2>2
<1>12. f \in [0..N -> V]
  <2>1. IsOn(f, 0..N)
    <3> HIDE DEF Body
    <3> QED BY <1>10 DEF IsOn
  <2>2. f[0] = v0 /\ \A k \in 1..N : f[k - 1] \in V => f[k] = D[k][f[k - 1]]
    BY <1>5, <1>11
  <2>3. f \in Unrolled(V, N, v0, D)
    BY <1>2, <1>3, <1>5, <2>1, <2>2, RunStays
  <2> QED BY <2>3 DEF Unrolled
<1> QED BY <1>1, <1>11, <1>12 DEF N, V, v0, IsRng

ChainsOf(t, head) == {p \in Paths : IsChain(t, head, p)}

\* The paths are the short sequences.
LEMMA PathIs ==
  ASSUME ChainAssumption
  PROVE  /\ \A p \in Paths : p \in Seq(Idx) /\ Len(p) \in 1..TableSize /\ DOMAIN p = 1..Len(p)
         /\ \A p \in Seq(Idx) : Len(p) \in 1..TableSize => p \in Paths
<1>1. TableSize \in Nat
  BY DEF ChainAssumption
<1>2. ASSUME NEW p \in Paths PROVE p \in Seq(Idx) /\ Len(p) \in 1..TableSize /\ DOMAIN p = 1..Len(p)
  <2>1. PICK n \in 1..TableSize : p \in [1..n -> Idx]
    BY DEF Paths
  <2>2. n \in Nat
    BY <1>1
  <2>3. p \in Seq(Idx) /\ Len(p) = n
    BY <2>1, <2>2
  <2> QED BY <2>1, <2>3
<1>3. ASSUME NEW p \in Seq(Idx), Len(p) \in 1..TableSize PROVE p \in Paths
  <2>1. p \in [1..Len(p) -> Idx]
    BY LenProperties
  <2> QED BY <1>3, <2>1 DEF Paths
<1> QED BY <1>2, <1>3

\* A chain as a set of conditions on its elements.
Linked(t, head, p, n) ==
  /\ p[1] = head /\ \A k \in 1..n : p[k] \in Idx /\ ~t[p[k]].indirect
  /\ \A k \in 1..(n - 1) : t[p[k]].more /\ t[p[k]].next = p[k+1]

\* A chain is a linked path whose last descriptor has no successor.
LEMMA ChainIs ==
  ASSUME ChainAssumption, NEW t, NEW head, NEW p \in Paths
  PROVE  p \in ChainsOf(t, head) <=> Linked(t, head, p, Len(p)) /\ ~t[p[Len(p)]].more
<1>1. DOMAIN p = 1..Len(p)
  BY PathIs
<1> QED BY <1>1 DEF ChainsOf, IsChain, Linked

\* A chain that came back to a descriptor would never end.
LEMMA NoRepeat ==
  ASSUME ChainAssumption, NEW t, NEW head, NEW p \in ChainsOf(t, head),
         NEW a \in 1..Len(p), NEW b \in 1..Len(p), a < b
  PROVE  p[a] # p[b]
<1> DEFINE n == Len(p)
           S == {i \in 0..(n - b) : p[a + i] = p[b + i]}
<1>1. p \in Paths /\ n \in Nat
  BY PathIs DEF ChainsOf
<1>2. Linked(t, head, p, n) /\ ~t[p[n]].more
  BY <1>1, ChainIs
<1> SUFFICES ASSUME p[a] = p[b] PROVE FALSE
  OBVIOUS
<1> HIDE DEF n
<1>0. a \in 1..n /\ b \in 1..n
  BY DEF n
<1>3. 0 \in S
  BY <1>0, <1>1
<1>4. ASSUME NEW i \in 1..(n - b), i - 1 \in S PROVE i \in S
  <2> DEFINE x == a + (i - 1)
             y == b + (i - 1)
  <2>1. x \in 1..(n - 1) /\ y \in 1..(n - 1) /\ x + 1 = a + i /\ y + 1 = b + i
    BY <1>0, <1>1
  <2>2. p[x] = p[y]
    BY <1>4
  <2>3. p[x + 1] = t[p[x]].next /\ p[y + 1] = t[p[y]].next
    BY <1>2, <2>1 DEF Linked
  <2>4. p[x + 1] = p[y + 1]
    BY <2>2, <2>3
  <2> HIDE DEF x, y
  <2>5. p[a + i] = p[b + i]
    BY <2>1, <2>4
  <2>6. i \in 0..(n - b)
    BY <1>0, <1>1
  <2> QED BY <2>5, <2>6
<1>5. n - b \in Nat
  BY <1>0, <1>1
<1>6. \A i \in 0..(n - b) : i \in S
  <2> HIDE DEF S
  <2> QED BY <1>3, <1>4, <1>5, IntervalInduction
<1>7. p[a + (n - b)] = p[b + (n - b)]
  <2>1. n - b \in 0..(n - b)
    BY <1>5
  <2> QED BY <1>6, <2>1
<1>8. a + (n - b) \in 1..(n - 1) /\ b + (n - b) = n
  BY <1>0, <1>1
<1>9. t[p[a + (n - b)]].more
  BY <1>2, <1>8 DEF Linked
<1>10. p[a + (n - b)] = p[n]
  BY <1>7, <1>8
<1> QED BY <1>2, <1>9, <1>10

\* What is known while the walk goes on, and when it has ended.
Going(t, head, s, k) ==
  /\ Len(s.chain) = k /\ Cardinality(s.seen) = k /\ s.seen = {s.chain[j] : j \in 1..k}
  /\ \A j \in 1..k : s.chain[j] \in Idx /\ ~t[s.chain[j]].indirect /\ t[s.chain[j]].more
  /\ \A j \in 1..(k - 1) : t[s.chain[j]].next = s.chain[j + 1]
  /\ k > 0 => s.chain[1] = head /\ s.idx = t[s.chain[k]].next
  /\ k = 0 => s.idx = head
  /\ \A p \in ChainsOf(t, head) :
       k < Len(p) /\ p[k + 1] = s.idx /\ \A j \in 1..k : p[j] = s.chain[j]
WalkHolds(t, head, s, k) ==
  /\ s.st = "walk" => Going(t, head, s, k)
  /\ s.st = "ok" => ChainsOf(t, head) = {s.chain}
  /\ s.st = "throws" => ChainsOf(t, head) = {}

\* No more turns than descriptors.
LEMMA IdxCount ==
  ASSUME ChainAssumption PROVE IsFiniteSet(Idx) /\ Cardinality(Idx) = TableSize
<1>1. TableSize \in Nat
  BY DEF ChainAssumption
<1> DEFINE zero == 0
           top == TableSize - 1
<1>2. zero \in Int /\ top \in Int
  BY <1>1
<1> HIDE DEF zero, top
<1>3. IsFiniteSet(zero..top) /\ Cardinality(zero..top) = IF zero > top THEN 0 ELSE top - zero + 1
  BY <1>2, FS_Interval
<1> QED BY <1>1, <1>3 DEF Idx, zero, top

\* No descriptor is met twice, so a walk is no longer than the table.
LEMMA FewTurns ==
  ASSUME ChainAssumption, NEW S \in SUBSET Idx PROVE IsFiniteSet(S) /\ Cardinality(S) <= TableSize /\ Cardinality(S) \in Nat
BY IdxCount, FS_Subset, FS_CardinalityType

\* A descriptor that was not met before makes the walk one longer.
LEMMA OneMore ==
  ASSUME ChainAssumption, NEW S \in SUBSET Idx, NEW i \in Idx, i \notin S
  PROVE  Cardinality(S \cup {i}) = Cardinality(S) + 1 /\ S \cup {i} \in SUBSET Idx
<1>1. IsFiniteSet(S)
  BY FewTurns
<1> QED BY <1>1, FS_AddElement

\* A turn of the walk keeps that (walk_chain): it throws only where no chain can
\* go on, and otherwise extends the only path there is.
LEMMA WalkGoes ==
  ASSUME ChainAssumption, NEW t \in Tables, NEW head \in 0..TableSize, NEW s \in WalkStates,
         NEW k \in Nat, s.st = "walk", Going(t, head, s, k)
  PROVE  WalkHolds(t, head, WalkStep(t, s), k + 1)
<1> DEFINE i == s.idx
           new == WalkStep(t, s)
<1>0. s.chain \in Seq(Idx) /\ s.seen \in SUBSET Idx /\ i \in 0..TableSize /\ TableSize \in Nat /\ Len(s.chain) = k
  BY DEF ChainAssumption, WalkStates, Going
<1>1. CASE i >= TableSize \/ i \in s.seen \/ t[i].indirect
  <2>1. new.st = "throws"
    BY <1>1 DEF WalkStep, WalkStates
  <2>2. ASSUME NEW p \in ChainsOf(t, head) PROVE FALSE
    <3>1. k < Len(p) /\ p[k + 1] = i /\ \A j \in 1..k : p[j] = s.chain[j]
      BY DEF Going
    <3>2. p \in Paths /\ Len(p) \in Nat
      BY PathIs DEF ChainsOf
    <3>3. Linked(t, head, p, Len(p))
      BY <3>2, ChainIs
    <3>4. k + 1 \in 1..Len(p)
      BY <3>1, <3>2
    <3>5. i \in Idx /\ ~t[i].indirect
      BY <3>1, <3>3, <3>4 DEF Linked
    <3>6. i \in s.seen
      BY <1>0, <1>1, <3>5 DEF Idx
    <3>7. PICK j \in 1..k : s.chain[j] = i
      BY <3>6 DEF Going
    <3>8. j \in 1..Len(p) /\ j < k + 1 /\ p[j] = p[k + 1]
      BY <3>1, <3>2, <3>7
    <3> QED BY <3>4, <3>8, NoRepeat
  <2> QED BY <2>1, <2>2 DEF WalkHolds
<1>2. CASE i \in Idx /\ i \notin s.seen /\ ~t[i].indirect
  <2> DEFINE ch == Append(s.chain, i)
  <2>1. /\ new.st = IF t[i].more THEN "walk" ELSE "ok"
        /\ new.idx = t[i].next /\ new.seen = s.seen \cup {i} /\ new.chain = ch
    BY <1>0, <1>2 DEF WalkStep, Idx
  <2>2. ch \in Seq(Idx) /\ Len(ch) = k + 1 /\ ch[k + 1] = i /\ \A j \in 1..k : ch[j] = s.chain[j]
    BY <1>0, <1>2
  <2> HIDE DEF ch, new
  <2>3. \A p \in ChainsOf(t, head) : k + 1 <= Len(p) /\ \A j \in 1..(k + 1) : p[j] = ch[j]
    <3> SUFFICES ASSUME NEW p \in ChainsOf(t, head) PROVE k + 1 <= Len(p) /\ \A j \in 1..(k + 1) : p[j] = ch[j]
      OBVIOUS
    <3>1. k < Len(p) /\ p[k + 1] = i /\ \A j \in 1..k : p[j] = s.chain[j]
      BY DEF Going
    <3>2. Len(p) \in Nat
      BY PathIs DEF ChainsOf
    <3>3. \A j \in 1..(k + 1) : j = k + 1 \/ j \in 1..k
      OBVIOUS
    <3> QED BY <2>2, <3>1, <3>2, <3>3
  <2>4. Linked(t, head, ch, k + 1)
    <3>1. ch[1] = head
      <4>1. CASE k = 0
        BY <2>2, <4>1 DEF Going
      <4>2. CASE k > 0
        BY <2>2, <4>2 DEF Going
      <4> QED BY <4>1, <4>2
    <3>2. \A j \in 1..(k + 1) : ch[j] \in Idx /\ ~t[ch[j]].indirect
      <4>1. \A j \in 1..(k + 1) : j = k + 1 \/ j \in 1..k
        OBVIOUS
      <4> QED BY <1>2, <2>2, <4>1 DEF Going
    <3>3. ASSUME NEW j \in 1..k PROVE t[ch[j]].more /\ t[ch[j]].next = ch[j + 1]
      <4>1. t[s.chain[j]].more /\ ch[j] = s.chain[j]
        BY <2>2 DEF Going
      <4>2. CASE j = k
        BY <2>2, <4>1, <4>2 DEF Going
      <4>3. CASE j # k
        <5>1. j \in 1..(k - 1) /\ j + 1 \in 1..k
          BY <4>3
        <5> QED BY <2>2, <4>1, <5>1 DEF Going
      <4> QED BY <4>2, <4>3
    <3>4. (k + 1) - 1 = k
      OBVIOUS
    <3> QED BY <3>1, <3>2, <3>3, <3>4 DEF Linked
  <2>5. CASE t[i].more
    <3>1. Len(ch) = k + 1 /\ new.st = "walk"
      BY <2>1, <2>2, <2>5
    <3>2. Cardinality(new.seen) = k + 1
      <4>1. Cardinality(s.seen \cup {i}) = Cardinality(s.seen) + 1
        BY <1>0, <1>2, OneMore
      <4> QED BY <2>1, <4>1 DEF Going
    <3>3. new.seen = {ch[j] : j \in 1..(k + 1)}
      <4>1. 1..(k + 1) = (1..k) \cup {k + 1}
        OBVIOUS
      <4>2. s.seen = {s.chain[j] : j \in 1..k}
        BY DEF Going
      <4>3. {ch[j] : j \in 1..(k + 1)} = {s.chain[j] : j \in 1..k} \cup {i}
        BY <2>2, <4>1
      <4> QED BY <2>1, <4>2, <4>3
    <3>4. \A j \in 1..(k + 1) : t[ch[j]].more
      <4>1. \A j \in 1..(k + 1) : j = k + 1 \/ j \in 1..((k + 1) - 1)
        OBVIOUS
      <4> QED BY <2>2, <2>4, <2>5, <4>1 DEF Linked
    <3>5. ASSUME NEW p \in ChainsOf(t, head) PROVE k + 1 < Len(p) /\ p[(k + 1) + 1] = new.idx
      <4>1. p \in Paths /\ Len(p) \in Nat
        BY PathIs DEF ChainsOf
      <4>2. Linked(t, head, p, Len(p)) /\ ~t[p[Len(p)]].more
        BY <4>1, ChainIs
      <4>3. k + 1 <= Len(p) /\ p[k + 1] = i
        BY <2>2, <2>3
      <4>4. k + 1 # Len(p)
        BY <2>5, <4>2, <4>3
      <4>5. k + 1 \in 1..(Len(p) - 1)
        BY <4>1, <4>3, <4>4
      <4> QED BY <2>1, <4>1, <4>2, <4>3, <4>5 DEF Linked
    <3>6. ch[k + 1] = i /\ k + 1 > 0 /\ k + 1 # 0
      BY <2>2
    <3>7. Going(t, head, new, k + 1)
      <4>1. new.chain = ch
        BY <2>1
      <4>2. \A j \in 1..(k + 1) : ch[j] \in Idx /\ ~t[ch[j]].indirect /\ t[ch[j]].more
        BY <2>4, <3>4 DEF Linked
      <4>3. ch[1] = head /\ \A j \in 1..((k + 1) - 1) : t[ch[j]].next = ch[j + 1]
        BY <2>4 DEF Linked
      <4>4. new.idx = t[ch[k + 1]].next
        BY <2>1, <3>6
      <4>5. \A p \in ChainsOf(t, head) :
               k + 1 < Len(p) /\ p[(k + 1) + 1] = new.idx /\ \A j \in 1..(k + 1) : p[j] = ch[j]
        BY <2>3, <3>5
      <4> HIDE DEF new
      <4> QED BY <3>1, <3>2, <3>3, <3>6, <4>1, <4>2, <4>3, <4>4, <4>5 DEF Going
    <3> QED BY <3>1, <3>7 DEF WalkHolds, new
  <2>6. CASE ~t[i].more
    <3>1. Cardinality(new.seen) = k + 1 /\ new.seen \in SUBSET Idx
      <4>1. Cardinality(s.seen \cup {i}) = Cardinality(s.seen) + 1
        BY <1>0, <1>2, OneMore
      <4> QED BY <1>0, <1>2, <2>1, <4>1 DEF Going
    <3>2. k + 1 <= TableSize
      BY <3>1, FewTurns
    <3>3. ch \in Paths
      BY <1>0, <2>2, <3>2, PathIs
    <3>4. ch \in ChainsOf(t, head)
      BY <2>2, <2>4, <2>6, <3>3, ChainIs
    <3>5. ASSUME NEW p \in ChainsOf(t, head) PROVE p = ch
      <4>1. p \in Paths /\ Len(p) \in Nat /\ p \in Seq(Idx)
        BY PathIs DEF ChainsOf
      <4>2. Linked(t, head, p, Len(p))
        BY <4>1, ChainIs
      <4>3. k + 1 <= Len(p) /\ p[k + 1] = i
        BY <2>2, <2>3
      <4>4. ASSUME k + 1 # Len(p) PROVE FALSE
        <5>1. k + 1 \in 1..(Len(p) - 1)
          BY <4>1, <4>3, <4>4
        <5> QED BY <2>6, <4>2, <4>3, <5>1 DEF Linked
      <4>5. Len(p) = Len(ch)
        BY <2>2, <4>4
      <4> QED BY <2>2, <2>3, <4>1, <4>5, SeqEqual
    <3>6. new.st = "ok" /\ ChainsOf(t, head) = {new.chain}
      BY <2>1, <2>6, <3>4, <3>5
    <3> QED BY <3>6 DEF WalkHolds, new
  <2> QED BY <2>5, <2>6
<1> QED BY <1>0, <1>1, <1>2 DEF Idx

\* Each turn keeps it, and the last one has ended.
LEMMA WalkIsExact ==
  ASSUME ChainAssumption, NEW t \in Tables, NEW head \in 0..TableSize
  PROVE  LET res == walk_chain_inline(t, head)
         IN  IF ChainsOf(t, head) = {} THEN res.st = "throws" ELSE res.st = "ok" /\ ChainsOf(t, head) = {res.chain}
<1>1. PICK h : IsWalk(h, t, head) /\ walk_chain_inline(t, head) = h[TableSize + 1]
  BY WalkRun
<1> DEFINE N == TableSize + 1
           S == {k \in 0..N : WalkHolds(t, head, h[k], k)}
<1>2. /\ h[0] = WalkFrom(head) /\ h \in [0..N -> WalkStates]
      /\ \A k \in 1..N : h[k] = WalkStep(t, h[k - 1])
  BY <1>1 DEF IsWalk
<1>3. N \in Nat /\ TableSize \in Nat
  BY DEF ChainAssumption
<1> HIDE DEF N
<1>4. 0 \in S
  <2>1. h[0].st = "walk" /\ h[0].chain = <<>> /\ h[0].seen = {} /\ h[0].idx = head
    BY <1>2 DEF WalkFrom
  <2>2. \A p \in ChainsOf(t, head) : 0 < Len(p) /\ p[1] = head
    <3> SUFFICES ASSUME NEW p \in ChainsOf(t, head) PROVE 0 < Len(p) /\ p[1] = head
      OBVIOUS
    <3>1. p \in Paths /\ Len(p) \in 1..TableSize
      BY PathIs DEF ChainsOf
    <3> QED BY <1>3, <3>1, ChainIs DEF Linked
  <2>3. Cardinality({}) = 0
    BY FS_EmptySet
  <2>4. Going(t, head, h[0], 0)
    BY <2>1, <2>2, <2>3 DEF Going
  <2> QED BY <1>3, <2>1, <2>4 DEF WalkHolds
<1>5. ASSUME NEW k \in 1..N, k - 1 \in S PROVE k \in S
  <2>1. k - 1 \in 0..N /\ k \in 0..N /\ k - 1 \in Nat /\ (k - 1) + 1 = k
    BY <1>3
  <2>2. h[k - 1] \in WalkStates /\ h[k] = WalkStep(t, h[k - 1]) /\ WalkHolds(t, head, h[k - 1], k - 1)
    BY <1>2, <1>5, <2>1
  <2>3. CASE h[k - 1].st = "walk"
    <3>1. WalkHolds(t, head, h[k], (k - 1) + 1)
      BY <2>1, <2>2, <2>3, WalkGoes DEF WalkHolds
    <3> QED BY <2>1, <3>1
  <2>4. CASE h[k - 1].st # "walk"
    <3>1. h[k] = h[k - 1]
      BY <2>2, <2>4 DEF WalkStep
    <3> QED BY <2>1, <2>2, <2>4, <3>1 DEF WalkHolds
  <2> QED BY <2>3, <2>4
<1>6. N \in S
  <2> HIDE DEF S
  <2>1. \A k \in 0..N : k \in S
    BY <1>3, <1>4, <1>5, IntervalInduction
  <2> QED BY <1>3, <2>1
<1>7. h[N] \in WalkStates /\ WalkHolds(t, head, h[N], N)
  BY <1>2, <1>3, <1>6
<1>8. h[N].st # "walk"
  <2> SUFFICES ASSUME h[N].st = "walk" PROVE FALSE
    OBVIOUS
  <2>1. Cardinality(h[N].seen) = N /\ h[N].seen \in SUBSET Idx
    BY <1>7 DEF WalkHolds, Going, WalkStates
  <2>2. N <= TableSize
    BY <2>1, FewTurns
  <2> QED BY <1>3, <2>2 DEF N
<1>9. h[N].st \in {"ok", "throws"}
  BY <1>7, <1>8 DEF WalkStates
<1>10. walk_chain_inline(t, head) = h[N]
  BY <1>1 DEF N
<1> QED BY <1>7, <1>9, <1>10 DEF WalkHolds

\* The lengths of the descriptors in F.
SumOf(t, F) ==
  LET sum[n \in 0..TableSize] ==
        IF n = 0 THEN 0 ELSE sum[n-1] + (IF n - 1 \in F THEN t[n-1].len ELSE 0)
  IN  sum[TableSize]
AddLen(t, F, n, v) == v + (IF n - 1 \in F THEN t[n-1].len ELSE 0)
IsSum(h, t, F) == /\ h[0] = 0 /\ h \in [0..TableSize -> Nat]
                  /\ \A k \in 1..TableSize : h[k] = AddLen(t, F, k, h[k - 1])

\* The sum, term by term.
LEMMA SumRun ==
  ASSUME ChainAssumption, NEW t \in Tables, NEW F
  PROVE  \E h : IsSum(h, t, F) /\ SumOf(t, F) = h[TableSize]
<1> DEFINE N == TableSize
           V == Nat
           v0 == 0
           D == [k \in 1..N |-> [s \in V |-> AddLen(t, F, k, s)]]
           Body(at, k) == IF k = 0 THEN 0 ELSE at[k-1] + (IF k - 1 \in F THEN t[k-1].len ELSE 0)
           f == CHOOSE at : at = [k \in 0..N |-> Body(at, k)]
<1>1. SumOf(t, F) = f[TableSize]
  BY DEF SumOf
<1>2. N \in Nat
  BY DEF ChainAssumption
<1>3. v0 \in V
  OBVIOUS
<1>4. \A k \in 1..N : \A s \in V : AddLen(t, F, k, s) \in V
  <2>1. \A k \in 1..N : t[k-1].len \in Nat
    BY <1>2 DEF Tables, Idx
  <2> QED BY <2>1 DEF AddLen
<1>0. v0 = 0
  OBVIOUS
<1> HIDE DEF V, v0, N
<1>5. D \in [1..N -> [V -> V]] /\ \A k \in 1..N : \A s \in V : D[k][s] = AddLen(t, F, k, s)
  BY <1>4
<1> HIDE DEF D
<1>6. PICK e \in Unrolled(V, N, v0, D) : TRUE
  <2>1. Unrolled(V, N, v0, D) # {}
    BY <1>2, <1>3, <1>5, RunExists
  <2> HIDE DEF f, Body
  <2> QED BY <2>1
<1>7. e \in [0..N -> V] /\ e[0] = v0 /\ \A k \in 1..N : e[k] = D[k][e[k - 1]]
  BY <1>6 DEF Unrolled
<1>8. ASSUME NEW k \in 1..N PROVE e[k] = AddLen(t, F, k, e[k - 1])
  <2>1. k - 1 \in 0..N
    BY <1>2
  <2>2. e[k - 1] \in V
    BY <1>7, <2>1
  <2> QED BY <1>5, <1>7, <2>2
<1>9. e = [k \in 0..N |-> Body(e, k)]
  <2>1. ASSUME NEW k \in 0..N PROVE e[k] = Body(e, k)
    <3>1. k = 0 \/ (k # 0 /\ k \in 1..N)
      BY <1>2
    <3> QED BY <1>0, <1>7, <1>8, <3>1 DEF AddLen
  <2> HIDE DEF Body, f
  <2> QED BY <1>7, <2>1
<1>10. f = [k \in 0..N |-> Body(f, k)]
  BY <1>9
<1> HIDE DEF f
<1>11. f[0] = v0 /\ \A k \in 1..N : f[k] = AddLen(t, F, k, f[k - 1])
  <2>1. \A k \in 0..N : f[k] = Body(f, k)
    <3> HIDE DEF Body
    <3> QED BY <1>10
  <2>2. 0 \in 0..N /\ \A k \in 1..N : k \in 0..N /\ k # 0
    BY <1>2
  <2> QED BY <1>0, <2>1, <2>2 DEF AddLen
<1>12. f \in [0..N -> V]
  <2>1. IsOn(f, 0..N)
    <3> HIDE DEF Body
    <3> QED BY <1>10 DEF IsOn
  <2>2. f[0] = v0 /\ \A k \in 1..N : f[k - 1] \in V => f[k] = D[k][f[k - 1]]
    BY <1>5, <1>11
  <2>3. f \in Unrolled(V, N, v0, D)
    BY <1>2, <1>3, <1>5, <2>1, <2>2, RunStays
  <2> QED BY <2>3 DEF Unrolled
<1> QED BY <1>1, <1>11, <1>12 DEF N, V, v0, IsSum

\* Nothing filled, nothing counted.
LEMMA SumEmpty ==
  ASSUME ChainAssumption, NEW t \in Tables PROVE SumOf(t, {}) = 0
<1>1. PICK h : IsSum(h, t, {}) /\ SumOf(t, {}) = h[TableSize]
  BY SumRun
<1> DEFINE S == {k \in 0..TableSize : h[k] = 0}
<1>2. TableSize \in Nat
  BY DEF ChainAssumption
<1>3. 0 \in S
  BY <1>1, <1>2 DEF IsSum
<1>4. ASSUME NEW k \in 1..TableSize, k - 1 \in S PROVE k \in S
  <2>1. h[k] = 0 + 0 /\ k \in 0..TableSize
    BY <1>1, <1>2, <1>4 DEF IsSum, AddLen
  <2> QED BY <2>1
<1>5. \A k \in 0..TableSize : k \in S
  <2> HIDE DEF S
  <2> QED BY <1>2, <1>3, <1>4, IntervalInduction
<1> QED BY <1>1, <1>2, <1>5

\* A descriptor filled for the first time adds its length.
LEMMA SumAdd ==
  ASSUME ChainAssumption, NEW t \in Tables, NEW F, NEW i \in Idx, i \notin F
  PROVE  SumOf(t, F \cup {i}) = SumOf(t, F) + t[i].len
<1>1. PICK g : IsSum(g, t, F) /\ SumOf(t, F) = g[TableSize]
  BY SumRun
<1>2. PICK h : IsSum(h, t, F \cup {i}) /\ SumOf(t, F \cup {i}) = h[TableSize]
  BY SumRun
<1> DEFINE S == {k \in 0..TableSize : h[k] = g[k] + (IF k > i THEN t[i].len ELSE 0)}
<1>3. TableSize \in Nat /\ t[i].len \in Nat /\ i \in 0..(TableSize - 1)
  BY DEF ChainAssumption, Tables, Idx
<1>4. 0 \in S
  BY <1>1, <1>2, <1>3 DEF IsSum
<1>5. ASSUME NEW k \in 1..TableSize, k - 1 \in S PROVE k \in S
  <2> DEFINE a == IF k - 1 \in F THEN t[k-1].len ELSE 0
             b == IF k - 1 \in F \cup {i} THEN t[k-1].len ELSE 0
             x == g[k - 1]
             y == h[k - 1]
             l == t[i].len
  <2>1. k - 1 \in 0..TableSize /\ k \in 0..TableSize /\ k - 1 \in Idx
    BY <1>3 DEF Idx
  <2>2. g[k] = x + a /\ h[k] = y + b
    BY <1>1, <1>2 DEF IsSum, AddLen
  <2>3. y = x + (IF k - 1 > i THEN l ELSE 0)
    BY <1>5
  <2>4. x \in Nat /\ a \in Nat /\ l \in Nat
    BY <1>1, <1>3, <2>1 DEF IsSum, Tables
  <2>5. b = IF k - 1 = i THEN l ELSE a
    OBVIOUS
  <2>6. k - 1 = i => a = 0
    OBVIOUS
  <2> HIDE DEF a, b, x, y, l
  <2>7. y + b = (x + a) + (IF k > i THEN l ELSE 0)
    BY <1>3, <2>3, <2>4, <2>5, <2>6
  <2>8. h[k] = g[k] + (IF k > i THEN l ELSE 0)
    BY <2>2, <2>7
  <2> QED BY <2>1, <2>8 DEF l
<1>6. \A k \in 0..TableSize : k \in S
  <2> HIDE DEF S
  <2> QED BY <1>3, <1>4, <1>5, IntervalInduction
<1>7. TableSize > i /\ TableSize \in 0..TableSize
  BY <1>3
<1> QED BY <1>1, <1>2, <1>6, <1>7

\* What head reaches is closed under links, and is in every set that is.
Closed(t, head, S) == /\ head \in Idx => head \in S
                      /\ \A i \in S : t[i].more /\ t[i].next \in Idx => t[i].next \in S
\* ReachedFrom is the smallest closed set.
LEMMA ReachedIs ==
  ASSUME NEW t, NEW head
  PROVE  /\ ReachedFrom(t, head) \in SUBSET Idx /\ Closed(t, head, ReachedFrom(t, head))
         /\ \A S \in SUBSET Idx : Closed(t, head, S) => ReachedFrom(t, head) \subseteq S
<1> DEFINE C == {S \in SUBSET Idx : Closed(t, head, S)}
           R == {i \in Idx : \A S \in C : i \in S}
<1>1. ReachedFrom(t, head) = R
  BY DEF ReachedFrom, Closed
<1>2. R \in SUBSET Idx /\ \A S \in C : R \subseteq S
  OBVIOUS
<1>3. head \in Idx => head \in R
  BY DEF Closed
<1>4. ASSUME NEW i \in R, t[i].more, t[i].next \in Idx PROVE t[i].next \in R
  <2>1. \A S \in C : t[i].next \in S
    BY <1>4 DEF Closed
  <2> QED BY <1>4, <2>1
<1>5. Closed(t, head, R)
  <2> HIDE DEF R
  <2> QED BY <1>3, <1>4 DEF Closed
<1> HIDE DEF R
<1> QED BY <1>1, <1>2, <1>5

Filled(t, S) == {i \in S : t[i].write /\ ~t[i].far}
RngGoing(t, head, s, k) ==
  /\ s.hops = k /\ Cardinality(s.seen) = k /\ s.seen \subseteq ReachedFrom(t, head)
  /\ s.idx \in Idx => s.idx \in ReachedFrom(t, head)
  /\ head \in Idx => head \in s.seen \cup {s.idx}
  /\ \A i \in s.seen : t[i].more /\ t[i].next \in Idx => t[i].next \in s.seen \cup {s.idx}
RngHolds(t, head, s, k) ==
  /\ s.written = SumOf(t, Filled(t, s.seen))
  /\ s.st = "walk" => RngGoing(t, head, s, k)
  /\ s.st = "ok" => s.seen = ReachedFrom(t, head)

\* A set with as many members as the table is the whole table.
LEMMA FullTable ==
  ASSUME ChainAssumption, NEW S \in SUBSET Idx, Cardinality(S) = TableSize PROVE S = Idx
<1>1. IsFiniteSet(Idx) /\ Cardinality(Idx) = TableSize
  BY IdxCount
<1> QED BY <1>1, FS_Subset

\* A turn of service_chain keeps that.
LEMMA RngGoes ==
  ASSUME ChainAssumption, NEW t \in Tables, NEW head \in 0..TableSize, NEW s \in RngStates,
         NEW k \in Nat, s.st = "walk", RngHolds(t, head, s, k)
  PROVE  RngHolds(t, head, RngStep(t, s), k + 1)
<1> DEFINE i == s.idx
           R == ReachedFrom(t, head)
           new == RngStep(t, s)
<1>0. /\ s.seen \in SUBSET Idx /\ i \in 0..TableSize /\ TableSize \in Nat /\ s.hops = k /\ s.hops \in Nat
      /\ RngGoing(t, head, s, k) /\ s.written = SumOf(t, Filled(t, s.seen)) /\ s.written \in Nat
  BY DEF ChainAssumption, RngStates, RngHolds, RngGoing
<1>1. CASE s.hops = TableSize \/ i >= TableSize \/ i \in s.seen
  <2>1. new.st = "ok" /\ new.seen = s.seen /\ new.written = s.written
    BY <1>1 DEF RngStep, RngStates
  <2>2. i \in Idx => i \in s.seen
    <3>1. CASE s.hops = TableSize
      <4>1. Cardinality(s.seen) = TableSize
        BY <1>0, <3>1 DEF RngGoing
      <4>2. s.seen = Idx
        BY <1>0, <4>1, FullTable
      <4> QED BY <4>2
    <3>2. CASE i >= TableSize
      BY <1>0, <3>2 DEF Idx
    <3> QED BY <1>1, <3>1, <3>2
  <2>3. Closed(t, head, s.seen)
    BY <1>0, <2>2 DEF Closed, RngGoing
  <2>4. s.seen = R
    BY <1>0, <2>3, ReachedIs DEF RngGoing
  <2> HIDE DEF new
  <2>5. RngHolds(t, head, new, k + 1)
    BY <1>0, <2>1, <2>4 DEF RngHolds
  <2> QED BY <2>5 DEF new
<1>2. CASE s.hops # TableSize /\ i \in Idx /\ i \notin s.seen
  <2> DEFINE more == IF t[i].write /\ ~t[i].far THEN t[i].len ELSE 0
             next == t[i].next
  <2>1. /\ new.st = IF t[i].more THEN "walk" ELSE "ok"
        /\ new.idx = next /\ new.hops = k + 1 /\ new.seen = s.seen \cup {i}
        /\ new.written = s.written + more
    BY <1>0, <1>2 DEF RngStep, Idx
  <2>2. Cardinality(new.seen) = k + 1 /\ new.seen \in SUBSET Idx
    <3>1. Cardinality(s.seen \cup {i}) = Cardinality(s.seen) + 1
      BY <1>0, <1>2, OneMore
    <3> QED BY <1>0, <1>2, <2>1, <3>1 DEF RngGoing
  <2>3. new.written = SumOf(t, Filled(t, new.seen))
    <3>1. CASE t[i].write /\ ~t[i].far
      <4>1. Filled(t, new.seen) = Filled(t, s.seen) \cup {i} /\ i \notin Filled(t, s.seen)
        BY <1>2, <2>1, <3>1 DEF Filled
      <4> DEFINE F == Filled(t, s.seen)
      <4>2. i \in Idx /\ i \notin F
        BY <1>2, <4>1
      <4> HIDE DEF F, i
      <4>3. SumOf(t, F \cup {i}) = SumOf(t, F) + t[i].len
        BY <4>2, SumAdd
      <4> HIDE DEF new
      <4>4. new.written = s.written + t[i].len
        BY <2>1, <3>1
      <4> QED BY <1>0, <4>1, <4>3, <4>4 DEF F
    <3>2. CASE ~(t[i].write /\ ~t[i].far)
      <4>1. Filled(t, new.seen) = Filled(t, s.seen)
        BY <1>2, <2>1, <3>2 DEF Filled
      <4> QED BY <1>0, <2>1, <3>2, <4>1
    <3> QED BY <3>1, <3>2
  <2>4. i \in R /\ new.seen \subseteq R
    BY <1>0, <1>2, <2>1 DEF RngGoing
  <2>5. t[i].more /\ next \in Idx => next \in R
    BY <2>4, ReachedIs DEF Closed
  <2>6. head \in Idx => head \in new.seen
    BY <1>0, <2>1 DEF RngGoing
  <2>7. \A j \in new.seen : t[j].more /\ t[j].next \in Idx => t[j].next \in new.seen \cup {next}
    BY <1>0, <2>1 DEF RngGoing
  <2> HIDE DEF new, R
  <2>8. CASE t[i].more
    <3>1. RngGoing(t, head, new, k + 1)
      BY <2>1, <2>2, <2>4, <2>5, <2>6, <2>7, <2>8 DEF RngGoing, R
    <3>2. RngHolds(t, head, new, k + 1)
      BY <2>1, <2>3, <2>8, <3>1 DEF RngHolds
    <3> QED BY <3>2 DEF new
  <2>9. CASE ~t[i].more
    <3>1. \A j \in new.seen : t[j].more /\ t[j].next \in Idx => t[j].next \in new.seen
      BY <1>0, <2>1, <2>9 DEF RngGoing
    <3>2. Closed(t, head, new.seen)
      BY <2>6, <3>1 DEF Closed
    <3>3. new.seen = R
      BY <2>2, <2>4, <3>2, ReachedIs DEF R
    <3>4. RngHolds(t, head, new, k + 1)
      BY <2>1, <2>3, <2>9, <3>3 DEF RngHolds, R
    <3> QED BY <3>4 DEF new
  <2> QED BY <2>8, <2>9
<1> QED BY <1>0, <1>1, <1>2 DEF Idx

\* The random number device stops, and has filled each writable descriptor it can
\* reach once, whatever the table links to what (service_chain).
LEMMA RngIsExact ==
  ASSUME ChainAssumption, NEW t \in Tables, NEW head \in 0..TableSize
  PROVE  LET res == service_chain(t, head)
         IN  res.st = "ok" /\ res.written = SumOf(t, Filled(t, ReachedFrom(t, head)))
<1>1. PICK h : IsRng(h, t, head) /\ service_chain(t, head) = h[TableSize + 1]
  BY RngRun
<1> DEFINE N == TableSize + 1
           S == {k \in 0..N : RngHolds(t, head, h[k], k)}
<1>2. /\ h[0] = RngFrom(head) /\ h \in [0..N -> RngStates]
      /\ \A k \in 1..N : h[k] = RngStep(t, h[k - 1])
  BY <1>1 DEF IsRng
<1>3. N \in Nat /\ TableSize \in Nat
  BY DEF ChainAssumption
<1> HIDE DEF N
<1>4. 0 \in S
  <2>1. h[0].st = "walk" /\ h[0].hops = 0 /\ h[0].seen = {} /\ h[0].idx = head /\ h[0].written = 0
    BY <1>2 DEF RngFrom
  <2>2. Filled(t, {}) = {} /\ SumOf(t, {}) = 0 /\ Cardinality({}) = 0
    BY SumEmpty, FS_EmptySet DEF Filled
  <2>3. RngGoing(t, head, h[0], 0)
    BY <2>1, <2>2, ReachedIs DEF RngGoing, Closed
  <2>4. h[0].written = SumOf(t, Filled(t, h[0].seen)) /\ h[0].st # "ok"
    BY <2>1, <2>2
  <2>5. RngHolds(t, head, h[0], 0)
    BY <2>3, <2>4 DEF RngHolds
  <2> QED BY <1>3, <2>5
<1>5. ASSUME NEW k \in 1..N, k - 1 \in S PROVE k \in S
  <2>1. k - 1 \in 0..N /\ k \in 0..N /\ k - 1 \in Nat /\ (k - 1) + 1 = k
    BY <1>3
  <2>2. h[k - 1] \in RngStates /\ h[k] = RngStep(t, h[k - 1]) /\ RngHolds(t, head, h[k - 1], k - 1)
    BY <1>2, <1>5, <2>1
  <2>3. CASE h[k - 1].st = "walk"
    <3>1. RngHolds(t, head, h[k], (k - 1) + 1)
      BY <2>1, <2>2, <2>3, RngGoes
    <3> QED BY <2>1, <3>1
  <2>4. CASE h[k - 1].st # "walk"
    <3>1. /\ h[k].st = "ok" /\ h[k].seen = h[k - 1].seen /\ h[k].written = h[k - 1].written
          /\ h[k - 1].st = "ok"
      BY <2>2, <2>4 DEF RngStep, RngStates
    <3> QED BY <2>1, <2>2, <3>1 DEF RngHolds
  <2> QED BY <2>3, <2>4
<1>6. N \in S
  <2> HIDE DEF S
  <2>1. \A k \in 0..N : k \in S
    BY <1>3, <1>4, <1>5, IntervalInduction
  <2> QED BY <1>3, <2>1
<1>7. h[N] \in RngStates /\ RngHolds(t, head, h[N], N)
  BY <1>2, <1>3, <1>6
<1>8. h[N].st # "walk"
  <2> SUFFICES ASSUME h[N].st = "walk" PROVE FALSE
    OBVIOUS
  <2>1. Cardinality(h[N].seen) = N /\ h[N].seen \in SUBSET Idx
    BY <1>7 DEF RngHolds, RngGoing, RngStates
  <2>2. N <= TableSize
    BY <2>1, FewTurns
  <2> QED BY <1>3, <2>2 DEF N
<1>9. h[N].st = "ok"
  BY <1>7, <1>8 DEF RngStates
<1>10. service_chain(t, head) = h[N]
  BY <1>1 DEF N
<1> QED BY <1>7, <1>9, <1>10 DEF RngHolds

Descs == [len : Nat, write : BOOLEAN, far : BOOLEAN]
Content == Nat \X Nat
TxStates == [st : {"ok", "throws"}, skip : Nat, frame : Seq(Content)]

\* The chains of the model are sequences of descriptors.
LEMMA DescChainsAre ==
  ASSUME ChainAssumption, NEW c \in DescChains PROVE c \in Seq(Descs) /\ Len(c) \in Nat \ {0}
<1>1. TableSize \in Nat /\ DescLens \subseteq Nat
  BY DEF ChainAssumption
<1>2. PICK n \in 1..TableSize : c \in [1..n -> Descriptors]
  BY DEF DescChains
<1>3. Descriptors \subseteq Descs
  BY <1>1 DEF Descriptors, Descs
<1>4. c \in [1..n -> Descs] /\ n \in Nat \ {0}
  BY <1>1, <1>2, <1>3
<1> QED BY <1>4

\* The bytes of a descriptor from a position on are as many as it has left.
LEMMA BytesAre ==
  ASSUME NEW i \in Nat, NEW d \in Descs, NEW p \in 0..d.len
  PROVE  /\ BytesFrom(i, d, p) \in Seq(Content) /\ Len(BytesFrom(i, d, p)) = d.len - p
         /\ \A k \in 1..(d.len - p) : BytesFrom(i, d, p)[k] = <<i, p + k>>
<1>1. d.len - p \in Nat
  BY DEF Descs
<1> DEFINE m == d.len - p
<1>2. m \in Nat
  BY <1>1
<1> HIDE DEF m
<1>3. [k \in 1..m |-> <<i, p + k>>] \in Seq(Content)
  BY <1>2 DEF Content
<1> QED BY <1>2, <1>3 DEF BytesFrom, m

\* Where each descriptor begins.
IsBefore(h, c) == /\ h[0] = 0 /\ h \in [0..Len(c) -> Nat]
                  /\ \A k \in 1..Len(c) : h[k] = h[k - 1] + c[k].len
\* The positions at which the descriptors begin, turn by turn.
LEMMA BeforeRun ==
  ASSUME NEW c \in Seq(Descs)
  PROVE  \E h : IsBefore(h, c) /\ \A j \in 1..(Len(c) + 1) : Before(c, j) = h[j - 1]
<1> DEFINE N == Len(c)
           V == Nat
           v0 == 0
           D == [k \in 1..N |-> [s \in V |-> s + c[k].len]]
           Body(at, k) == IF k = 0 THEN 0 ELSE at[k-1] + c[k].len
           f == CHOOSE at : at = [k \in 0..N |-> Body(at, k)]
<1>1. \A j \in 1..(Len(c) + 1) : Before(c, j) = f[j - 1]
  BY DEF Before
<1>2. N \in Nat
  OBVIOUS
<1>3. v0 \in V
  OBVIOUS
<1>4. \A k \in 1..N : \A s \in V : s + c[k].len \in V
  <2>1. \A k \in 1..N : c[k] \in Descs
    OBVIOUS
  <2>2. \A k \in 1..N : c[k].len \in Nat
    BY <2>1 DEF Descs
  <2> QED BY <2>2
<1>0. v0 = 0
  OBVIOUS
<1> HIDE DEF V, v0, N
<1>5. D \in [1..N -> [V -> V]] /\ \A k \in 1..N : \A s \in V : D[k][s] = s + c[k].len
  BY <1>4
<1> HIDE DEF D
<1>6. PICK e \in Unrolled(V, N, v0, D) : TRUE
  <2>1. Unrolled(V, N, v0, D) # {}
    BY <1>2, <1>3, <1>5, RunExists
  <2> HIDE DEF f, Body
  <2> QED BY <2>1
<1>7. e \in [0..N -> V] /\ e[0] = v0 /\ \A k \in 1..N : e[k] = D[k][e[k - 1]]
  BY <1>6 DEF Unrolled
<1>8. ASSUME NEW k \in 1..N PROVE e[k] = e[k - 1] + c[k].len
  <2>1. k - 1 \in 0..N
    BY <1>2
  <2>2. e[k - 1] \in V
    BY <1>7, <2>1
  <2> QED BY <1>5, <1>7, <2>2
<1>9. e = [k \in 0..N |-> Body(e, k)]
  <2>1. ASSUME NEW k \in 0..N PROVE e[k] = Body(e, k)
    <3>1. k = 0 \/ (k # 0 /\ k \in 1..N)
      BY <1>2
    <3> QED BY <1>0, <1>7, <1>8, <3>1
  <2> HIDE DEF Body, f
  <2> QED BY <1>7, <2>1
<1>10. f = [k \in 0..N |-> Body(f, k)]
  BY <1>9
<1> HIDE DEF f
<1>11. f[0] = v0 /\ \A k \in 1..N : f[k] = f[k - 1] + c[k].len
  <2>1. \A k \in 0..N : f[k] = Body(f, k)
    <3> HIDE DEF Body
    <3> QED BY <1>10
  <2>2. 0 \in 0..N /\ \A k \in 1..N : k \in 0..N /\ k # 0
    BY <1>2
  <2> QED BY <1>0, <2>1, <2>2
<1>12. f \in [0..N -> V]
  <2>1. IsOn(f, 0..N)
    <3> HIDE DEF Body
    <3> QED BY <1>10 DEF IsOn
  <2>2. f[0] = v0 /\ \A k \in 1..N : f[k - 1] \in V => f[k] = D[k][f[k - 1]]
    BY <1>5, <1>11
  <2>3. f \in Unrolled(V, N, v0, D)
    BY <1>2, <1>3, <1>5, <2>1, <2>2, RunStays
  <2> QED BY <2>3 DEF Unrolled
<1> QED BY <1>1, <1>11, <1>12 DEF N, V, v0, IsBefore

\* A descriptor begins where the one before it ends.
LEMMA BeforeIs ==
  ASSUME NEW c \in Seq(Descs)
  PROVE  /\ Before(c, 1) = 0 /\ \A k \in 1..(Len(c) + 1) : Before(c, k) \in Nat
         /\ \A k \in 1..Len(c) : Before(c, k + 1) = Before(c, k) + c[k].len
<1>1. PICK h : IsBefore(h, c) /\ \A j \in 1..(Len(c) + 1) : Before(c, j) = h[j - 1]
  BY BeforeRun
<1>2. Len(c) \in Nat
  OBVIOUS
<1>3. ASSUME NEW k \in 1..Len(c) PROVE Before(c, k + 1) = Before(c, k) + c[k].len
  <2>1. k \in 1..(Len(c) + 1) /\ k + 1 \in 1..(Len(c) + 1) /\ (k + 1) - 1 = k
    BY <1>2
  <2>2. Before(c, k + 1) = h[k] /\ Before(c, k) = h[k - 1]
    BY <1>1, <2>1
  <2> QED BY <1>1, <2>2 DEF IsBefore
<1>4. ASSUME NEW k \in 1..(Len(c) + 1) PROVE Before(c, k) \in Nat
  BY <1>1, <1>2 DEF IsBefore
<1>5. Before(c, 1) = 0
  BY <1>1, <1>2 DEF IsBefore
<1> QED BY <1>3, <1>4, <1>5

\* Everything the chain holds.
IsConcat(h, c) == /\ h[0] = <<>> /\ h \in [0..Len(c) -> Seq(Content)]
                  /\ \A k \in 1..Len(c) : h[k] = h[k - 1] \o BytesFrom(k, c[k], 0)
\* What the chain holds, turn by turn.
LEMMA ConcatRun ==
  ASSUME NEW c \in Seq(Descs)
  PROVE  \E h : IsConcat(h, c) /\ Concat(c) = h[Len(c)]
<1> DEFINE N == Len(c)
           V == Seq(Content)
           v0 == <<>>
           D == [k \in 1..N |-> [s \in V |-> s \o BytesFrom(k, c[k], 0)]]
           Body(at, k) == IF k = 0 THEN <<>> ELSE at[k-1] \o BytesFrom(k, c[k], 0)
           f == CHOOSE at : at = [k \in 0..N |-> Body(at, k)]
<1>1. Concat(c) = f[Len(c)]
  BY DEF Concat
<1>2. N \in Nat
  OBVIOUS
<1>3. v0 \in V
  OBVIOUS
<1>4. \A k \in 1..N : \A s \in V : s \o BytesFrom(k, c[k], 0) \in V
  <2>1. ASSUME NEW k \in 1..N PROVE BytesFrom(k, c[k], 0) \in Seq(Content)
    <3>0. c[k] \in Descs
      OBVIOUS
    <3>1. c[k] \in Descs /\ k \in Nat /\ 0 \in 0..(c[k].len)
      BY <3>0 DEF Descs
    <3> DEFINE zero == 0
    <3>2. zero \in 0..(c[k].len)
      BY <3>1
    <3> HIDE DEF zero
    <3>3. BytesFrom(k, c[k], zero) \in Seq(Content)
      BY <3>1, <3>2, BytesAre
    <3> QED BY <3>3 DEF zero
  <2> QED BY <2>1
<1>0. v0 = <<>>
  OBVIOUS
<1> HIDE DEF V, v0, N
<1>5. D \in [1..N -> [V -> V]] /\ \A k \in 1..N : \A s \in V : D[k][s] = s \o BytesFrom(k, c[k], 0)
  BY <1>4
<1> HIDE DEF D
<1>6. PICK e \in Unrolled(V, N, v0, D) : TRUE
  <2>1. Unrolled(V, N, v0, D) # {}
    BY <1>2, <1>3, <1>5, RunExists
  <2> HIDE DEF f, Body
  <2> QED BY <2>1
<1>7. e \in [0..N -> V] /\ e[0] = v0 /\ \A k \in 1..N : e[k] = D[k][e[k - 1]]
  BY <1>6 DEF Unrolled
<1>8. ASSUME NEW k \in 1..N PROVE e[k] = e[k - 1] \o BytesFrom(k, c[k], 0)
  <2>1. k - 1 \in 0..N
    BY <1>2
  <2>2. e[k - 1] \in V
    BY <1>7, <2>1
  <2> QED BY <1>5, <1>7, <2>2
<1>9. e = [k \in 0..N |-> Body(e, k)]
  <2>1. ASSUME NEW k \in 0..N PROVE e[k] = Body(e, k)
    <3>1. k = 0 \/ (k # 0 /\ k \in 1..N)
      BY <1>2
    <3> QED BY <1>0, <1>7, <1>8, <3>1
  <2> HIDE DEF Body, f
  <2> QED BY <1>7, <2>1
<1>10. f = [k \in 0..N |-> Body(f, k)]
  BY <1>9
<1> HIDE DEF f
<1>11. f[0] = v0 /\ \A k \in 1..N : f[k] = f[k - 1] \o BytesFrom(k, c[k], 0)
  <2>1. \A k \in 0..N : f[k] = Body(f, k)
    <3> HIDE DEF Body
    <3> QED BY <1>10
  <2>2. 0 \in 0..N /\ \A k \in 1..N : k \in 0..N /\ k # 0
    BY <1>2
  <2> QED BY <1>0, <2>1, <2>2
<1>12. f \in [0..N -> V]
  <2>1. IsOn(f, 0..N)
    <3> HIDE DEF Body
    <3> QED BY <1>10 DEF IsOn
  <2>2. f[0] = v0 /\ \A k \in 1..N : f[k - 1] \in V => f[k] = D[k][f[k - 1]]
    BY <1>5, <1>11
  <2>3. f \in Unrolled(V, N, v0, D)
    BY <1>2, <1>3, <1>5, <2>1, <2>2, RunStays
  <2> QED BY <2>3 DEF Unrolled
<1> QED BY <1>1, <1>11, <1>12 DEF N, V, v0, IsConcat

TxTurn(who, k, d, x) == IF who = "kvm" THEN kvm_TxStep(k, d, x) ELSE hvf_TxStep(k, d, x)
\* One turn of process_tx leaves a state of its loop, on both backends.
LEMMA TxTurnTyped ==
  ASSUME NEW who, NEW k \in Nat, NEW d \in Descs, NEW x \in TxStates
  PROVE  TxTurn(who, k, d, x) \in TxStates
<1>1. x.skip \in Nat /\ x.frame \in Seq(Content) /\ d.len \in Nat /\ x.st \in {"ok", "throws"}
  BY DEF TxStates, Descs
<1>2. [x EXCEPT !.st = "throws"] \in TxStates
  BY DEF TxStates
<1>3. x.skip >= d.len => [x EXCEPT !.skip = @ - d.len] \in TxStates
  BY <1>1 DEF TxStates
<1>4. ASSUME x.skip < d.len PROVE [x EXCEPT !.skip = 0, !.frame = @ \o BytesFrom(k, d, x.skip)] \in TxStates
  <2> DEFINE f == x.frame \o BytesFrom(k, d, x.skip)
  <2>1. x.skip \in 0..d.len
    BY <1>1, <1>4
  <2>2. BytesFrom(k, d, x.skip) \in Seq(Content)
    BY <2>1, BytesAre
  <2>3. f \in Seq(Content)
    BY <1>1, <2>2
  <2>4. [x EXCEPT !.skip = 0, !.frame = @ \o BytesFrom(k, d, x.skip)] = [x EXCEPT !.skip = 0, !.frame = f]
    OBVIOUS
  <2> HIDE DEF f
  <2>5. [x EXCEPT !.skip = 0, !.frame = f] \in TxStates
    BY <2>3 DEF TxStates
  <2> QED BY <2>4, <2>5
<1> QED BY <1>1, <1>2, <1>3, <1>4 DEF TxTurn, kvm_TxStep, hvf_TxStep

TxFirst == [st |-> "ok", skip |-> HdrBytes, frame |-> <<>>]
IsTx(h, who, c) == /\ h[0] = TxFirst /\ h \in [0..Len(c) -> TxStates]
                   /\ \A k \in 1..Len(c) : h[k] = TxTurn(who, k, c[k], h[k - 1])
\* The loop of process_tx, turn by turn.
LEMMA TxRun ==
  ASSUME ChainAssumption, NEW who, NEW c \in Seq(Descs)
  PROVE  \E h : IsTx(h, who, c) /\ process_tx(who, c) = h[Len(c)]
<1> DEFINE N == Len(c)
           V == TxStates
           v0 == TxFirst
           D == [k \in 1..N |-> [s \in V |-> TxTurn(who, k, c[k], s)]]
           Body(at, k) == IF k = 0 THEN [st |-> "ok", skip |-> HdrBytes, frame |-> <<>>] ELSE IF who = "kvm" THEN kvm_TxStep(k, c[k], at[k-1]) ELSE hvf_TxStep(k, c[k], at[k-1])
           f == CHOOSE at : at = [k \in 0..N |-> Body(at, k)]
<1>1. process_tx(who, c) = f[Len(c)]
  BY DEF process_tx
<1>2. N \in Nat
  OBVIOUS
<1>3. v0 \in V
  BY DEF TxFirst, TxStates, ChainAssumption
<1>4. \A k \in 1..N : \A s \in V : TxTurn(who, k, c[k], s) \in V
  <2> SUFFICES ASSUME NEW k \in 1..N, NEW s \in V PROVE TxTurn(who, k, c[k], s) \in V
    OBVIOUS
  <2>1. c[k] \in Descs /\ k \in Nat
    OBVIOUS
  <2> QED BY <2>1, TxTurnTyped
<1>0. v0 = [st |-> "ok", skip |-> HdrBytes, frame |-> <<>>]
  BY DEF TxFirst
<1> HIDE DEF V, v0, N
<1>5. D \in [1..N -> [V -> V]] /\ \A k \in 1..N : \A s \in V : D[k][s] = TxTurn(who, k, c[k], s)
  BY <1>4
<1> HIDE DEF D
<1>6. PICK e \in Unrolled(V, N, v0, D) : TRUE
  <2>1. Unrolled(V, N, v0, D) # {}
    BY <1>2, <1>3, <1>5, RunExists
  <2> HIDE DEF f, Body
  <2> QED BY <2>1
<1>7. e \in [0..N -> V] /\ e[0] = v0 /\ \A k \in 1..N : e[k] = D[k][e[k - 1]]
  BY <1>6 DEF Unrolled
<1>8. ASSUME NEW k \in 1..N PROVE e[k] = TxTurn(who, k, c[k], e[k - 1])
  <2>1. k - 1 \in 0..N
    BY <1>2
  <2>2. e[k - 1] \in V
    BY <1>7, <2>1
  <2> QED BY <1>5, <1>7, <2>2
<1>9. e = [k \in 0..N |-> Body(e, k)]
  <2>1. ASSUME NEW k \in 0..N PROVE e[k] = Body(e, k)
    <3>1. k = 0 \/ (k # 0 /\ k \in 1..N)
      BY <1>2
    <3> QED BY <1>0, <1>7, <1>8, <3>1 DEF TxTurn
  <2> HIDE DEF Body, f
  <2> QED BY <1>7, <2>1
<1>10. f = [k \in 0..N |-> Body(f, k)]
  BY <1>9
<1> HIDE DEF f
<1>11. f[0] = v0 /\ \A k \in 1..N : f[k] = TxTurn(who, k, c[k], f[k - 1])
  <2>1. \A k \in 0..N : f[k] = Body(f, k)
    <3> HIDE DEF Body
    <3> QED BY <1>10
  <2>2. 0 \in 0..N /\ \A k \in 1..N : k \in 0..N /\ k # 0
    BY <1>2
  <2> QED BY <1>0, <2>1, <2>2 DEF TxTurn
<1>12. f \in [0..N -> V]
  <2>1. IsOn(f, 0..N)
    <3> HIDE DEF Body
    <3> QED BY <1>10 DEF IsOn
  <2>2. f[0] = v0 /\ \A k \in 1..N : f[k - 1] \in V => f[k] = D[k][f[k - 1]]
    BY <1>5, <1>11
  <2>3. f \in Unrolled(V, N, v0, D)
    BY <1>2, <1>3, <1>5, <2>1, <2>2, RunStays
  <2> QED BY <2>3 DEF Unrolled
<1> QED BY <1>1, <1>11, <1>12 DEF N, V, v0, IsTx

\* A sequence without its first m elements.
Rest(s, m) == SubSeq(s, m + 1, Len(s))

\* What is left of a sequence, element by element.
LEMMA RestIs ==
  ASSUME NEW X, NEW s \in Seq(X), NEW m \in Nat
  PROVE  /\ Rest(s, m) \in Seq(X) /\ Len(Rest(s, m)) = IF m < Len(s) THEN Len(s) - m ELSE 0
         /\ \A i \in 1..(Len(s) - m) : Rest(s, m)[i] = s[m + i]
         /\ Len(s) <= m => Rest(s, m) = <<>>
<1> DEFINE a == m + 1
           n == Len(s)
<1>1. a \in Int /\ n \in Int /\ n \in Nat /\ a >= 1
  OBVIOUS
<1>2. \A i \in a..n : s[i] \in X
  <2>1. \A i \in a..n : i \in 1..n
    BY <1>1
  <2> QED BY <2>1
<1>3. Rest(s, m) = SubSeq(s, a, n)
  BY DEF Rest
<1> HIDE DEF a, n
<1>4. /\ SubSeq(s, a, n) \in Seq(X) /\ Len(SubSeq(s, a, n)) = IF a <= n THEN n-a+1 ELSE 0
      /\ \A i \in 1..(n - a + 1) : SubSeq(s, a, n)[i] = s[a + i - 1]
  BY <1>1, <1>2, SubSeqProperties
<1>5. n < a => SubSeq(s, a, n) = <<>>
  BY <1>1, SubSeqEmpty
<1>6. n - a + 1 = n - m /\ \A i \in 1..(n - m) : a + i - 1 = m + i
  BY <1>1 DEF a
<1>7. (a <= n <=> m < n) /\ (n < a <=> n <= m)
  BY <1>1 DEF a
<1> QED BY <1>3, <1>4, <1>5, <1>6, <1>7 DEF n

\* The rest of two sequences is the rest of the first and of what of the second
\* the skipped part reaches.
LEMMA RestConcat ==
  ASSUME NEW X, NEW A \in Seq(X), NEW B \in Seq(X), NEW m \in Nat,
         NEW sk, sk = IF Len(A) >= m THEN 0 ELSE m - Len(A)
  PROVE  Rest(A \o B, m) = Rest(A, m) \o Rest(B, sk)
<1> DEFINE L == Rest(A \o B, m)
           P == Rest(A, m)
           Q == Rest(B, sk)
           a == Len(A)
           b == Len(B)
<1>1. A \o B \in Seq(X) /\ Len(A \o B) = a + b /\ a \in Nat /\ b \in Nat
      /\ \A i \in 1..(a + b) : (A \o B)[i] = IF i <= a THEN A[i] ELSE B[i - a]
  BY ConcatProperties
<1>2. sk \in Nat
  OBVIOUS
<1>3. /\ L \in Seq(X) /\ Len(L) = (IF m < a + b THEN a + b - m ELSE 0)
      /\ \A i \in 1..(a + b - m) : L[i] = (A \o B)[m + i]
  <2> DEFINE AB == A \o B
  <2>1. AB \in Seq(X) /\ Len(AB) = a + b
    BY <1>1
  <2> HIDE DEF AB
  <2>2. /\ Rest(AB, m) \in Seq(X) /\ Len(Rest(AB, m)) = IF m < Len(AB) THEN Len(AB) - m ELSE 0
        /\ \A i \in 1..(Len(AB) - m) : Rest(AB, m)[i] = AB[m + i]
    BY <2>1, RestIs
  <2> QED BY <2>1, <2>2 DEF AB
<1>4. /\ P \in Seq(X) /\ Len(P) = (IF m < a THEN a - m ELSE 0) /\ \A i \in 1..(a - m) : P[i] = A[m + i]
  BY RestIs
<1>5. /\ Q \in Seq(X) /\ Len(Q) = (IF sk < b THEN b - sk ELSE 0) /\ \A i \in 1..(b - sk) : Q[i] = B[sk + i]
  BY <1>2, RestIs
<1>6. sk = IF a >= m THEN 0 ELSE m - a
  OBVIOUS
<1> HIDE DEF L, P, Q, a, b
<1>7. /\ P \o Q \in Seq(X) /\ Len(P \o Q) = Len(P) + Len(Q)
      /\ \A i \in 1..(Len(P) + Len(Q)) : (P \o Q)[i] = IF i <= Len(P) THEN P[i] ELSE Q[i - Len(P)]
  BY <1>4, <1>5, ConcatProperties
<1>20. /\ Len(L) = Len(P \o Q) /\ Len(P) \in Nat /\ Len(Q) \in Nat
       /\ \A j \in Nat : j > a /\ j <= a + b /\ j > m =>
            j - m > Len(P) /\ (j - m) - Len(P) \in 1..(b - sk) /\ sk + ((j - m) - Len(P)) = j - a
  <2> DEFINE l == Len(L)
             p == Len(P)
             q == Len(Q)
             pq == Len(P \o Q)
  <2>1. a \in Nat /\ b \in Nat /\ l = (IF m < a + b THEN a + b - m ELSE 0) /\ pq = p + q
        /\ p = (IF m < a THEN a - m ELSE 0) /\ q = (IF sk < b THEN b - sk ELSE 0)
    BY <1>1, <1>3, <1>4, <1>5, <1>7
  <2> HIDE DEF l, p, q, pq
  <2>2. l = pq /\ p \in Nat /\ q \in Nat /\ p = (IF m < a THEN a - m ELSE 0)
    BY <1>2, <1>6, <2>1
  <2>3. ASSUME NEW j \in Nat, j > a, j <= a + b, j > m
        PROVE  j - m > p /\ (j - m) - p \in 1..(b - sk) /\ sk + ((j - m) - p) = j - a
    <3>1. CASE m < a
      <4>1. p = a - m /\ sk = 0
        BY <1>6, <2>1, <2>2, <3>1
      <4>2. (j - m) - p = j - a /\ j - m > p /\ j - a \in 1..b /\ b - sk = b
        BY <2>1, <2>3, <4>1
      <4>3. (j - m) - p \in 1..(b - sk)
        BY <4>2
      <4>4. sk + (j - a) = j - a
        BY <2>1, <2>3, <4>1
      <4> QED BY <4>2, <4>3, <4>4
    <3>2. CASE ~(m < a)
      <4>1. p = 0 /\ sk = m - a
        BY <1>6, <2>1, <2>2, <3>2
      <4>2. (j - m) - p = j - m /\ j - m > p /\ j - m \in 1..(b - sk) /\ sk + (j - m) = j - a
        BY <2>1, <2>3, <4>1
      <4> QED BY <4>2
    <3> QED BY <3>1, <3>2
  <2> QED BY <2>2, <2>3 DEF l, p, q, pq
<1>8. Len(L) = Len(P \o Q)
  BY <1>20
<1>9. ASSUME NEW i \in 1..Len(L) PROVE L[i] = (P \o Q)[i]
  <2>1. m < a + b /\ i \in 1..(a + b - m) /\ m + i \in 1..(a + b) /\ i \in Nat
    BY <1>1, <1>3
  <2>2. L[i] = IF m + i <= a THEN A[m + i] ELSE B[(m + i) - a]
    BY <1>1, <1>3, <2>1
  <2>3. i \in 1..(Len(P) + Len(Q))
    BY <1>7, <1>8
  <2>4. CASE m + i <= a
    <3>1. i <= Len(P) /\ i \in 1..(a - m)
      BY <1>1, <1>4, <2>1, <2>4
    <3> QED BY <1>4, <1>7, <2>2, <2>3, <2>4, <3>1
  <2>5. CASE m + i > a
    <3>0. m + i \in Nat /\ m + i > a /\ m + i <= a + b /\ m + i > m /\ (m + i) - m = i
      BY <1>1, <2>1, <2>5
    <3>4. i > Len(P) /\ i - Len(P) \in 1..(b - sk) /\ sk + (i - Len(P)) = (m + i) - a
      BY <1>20, <3>0
    <3>1. ~(i <= Len(P)) /\ i - Len(P) \in 1..(b - sk) /\ sk + (i - Len(P)) = (m + i) - a
      BY <1>20, <2>1, <3>4
    <3>2. L[i] = B[(m + i) - a]
      BY <1>1, <2>1, <2>2, <2>5
    <3> QED BY <1>5, <1>7, <2>3, <3>1, <3>2
  <2>6. m + i <= a \/ m + i > a
    BY <1>1, <2>1
  <2> QED BY <2>4, <2>5, <2>6
<1>10. L = P \o Q
  BY <1>3, <1>7, <1>8, <1>9, SeqEqual
<1> QED BY <1>10 DEF L, P, Q

\* A descriptor without its first bytes is what process_tx copies of it.
LEMMA RestOfBytes ==
  ASSUME NEW k \in Nat, NEW d \in Descs, NEW p \in 0..d.len
  PROVE  Rest(BytesFrom(k, d, 0), p) = BytesFrom(k, d, p)
<1> DEFINE n == d.len
           zero == 0
           B == BytesFrom(k, d, zero)
<1>1. n \in Nat /\ zero \in 0..n
  BY DEF Descs
<1>2. p \in Nat /\ p <= n
  BY <1>1
<1>3. zero = 0
  OBVIOUS
<1>4. BytesFrom(k, d, 0) = B
  OBVIOUS
<1> HIDE DEF zero
<1>5. B \in Seq(Content) /\ Len(B) = n - zero /\ \A i \in 1..(n - zero) : B[i] = <<k, zero + i>>
  BY <1>1, BytesAre
<1> HIDE DEF B, n
<1>6. Len(B) = n /\ n - zero = n /\ \A i \in 1..n : B[i] = <<k, i>>
  BY <1>1, <1>3, <1>5
<1>7. /\ Rest(B, p) \in Seq(Content) /\ Len(Rest(B, p)) = (IF p < n THEN n - p ELSE 0)
      /\ \A i \in 1..(n - p) : Rest(B, p)[i] = B[p + i]
  BY <1>2, <1>5, <1>6, RestIs
<1>8. /\ BytesFrom(k, d, p) \in Seq(Content) /\ Len(BytesFrom(k, d, p)) = n - p
      /\ \A i \in 1..(n - p) : BytesFrom(k, d, p)[i] = <<k, p + i>>
  BY BytesAre DEF n
<1>9. Len(Rest(B, p)) = n - p
  BY <1>1, <1>2, <1>7
<1>10. \A i \in 1..(n - p) : Rest(B, p)[i] = BytesFrom(k, d, p)[i]
  <2>1. \A i \in 1..(n - p) : p + i \in 1..n
    BY <1>1, <1>2
  <2> QED BY <1>6, <1>7, <1>8, <2>1
<1>11. Rest(B, p) = BytesFrom(k, d, p)
  BY <1>7, <1>8, <1>9, <1>10, SeqEqual
<1> QED BY <1>4, <1>11

\* What is known after the first k descriptors, of which the chain holds A.
Skipped(A) == IF Len(A) >= HdrBytes THEN 0 ELSE HdrBytes - Len(A)
FrameFits(who, A) == who = "hvf" => Len(A) <= HdrBytes + kMaxFrameSize
TxHolds(who, c, A, x, k) ==
  /\ x.st = "ok" => /\ x.skip = Skipped(A) /\ x.frame = Rest(A, HdrBytes)
                    /\ \A j \in 1..k : ~c[j].write
  /\ (\A j \in 1..k : ~c[j].write /\ ~c[j].far) /\ FrameFits(who, A) => x.st = "ok"

\* A turn of process_tx keeps that: it either goes on skipping the header or
\* copies what lies behind it.
LEMMA TxGoes ==
  ASSUME ChainAssumption, NEW who \in {"kvm", "hvf"}, NEW c \in Seq(Descs), NEW k \in 1..Len(c),
         NEW A \in Seq(Content), NEW x \in TxStates, TxHolds(who, c, A, x, k - 1)
  PROVE  TxHolds(who, c, A \o BytesFrom(k, c[k], 0), TxTurn(who, k, c[k], x), k)
<1> DEFINE d == c[k]
           B == BytesFrom(k, d, 0)
           new == TxTurn(who, k, d, x)
           n == d.len
           a == Len(A)
<1>0. d \in Descs /\ k \in Nat /\ HdrBytes \in Nat /\ kMaxFrameSize \in Nat
  BY DEF ChainAssumption
<1>1. n \in Nat /\ a \in Nat /\ d.write \in BOOLEAN /\ d.far \in BOOLEAN
  BY <1>0 DEF Descs
<1>2. B \in Seq(Content) /\ Len(B) = n
  <2> DEFINE zero == 0
  <2>1. zero \in 0..n
    BY <1>1
  <2> HIDE DEF zero
  <2>2. BytesFrom(k, d, zero) \in Seq(Content) /\ Len(BytesFrom(k, d, zero)) = n - zero
    BY <1>0, <2>1, BytesAre
  <2> QED BY <1>1, <2>2 DEF zero
<1>3. A \o B \in Seq(Content) /\ Len(A \o B) = a + n
  <2> HIDE DEF B
  <2>1. A \o B \in Seq(Content) /\ Len(A \o B) = Len(A) + Len(B)
    BY <1>2, ConcatProperties
  <2> QED BY <1>2, <2>1
<1>4. \A j \in 1..k : j = k \/ j \in 1..(k - 1)
  BY <1>0
<1> DEFINE good == \A j \in 1..k : ~c[j].write /\ ~c[j].far
<1>5. good /\ FrameFits(who, A \o B) => x.st = "ok" /\ ~d.write /\ ~d.far
  <2>1. FrameFits(who, A \o B) => FrameFits(who, A)
    <3> HIDE DEF B
    <3> QED BY <1>0, <1>1, <1>3 DEF FrameFits
  <2>2. good => ~d.write /\ ~d.far /\ \A j \in 1..(k - 1) : ~c[j].write /\ ~c[j].far
    BY <1>0
  <2> HIDE DEF d, B, good
  <2> QED BY <2>1, <2>2 DEF TxHolds
<1>6. CASE new.st = "throws"
  <2>1. ~(good /\ FrameFits(who, A \o B))
    <3> SUFFICES ASSUME good, FrameFits(who, A \o B) PROVE FALSE
      OBVIOUS
    <3>1. x.st = "ok" /\ ~d.write /\ ~d.far
      BY <1>5
    <3>2. x.skip = Skipped(A) /\ x.frame = Rest(A, HdrBytes) /\ x.skip \in Nat
      BY <3>1 DEF TxHolds, TxStates
    <3>3. CASE who = "kvm"
      <4>1. new.st = x.st
        BY <3>1, <3>3 DEF TxTurn, kvm_TxStep, TxStates
      <4> QED BY <1>6, <3>1, <4>1
    <3>4. CASE who = "hvf"
      <4>1. ~(x.skip >= n) /\ Len(x.frame) + (n - x.skip) > kMaxFrameSize
        <5>1. CASE x.skip >= n
          <6>1. new.st = x.st
            BY <3>1, <3>4, <5>1 DEF TxTurn, hvf_TxStep, TxStates
          <6> QED BY <1>6, <3>1, <6>1
        <5>2. CASE ~(x.skip >= n) /\ ~(Len(x.frame) + (n - x.skip) > kMaxFrameSize)
          <6>1. new.st = x.st
            BY <3>1, <3>4, <5>2 DEF TxTurn, hvf_TxStep, TxStates
          <6> QED BY <1>6, <3>1, <6>1
        <5> QED BY <5>1, <5>2
      <4>2. Len(x.frame) = IF HdrBytes < a THEN a - HdrBytes ELSE 0
        BY <1>0, <3>2, RestIs
      <4>3. a + n <= HdrBytes + kMaxFrameSize
        <5> HIDE DEF B
        <5> QED BY <1>3, <3>4 DEF FrameFits
      <4>4. x.skip = IF a >= HdrBytes THEN 0 ELSE HdrBytes - a
        BY <3>2 DEF Skipped
      <4> HIDE DEF n, a
      <4> QED BY <1>0, <1>1, <3>2, <4>1, <4>2, <4>3, <4>4
    <3> QED BY <3>3, <3>4
  <2>2. TxHolds(who, c, A \o B, new, k)
    <3> HIDE DEF B, new
    <3> QED BY <1>6, <2>1 DEF TxHolds
  <2> QED BY <2>2
<1>7. CASE new.st = "ok"
  <2>1. x.st = "ok" /\ ~d.write
    BY <1>7 DEF TxTurn, kvm_TxStep, hvf_TxStep, TxStates
  <2>2. x.skip = Skipped(A) /\ x.frame = Rest(A, HdrBytes) /\ x.skip \in Nat /\ \A j \in 1..(k - 1) : ~c[j].write
    BY <2>1 DEF TxHolds, TxStates
  <2>3. \A j \in 1..k : ~c[j].write
    BY <1>4, <2>1, <2>2
  <2>4. x.skip = IF a >= HdrBytes THEN 0 ELSE HdrBytes - a
    BY <2>2 DEF Skipped
  <2>5. Rest(A \o B, HdrBytes) = x.frame \o Rest(B, x.skip)
    <3> DEFINE sk == x.skip
    <3>1. sk = IF Len(A) >= HdrBytes THEN 0 ELSE HdrBytes - Len(A)
      BY <2>4
    <3> HIDE DEF B, sk
    <3>2. Rest(A \o B, HdrBytes) = Rest(A, HdrBytes) \o Rest(B, sk)
      BY <1>0, <1>2, <3>1, RestConcat
    <3> QED BY <2>2, <3>2 DEF sk
  <2>6. CASE x.skip >= n
    <3>1. new.skip = x.skip - n /\ new.frame = x.frame
      BY <1>7, <2>1, <2>6 DEF TxTurn, kvm_TxStep, hvf_TxStep, TxStates
    <3>2. new.skip = Skipped(A \o B)
      <4>1. Skipped(A \o B) = IF a + n >= HdrBytes THEN 0 ELSE HdrBytes - (a + n)
        <5> HIDE DEF B
        <5> QED BY <1>3 DEF Skipped
      <4> HIDE DEF new, a, n
      <4> QED BY <1>0, <1>1, <2>2, <2>4, <2>6, <3>1, <4>1
    <3>3. Rest(B, x.skip) = <<>>
      <4> DEFINE p == x.skip
      <4>1. p \in Nat /\ Len(B) <= p
        BY <1>2, <2>2, <2>6
      <4> HIDE DEF B, p
      <4>2. Rest(B, p) = <<>>
        BY <1>2, <4>1, RestIs
      <4> QED BY <4>2 DEF p
    <3>4. x.frame \o <<>> = x.frame
      <4>1. x.frame \in Seq(Content)
        BY DEF TxStates
      <4> QED BY <4>1
    <3>5. new.frame = Rest(A \o B, HdrBytes)
      BY <2>5, <3>1, <3>3, <3>4
    <3> HIDE DEF B, new
    <3>6. TxHolds(who, c, A \o B, new, k)
      BY <1>7, <2>3, <3>2, <3>5 DEF TxHolds
    <3> QED BY <3>6 DEF B, new
  <2>7. CASE x.skip < n
    <3>1. new.skip = 0 /\ new.frame = x.frame \o BytesFrom(k, d, x.skip)
      <4>1. ~(x.skip >= n)
        BY <1>1, <2>2, <2>7
      <4> QED BY <1>7, <2>1, <4>1 DEF TxTurn, kvm_TxStep, hvf_TxStep, TxStates
    <3>2. new.skip = Skipped(A \o B)
      <4>1. Skipped(A \o B) = IF a + n >= HdrBytes THEN 0 ELSE HdrBytes - (a + n)
        <5> HIDE DEF B
        <5> QED BY <1>3 DEF Skipped
      <4> HIDE DEF new, a, n
      <4> QED BY <1>0, <1>1, <2>2, <2>4, <2>7, <3>1, <4>1
    <3>3. Rest(B, x.skip) = BytesFrom(k, d, x.skip)
      <4> DEFINE p == x.skip
      <4>1. p \in 0..d.len
        BY <1>1, <2>2, <2>7
      <4> HIDE DEF p, d
      <4> QED BY <1>0, <4>1, RestOfBytes DEF p
    <3>4. new.frame = Rest(A \o B, HdrBytes)
      BY <2>5, <3>1, <3>3
    <3> HIDE DEF B, new
    <3>6. TxHolds(who, c, A \o B, new, k)
      BY <1>7, <2>3, <3>2, <3>4 DEF TxHolds
    <3> QED BY <3>6 DEF B, new
  <2> QED BY <1>1, <2>2, <2>6, <2>7
<1>8. new.st \in {"ok", "throws"}
  <2>1. new \in TxStates
    <3> HIDE DEF d
    <3> QED BY <1>0, TxTurnTyped
  <2> HIDE DEF new
  <2> QED BY <2>1 DEF TxStates
<1> QED BY <1>6, <1>7, <1>8

\* The frame sent is what the buffers hold behind the header (process_tx).
LEMMA TxIsExact ==
  ASSUME ChainAssumption, NEW who \in {"kvm", "hvf"}, NEW c \in Seq(Descs)
  PROVE  LET res == process_tx(who, c)
             all == Concat(c)
         IN  /\ res.st = "ok" => res.frame = Rest(all, HdrBytes) /\ \A k \in 1..Len(c) : ~c[k].write
             /\ (\A k \in 1..Len(c) : ~c[k].write /\ ~c[k].far) /\ FrameFits(who, all) => res.st = "ok"
<1>1. PICK h : IsTx(h, who, c) /\ process_tx(who, c) = h[Len(c)]
  BY TxRun
<1>2. PICK g : IsConcat(g, c) /\ Concat(c) = g[Len(c)]
  BY ConcatRun
<1> DEFINE N == Len(c)
           S == {k \in 0..N : TxHolds(who, c, g[k], h[k], k)}
<1>3. N \in Nat /\ HdrBytes \in Nat \ {0}
  BY DEF ChainAssumption
<1>4. 0 \in S
  <2>1. h[0].st = "ok" /\ h[0].skip = HdrBytes /\ h[0].frame = <<>> /\ g[0] = <<>>
    BY <1>1, <1>2 DEF IsTx, IsConcat, TxFirst
  <2>2. Skipped(<<>>) = HdrBytes
    BY <1>3 DEF Skipped
  <2>3. Rest(<<>>, HdrBytes) = <<>>
    <3>1. <<>> \in Seq(Content) /\ Len(<<>>) <= HdrBytes
      BY <1>3
    <3> DEFINE e == <<>>
    <3> HIDE DEF e
    <3>2. Rest(e, HdrBytes) = <<>>
      BY <1>3, <3>1, RestIs DEF e
    <3> QED BY <3>2 DEF e
  <2>4. TxHolds(who, c, g[0], h[0], 0)
    BY <2>1, <2>2, <2>3 DEF TxHolds
  <2> QED BY <1>3, <2>4
<1>5. ASSUME NEW k \in 1..N, k - 1 \in S PROVE k \in S
  <2>1. k - 1 \in 0..N /\ k \in 0..N
    BY <1>3
  <2>2. /\ h[k - 1] \in TxStates /\ g[k - 1] \in Seq(Content) /\ h[k] = TxTurn(who, k, c[k], h[k - 1])
        /\ g[k] = g[k - 1] \o BytesFrom(k, c[k], 0)
    BY <1>1, <1>2, <2>1 DEF IsTx, IsConcat
  <2>3. TxHolds(who, c, g[k - 1], h[k - 1], k - 1)
    BY <1>5
  <2>4. TxHolds(who, c, g[k], h[k], k)
    BY <2>2, <2>3, TxGoes
  <2> QED BY <2>1, <2>4
<1>6. \A k \in 0..N : k \in S
  <2> HIDE DEF S
  <2> QED BY <1>3, <1>4, <1>5, IntervalInduction
<1>7. TxHolds(who, c, Concat(c), process_tx(who, c), N)
  BY <1>1, <1>2, <1>3, <1>6
<1> QED BY <1>7 DEF TxHolds

\* A descriptor's share of the header and of the frame, as the loop computes
\* it and as the positions of the buffers give it.
Computed(H, n, b, len, h, off, f) ==
  /\ h = (IF b < H THEN Lesser(len, H - b) ELSE 0) /\ off = b + h
  /\ f = IF off >= H /\ h < len /\ off < H + n THEN Lesser(len - h, n - (off - H)) ELSE 0
ByPosition(H, n, b, len, h, off, f) ==
  /\ h \in Nat /\ f \in Nat /\ off \in Nat /\ off + f = Lesser(b + len, H + n)
  /\ h = IF b < H THEN Lesser(b + len, H) - (IF b > 0 THEN b ELSE 0) ELSE 0
  /\ f = IF b + len > H THEN Lesser(b + len, H + n) - (IF b > H THEN b ELSE H) ELSE 0
\* The two ways to say what a descriptor gets agree.
LEMMA Shares ==
  ASSUME NEW H \in Nat, NEW n \in Nat, NEW b \in Nat, NEW len \in Nat, b < H + n,
         NEW h, NEW off, NEW f, Computed(H, n, b, len, h, off, f)
  PROVE  ByPosition(H, n, b, len, h, off, f)
<1>1. CASE b < H /\ len <= H - b
  BY <1>1 DEF Lesser, Computed, ByPosition
<1>2. CASE b < H /\ len > H - b
  BY <1>2 DEF Lesser, Computed, ByPosition
<1>3. CASE b >= H
  BY <1>3 DEF Lesser, Computed, ByPosition
<1> QED BY <1>1, <1>2, <1>3

RxParts == [hdr : Nat, frame : Nat]
RxStates == [st : {"go", "ok", "throws"}, offset : Nat, mem : Seq(RxParts)]

\* One turn of inject_rx_frame leaves a state of its loop.
LEMMA RxStepTyped ==
  ASSUME ChainAssumption, NEW d \in Descs, NEW n \in Nat, NEW s \in RxStates
  PROVE  RxStep(d, n, s) \in RxStates
<1>1. HdrBytes \in Nat /\ d.len \in Nat /\ s.offset \in Nat /\ s.mem \in Seq(RxParts)
  BY DEF ChainAssumption, Descs, RxStates
<1>2. CASE s.st # "go"
  BY <1>2 DEF RxStep
<1>3. CASE s.st = "go" /\ (~d.write \/ d.far)
  BY <1>3 DEF RxStep, RxStates
<1>4. CASE s.st = "go" /\ ~(~d.write \/ d.far)
  <2> DEFINE h   == IF s.offset < HdrBytes THEN Lesser(d.len, HdrBytes - s.offset) ELSE 0
             off == s.offset + h
             f   == IF off >= HdrBytes /\ h < d.len /\ off < HdrBytes + n
                    THEN Lesser(d.len - h, n - (off - HdrBytes)) ELSE 0
             nst == IF off + f >= HdrBytes + n THEN "ok" ELSE "go"
             part == [hdr |-> h, frame |-> f]
             sum == off + f
             m == Append(s.mem, part)
  <2>1. h \in Nat
    BY <1>1 DEF Lesser
  <2>2. off \in Nat
    BY <1>1, <2>1
  <2>3. f \in Nat
    <3> HIDE DEF h, off
    <3> QED BY <1>1, <2>1, <2>2 DEF Lesser
  <2>4. sum \in Nat /\ part \in RxParts /\ nst \in {"go", "ok", "throws"}
    <3> HIDE DEF h, off, f
    <3> QED BY <2>1, <2>2, <2>3 DEF RxParts
  <2>5. RxStep(d, n, s) = [st |-> nst, offset |-> sum, mem |-> m]
    <3> QED BY <1>4 DEF RxStep
  <2> HIDE DEF h, off, f, nst, part, sum
  <2>6. m \in Seq(RxParts)
    BY <1>1, <2>4
  <2> HIDE DEF m
  <2> QED BY <2>4, <2>5, <2>6 DEF RxStates
<1> QED BY <1>2, <1>3, <1>4

RxFirst == [st |-> "go", offset |-> 0, mem |-> <<>>]
IsRx(h, c, n) == /\ h[0] = RxFirst /\ h \in [0..Len(c) -> RxStates]
                 /\ \A k \in 1..Len(c) : h[k] = RxStep(c[k], n, h[k - 1])
\* The loop of inject_rx_frame, turn by turn.
LEMMA RxRun ==
  ASSUME ChainAssumption, NEW c \in Seq(Descs), NEW n \in Nat
  PROVE  \E h : IsRx(h, c, n) /\ scatter(c, n) = h[Len(c)]
<1> DEFINE N == Len(c)
           V == RxStates
           v0 == RxFirst
           D == [k \in 1..N |-> [s \in V |-> RxStep(c[k], n, s)]]
           Body(at, k) == IF k = 0 THEN [st |-> "go", offset |-> 0, mem |-> <<>>] ELSE RxStep(c[k], n, at[k-1])
           f == CHOOSE at : at = [k \in 0..N |-> Body(at, k)]
<1>1. scatter(c, n) = f[Len(c)]
  BY DEF scatter
<1>2. N \in Nat
  OBVIOUS
<1>3. v0 \in V
  BY DEF RxFirst, RxStates
<1>4. \A k \in 1..N : \A s \in V : RxStep(c[k], n, s) \in V
  <2> SUFFICES ASSUME NEW k \in 1..N, NEW s \in V PROVE RxStep(c[k], n, s) \in V
    OBVIOUS
  <2>1. c[k] \in Descs
    OBVIOUS
  <2> QED BY <2>1, RxStepTyped
<1>0. v0 = [st |-> "go", offset |-> 0, mem |-> <<>>]
  BY DEF RxFirst
<1> HIDE DEF V, v0, N
<1>5. D \in [1..N -> [V -> V]] /\ \A k \in 1..N : \A s \in V : D[k][s] = RxStep(c[k], n, s)
  BY <1>4
<1> HIDE DEF D
<1>6. PICK e \in Unrolled(V, N, v0, D) : TRUE
  <2>1. Unrolled(V, N, v0, D) # {}
    BY <1>2, <1>3, <1>5, RunExists
  <2> HIDE DEF f, Body
  <2> QED BY <2>1
<1>7. e \in [0..N -> V] /\ e[0] = v0 /\ \A k \in 1..N : e[k] = D[k][e[k - 1]]
  BY <1>6 DEF Unrolled
<1>8. ASSUME NEW k \in 1..N PROVE e[k] = RxStep(c[k], n, e[k - 1])
  <2>1. k - 1 \in 0..N
    BY <1>2
  <2>2. e[k - 1] \in V
    BY <1>7, <2>1
  <2> QED BY <1>5, <1>7, <2>2
<1>9. e = [k \in 0..N |-> Body(e, k)]
  <2>1. ASSUME NEW k \in 0..N PROVE e[k] = Body(e, k)
    <3>1. k = 0 \/ (k # 0 /\ k \in 1..N)
      BY <1>2
    <3> QED BY <1>0, <1>7, <1>8, <3>1
  <2> HIDE DEF Body, f
  <2> QED BY <1>7, <2>1
<1>10. f = [k \in 0..N |-> Body(f, k)]
  BY <1>9
<1> HIDE DEF f
<1>11. f[0] = v0 /\ \A k \in 1..N : f[k] = RxStep(c[k], n, f[k - 1])
  <2>1. \A k \in 0..N : f[k] = Body(f, k)
    <3> HIDE DEF Body
    <3> QED BY <1>10
  <2>2. 0 \in 0..N /\ \A k \in 1..N : k \in 0..N /\ k # 0
    BY <1>2
  <2> QED BY <1>0, <2>1, <2>2
<1>12. f \in [0..N -> V]
  <2>1. IsOn(f, 0..N)
    <3> HIDE DEF Body
    <3> QED BY <1>10 DEF IsOn
  <2>2. f[0] = v0 /\ \A k \in 1..N : f[k - 1] \in V => f[k] = D[k][f[k - 1]]
    BY <1>5, <1>11
  <2>3. f \in Unrolled(V, N, v0, D)
    BY <1>2, <1>3, <1>5, <2>1, <2>2, RunStays
  <2> QED BY <2>3 DEF Unrolled
<1> QED BY <1>1, <1>11, <1>12 DEF N, V, v0, IsRx

\* Descriptors begin one behind the other.
LEMMA BeforeGrows ==
  ASSUME NEW c \in Seq(Descs), NEW j \in 1..(Len(c) + 1), NEW k \in 1..(Len(c) + 1), j <= k
  PROVE  Before(c, j) <= Before(c, k)
<1> DEFINE N == Len(c)
           S == {i \in 0..N : j <= i + 1 => Before(c, j) <= Before(c, i + 1)}
<1>1. N \in Nat /\ j \in Nat /\ k \in Nat /\ Before(c, j) \in Nat
  BY BeforeIs
<1>2. 0 \in S
  <2>1. j <= 1 => j = 1
    BY <1>1
  <2>2. j <= 0 + 1 => Before(c, j) = Before(c, 0 + 1)
    BY <2>1
  <2> QED BY <1>1, <2>2
<1>3. ASSUME NEW i \in 1..N, i - 1 \in S PROVE i \in S
  <2>1. i \in 0..N /\ i \in 1..(N + 1) /\ i + 1 \in 1..(N + 1) /\ (i - 1) + 1 = i
    BY <1>1
  <2>2. j <= i => Before(c, j) <= Before(c, i)
    BY <1>3, <2>1
  <2>3. /\ Before(c, i) \in Nat /\ Before(c, i + 1) = Before(c, i) + c[i].len
        /\ c[i] \in Descs
    BY <2>1, BeforeIs
  <2>4. c[i].len \in Nat
    BY <2>3 DEF Descs
  <2>5. Before(c, i) <= Before(c, i + 1) /\ Before(c, i + 1) \in Nat
    BY <2>3, <2>4
  <2>6. ASSUME j <= i + 1 PROVE Before(c, j) <= Before(c, i + 1)
    <3>1. CASE j = i + 1
      <4>1. Before(c, j) = Before(c, i + 1)
        BY <3>1
      <4> QED BY <2>5, <4>1
    <3>2. CASE j <= i
      BY <1>1, <2>2, <2>3, <2>5, <3>2
    <3> QED BY <1>1, <2>1, <2>6, <3>1, <3>2
  <2> QED BY <2>1, <2>6
<1>4. \A i \in 0..N : i \in S
  <2> HIDE DEF S
  <2> QED BY <1>1, <1>2, <1>3, IntervalInduction
<1>5. k - 1 \in 0..N /\ (k - 1) + 1 = k
  BY <1>1
<1> QED BY <1>4, <1>5

\* The share of header and frame that positions give descriptor k, and what is
\* known after the first k of them.
Share(c, k, from, to) == Lesser(Before(c, k) + c[k].len, to)
                         - (IF Before(c, k) > from THEN Before(c, k) ELSE from)
ShareIs(c, n, k, r) ==
  /\ r.hdr = IF Before(c, k) < HdrBytes THEN Share(c, k, 0, HdrBytes) ELSE 0
  /\ r.frame = IF Before(c, k) + c[k].len > HdrBytes THEN Share(c, k, HdrBytes, HdrBytes + n) ELSE 0
Good(d) == d.write /\ ~d.far
MemIs(c, n, mem, m) ==
  Len(mem) = m /\ \A j \in 1..m : Good(c[j]) /\ ShareIs(c, n, j, mem[j])
RxHolds(c, n, x, k) ==
  /\ x.st = "go" => /\ Before(c, k + 1) < HdrBytes + n /\ x.offset = Before(c, k + 1)
                    /\ MemIs(c, n, x.mem, k)
  /\ x.st = "ok" => \E m \in 1..k : /\ Before(c, m) < HdrBytes + n /\ Before(c, m + 1) >= HdrBytes + n
                                    /\ MemIs(c, n, x.mem, m)
  /\ x.st = "throws" => \E j \in 1..k : Before(c, j) < HdrBytes + n /\ ~Good(c[j])

\* One more good descriptor, with its share.
LEMMA MemGrows ==
  ASSUME NEW c, NEW n, NEW m \in Nat, NEW mem \in Seq(RxParts), MemIs(c, n, mem, m),
         NEW r \in RxParts, Good(c[m + 1]), ShareIs(c, n, m + 1, r)
  PROVE  MemIs(c, n, Append(mem, r), m + 1)
<1> DEFINE new == Append(mem, r)
<1>1. Len(mem) = m /\ \A j \in 1..m : Good(c[j]) /\ ShareIs(c, n, j, mem[j])
  BY DEF MemIs
<1>2. Len(new) = m + 1 /\ new[m + 1] = r /\ \A j \in 1..m : new[j] = mem[j]
  BY <1>1
<1> HIDE DEF new
<1>3. \A j \in 1..(m + 1) : j \in 1..m \/ j = m + 1
  OBVIOUS
<1>4. ASSUME NEW j \in 1..(m + 1) PROVE Good(c[j]) /\ ShareIs(c, n, j, new[j])
  BY <1>1, <1>2, <1>3
<1>5. MemIs(c, n, new, m + 1)
  BY <1>2, <1>4 DEF MemIs
<1> QED BY <1>5 DEF new

\* A turn of inject_rx_frame keeps that.
LEMMA RxGoes ==
  ASSUME ChainAssumption, NEW c \in Seq(Descs), NEW n \in Nat, NEW k \in 1..Len(c),
         NEW x \in RxStates, RxHolds(c, n, x, k - 1)
  PROVE  RxHolds(c, n, RxStep(c[k], n, x), k)
<1> DEFINE d == c[k]
           new == RxStep(d, n, x)
           need == HdrBytes + n
           b == Before(c, k)
<1>0. d \in Descs /\ k \in Nat /\ k - 1 \in Nat /\ (k - 1) + 1 = k /\ HdrBytes \in Nat
  BY DEF ChainAssumption
<1>1. b \in Nat /\ d.len \in Nat /\ Before(c, k + 1) = b + d.len
  <2>1. k \in 1..(Len(c) + 1)
    OBVIOUS
  <2>2. b \in Nat /\ Before(c, k + 1) = b + d.len
    BY <2>1, BeforeIs
  <2>3. d.len \in Nat
    BY <1>0 DEF Descs
  <2> QED BY <2>2, <2>3
<1>2. \A j \in 1..(k - 1) : j \in 1..k
  BY <1>0
<1>3. CASE x.st # "go"
  <2>1. new = x
    BY <1>3 DEF RxStep
  <2>2. RxHolds(c, n, x, k)
    <3>1. x.st = "ok" => \E m \in 1..k : /\ Before(c, m) < HdrBytes + n /\ Before(c, m + 1) >= HdrBytes + n
                                         /\ MemIs(c, n, x.mem, m)
      BY <1>2 DEF RxHolds
    <3>2. x.st = "throws" => \E j \in 1..k : Before(c, j) < HdrBytes + n /\ ~Good(c[j])
      BY <1>2 DEF RxHolds
    <3> QED BY <1>3, <3>1, <3>2 DEF RxHolds
  <2> QED BY <2>1, <2>2
<1>4. ASSUME x.st = "go" PROVE b < need /\ x.offset = b /\ MemIs(c, n, x.mem, k - 1) /\ x.mem \in Seq(RxParts)
  BY <1>0, <1>4 DEF RxHolds, RxStates
<1>5. CASE x.st = "go" /\ ~Good(d)
  <2>1. new = [x EXCEPT !.st = "throws"]
    BY <1>5 DEF RxStep, Good
  <2>2. new.st = "throws"
    BY <2>1 DEF RxStates
  <2>3. k \in 1..k /\ Before(c, k) < HdrBytes + n /\ ~Good(c[k])
    BY <1>0, <1>4, <1>5
  <2> HIDE DEF new
  <2>4. RxHolds(c, n, new, k)
    BY <2>2, <2>3 DEF RxHolds
  <2> QED BY <2>4 DEF new
<1>6. CASE x.st = "go" /\ Good(d)
  <2> DEFINE h   == IF x.offset < HdrBytes THEN Lesser(d.len, HdrBytes - x.offset) ELSE 0
             off == x.offset + h
             f   == IF off >= HdrBytes /\ h < d.len /\ off < HdrBytes + n
                    THEN Lesser(d.len - h, n - (off - HdrBytes)) ELSE 0
             nst == IF off + f >= HdrBytes + n THEN "ok" ELSE "go"
             r   == [hdr |-> h, frame |-> f]
  <2>1. new = [st |-> nst, offset |-> off + f, mem |-> Append(x.mem, r)]
    BY <1>6 DEF RxStep, Good
  <2>2. x.offset = b /\ b < need /\ MemIs(c, n, x.mem, k - 1) /\ x.mem \in Seq(RxParts)
    BY <1>4, <1>6
  <2>3. h = (IF b < HdrBytes THEN Lesser(d.len, HdrBytes - b) ELSE 0) /\ off = b + h
    BY <2>2
  <2>4. f = IF off >= HdrBytes /\ h < d.len /\ off < HdrBytes + n
            THEN Lesser(d.len - h, n - (off - HdrBytes)) ELSE 0
    OBVIOUS
  <2>5. nst = IF off + f >= HdrBytes + n THEN "ok" ELSE "go"
    OBVIOUS
  <2> DEFINE len == d.len
  <2>11. new.st = nst /\ new.offset = off + f /\ new.mem = Append(x.mem, r)
    BY <2>1
  <2>12. r.hdr = h /\ r.frame = f
    OBVIOUS
  <2> HIDE DEF h, off, f, nst, new
  <2>6. /\ h \in Nat /\ f \in Nat /\ off \in Nat /\ off + f = Lesser(b + len, need)
        /\ h = IF b < HdrBytes THEN Lesser(b + len, HdrBytes) - (IF b > 0 THEN b ELSE 0) ELSE 0
        /\ f = IF b + len > HdrBytes THEN Lesser(b + len, need) - (IF b > HdrBytes THEN b ELSE HdrBytes) ELSE 0
    <3> HIDE DEF b, d
    <3>1. len \in Nat /\ b \in Nat
      BY <1>1
    <3> HIDE DEF len
    <3>2. Computed(HdrBytes, n, b, len, h, off, f)
      BY <2>3, <2>4 DEF len, Computed
    <3>3. ByPosition(HdrBytes, n, b, len, h, off, f)
      BY <1>0, <2>2, <3>1, <3>2, Shares
    <3> QED BY <3>3 DEF ByPosition
  <2>7. ShareIs(c, n, k, r)
    <3> HIDE DEF r
    <3> QED BY <2>6, <2>12 DEF ShareIs, Share
  <2>8. r \in RxParts
    BY <2>6 DEF RxParts
  <2> HIDE DEF r
  <2>9. MemIs(c, n, new.mem, k)
    <3> DEFINE m == k - 1
    <3>1. m \in Nat /\ m + 1 = k /\ MemIs(c, n, x.mem, m) /\ Good(c[m + 1]) /\ ShareIs(c, n, m + 1, r)
      BY <1>0, <1>6, <2>2, <2>7
    <3> HIDE DEF m
    <3>2. MemIs(c, n, Append(x.mem, r), m + 1)
      BY <2>2, <2>8, <3>1, MemGrows
    <3> QED BY <2>11, <3>1, <3>2
  <2>10. \/ new.st = "ok" /\ Before(c, k + 1) >= need
         \/ new.st = "go" /\ Before(c, k + 1) < need /\ new.offset = Before(c, k + 1)
    <3> DEFINE tot == Before(c, k + 1)
               sum == off + f
    <3>0. tot \in Nat /\ tot = b + len
      BY <1>1
    <3>9. off + f = Lesser(b + len, need)
      BY <2>6
    <3> HIDE DEF tot, b, len, need
    <3>1. tot \in Nat /\ sum = Lesser(tot, need)
      BY <3>0, <3>9
    <3> USE DEF need
    <3>2. nst = IF sum >= need THEN "ok" ELSE "go"
      BY <2>5
    <3>3. new.offset = sum
      BY <2>11
    <3> HIDE DEF sum, tot
    <3>4. tot >= need => sum = need
      BY <1>0, <3>1 DEF Lesser
    <3>5. ~(tot >= need) => sum = tot /\ tot < need
      BY <1>0, <3>1 DEF Lesser
    <3>6. CASE tot >= need
      <4>1. nst = "ok"
        BY <1>0, <3>2, <3>4, <3>6
      <4> QED BY <2>11, <3>6, <4>1 DEF tot
    <3>7. CASE ~(tot >= need)
      <4>1. nst = "go"
        BY <1>0, <3>2, <3>5, <3>7
      <4> QED BY <2>11, <3>3, <3>5, <3>7, <4>1 DEF tot
    <3> QED BY <3>6, <3>7
  <2>13. k \in 1..k
    BY <1>0
  <2>14. RxHolds(c, n, new, k)
    BY <2>2, <2>9, <2>10, <2>13 DEF RxHolds
  <2> QED BY <2>14 DEF new
<1> QED BY <1>3, <1>5, <1>6

\* A frame is delivered when good buffers hold it, with its share in each, and
\* refused otherwise (inject_rx_frame).
LEMMA RxIsExact ==
  ASSUME ChainAssumption, NEW c \in Seq(Descs), Len(c) # 0, NEW n \in Nat
  PROVE  LET res  == scatter(c, n)
             need == HdrBytes + n
             bad  == \E k \in 1..Len(c) : Before(c, k) < need /\ ~Good(c[k])
         IN  /\ res.st = "throws" <=> bad
             /\ res.st = "ok" <=> ~bad /\ Before(c, Len(c)) + c[Len(c)].len >= need
             /\ ~bad => \A k \in DOMAIN res.mem : ShareIs(c, n, k, res.mem[k])
<1>1. PICK h : IsRx(h, c, n) /\ scatter(c, n) = h[Len(c)]
  BY RxRun
<1> DEFINE N == Len(c)
           S == {k \in 0..N : RxHolds(c, n, h[k], k)}
           need == HdrBytes + n
           res == scatter(c, n)
           bad  == \E k \in 1..N : Before(c, k) < need /\ ~Good(c[k])
<1>2. N \in Nat \ {0} /\ HdrBytes \in Nat \ {0} /\ need \in Nat
  BY DEF ChainAssumption
<1>3. 0 \in S
  <2>1. h[0].st = "go" /\ h[0].offset = 0 /\ h[0].mem = <<>>
    BY <1>1 DEF IsRx, RxFirst
  <2>2. Before(c, 0 + 1) = 0
    BY BeforeIs
  <2>3. MemIs(c, n, <<>>, 0)
    BY DEF MemIs
  <2>4. RxHolds(c, n, h[0], 0)
    BY <1>2, <2>1, <2>2, <2>3 DEF RxHolds
  <2> QED BY <1>2, <2>4
<1>4. ASSUME NEW k \in 1..N, k - 1 \in S PROVE k \in S
  <2>1. k - 1 \in 0..N /\ k \in 0..N
    BY <1>2
  <2>2. h[k - 1] \in RxStates /\ h[k] = RxStep(c[k], n, h[k - 1])
    BY <1>1, <2>1 DEF IsRx
  <2>3. RxHolds(c, n, h[k - 1], k - 1)
    BY <1>4
  <2>4. RxHolds(c, n, h[k], k)
    BY <2>2, <2>3, RxGoes
  <2> QED BY <2>1, <2>4
<1>5. \A k \in 0..N : k \in S
  <2> HIDE DEF S
  <2> QED BY <1>2, <1>3, <1>4, IntervalInduction
<1>6. RxHolds(c, n, res, N)
  BY <1>1, <1>2, <1>5
<1>7. res.st \in {"go", "ok", "throws"} /\ res.mem \in Seq(RxParts)
  <2>1. res \in RxStates
    BY <1>1, <1>2 DEF IsRx
  <2> HIDE DEF res
  <2> QED BY <2>1 DEF RxStates
<1>8. Before(c, N) + c[N].len = Before(c, N + 1) /\ \A k \in 1..(N + 1) : Before(c, k) \in Nat
  BY <1>2, BeforeIs
<1> HIDE DEF res
<1>9. CASE res.st = "throws"
  <2>1. bad
    BY <1>6, <1>9 DEF RxHolds
  <2> QED BY <1>9, <2>1 DEF res
<1>10. CASE res.st = "go"
  <2>1. Before(c, N + 1) < need /\ MemIs(c, n, res.mem, N)
    BY <1>6, <1>10 DEF RxHolds
  <2>7. DOMAIN res.mem = 1..N
    BY <1>7, <2>1 DEF MemIs
  <2>5. \A k \in DOMAIN res.mem : ShareIs(c, n, k, res.mem[k])
    BY <2>1, <2>7, Zenon DEF MemIs
  <2>6. \A k \in 1..N : Good(c[k])
    BY <2>1 DEF MemIs
  <2>2. ~bad /\ \A k \in DOMAIN res.mem : ShareIs(c, n, k, res.mem[k])
    BY <2>5, <2>6
  <2>3. ~(Before(c, N + 1) >= need)
    <3>1. N + 1 \in 1..(N + 1)
      BY <1>2
    <3>2. Before(c, N + 1) \in Nat
      BY <1>8, <3>1
    <3> QED BY <1>2, <2>1, <3>2
  <2>4. ~(Before(c, N) + c[N].len >= need)
    BY <1>8, <2>3
  <2> QED BY <1>10, <2>2, <2>4 DEF res
<1>11. CASE res.st = "ok"
  <2>1. PICK m \in 1..N : Before(c, m + 1) >= need /\ MemIs(c, n, res.mem, m)
    BY <1>6, <1>11 DEF RxHolds
  <2>7. DOMAIN res.mem = 1..m
    BY <1>7, <2>1 DEF MemIs
  <2>2. \A k \in DOMAIN res.mem : ShareIs(c, n, k, res.mem[k])
    BY <2>1, <2>7, Zenon DEF MemIs
  <2>3. ASSUME NEW k \in 1..N, m + 1 <= k PROVE Before(c, k) >= need
    <3>1. k \in 1..(N + 1) /\ m + 1 \in 1..(N + 1)
      BY <1>2
    <3>2. Before(c, m + 1) <= Before(c, k)
      BY <2>3, <3>1, BeforeGrows
    <3>3. Before(c, m + 1) \in Nat /\ Before(c, k) \in Nat
      BY <1>8, <3>1
    <3> QED BY <1>2, <2>1, <3>2, <3>3
  <2>4. ~bad
    <3> SUFFICES ASSUME NEW k \in 1..N, Before(c, k) < need, ~Good(c[k]) PROVE FALSE
      OBVIOUS
    <3>1. CASE k <= m
      <4>1. k \in 1..m
        BY <1>2, <3>1
      <4> QED BY <2>1, <4>1 DEF MemIs
    <3>2. CASE m + 1 <= k
      <4>1. Before(c, k) >= need
        BY <2>3, <3>2
      <4>2. k \in 1..(N + 1)
        BY <1>2
      <4>3. Before(c, k) \in Nat
        BY <1>8, <4>2
      <4> QED BY <1>2, <4>1, <4>3
    <3> QED BY <1>2, <3>1, <3>2
  <2>5. Before(c, N + 1) >= need
    <3>1. N + 1 \in 1..(N + 1) /\ m + 1 \in 1..(N + 1) /\ m + 1 <= N + 1
      BY <1>2
    <3>2. Before(c, m + 1) <= Before(c, N + 1)
      BY <3>1, BeforeGrows
    <3>3. Before(c, m + 1) \in Nat /\ Before(c, N + 1) \in Nat
      BY <1>8, <3>1
    <3> QED BY <1>2, <2>1, <3>2, <3>3
  <2>6. Before(c, N) + c[N].len >= need
    BY <1>8, <2>5
  <2> QED BY <1>11, <2>2, <2>4, <2>6 DEF res
<1> QED BY <1>7, <1>9, <1>10, <1>11

\* A read of any width is its bytes, whatever the configuration holds.
BytesOfRead(cfg, off, len) ==
  \A k \in 1..len : /\ ReadMmio(cfg, off, len)[k] = ReadMmio(cfg, off + k - 1, 1)[1]
                    /\ off + k > RegSpace + 16 => ReadMmio(cfg, off, len)[k] = 0

\* What holds of a read of one configuration space (read_mmio).
LEMMA ReadInParts ==
  ASSUME NEW cfg, Len(cfg) \in 0..16, NEW off \in Nat, off >= RegSpace, NEW len \in Nat
  PROVE  BytesOfRead(cfg, off, len)
<1> DEFINE L == Len(cfg)
           at == off - RegSpace
<1>0. RegSpace \in Nat
  BY DEF RegSpace
<1>10. Len(cfg) \in 0..16
  OBVIOUS
<1>11. at \in Nat /\ off = RegSpace + at
  BY <1>0
<1>12. L \in Nat /\ L <= 16
  <2> HIDE DEF at
  <2>1. L \in 0..16
    BY <1>10
  <2> HIDE DEF L
  <2> QED BY <2>1
<1>1. L \in Nat /\ L <= 16 /\ at \in Nat /\ off = RegSpace + at
  BY <1>11, <1>12
<1>2. ASSUME NEW k \in 1..len
      PROVE  /\ ReadMmio(cfg, off, len)[k] = ReadMmio(cfg, off + k - 1, 1)[1]
             /\ off + k > RegSpace + 16 => ReadMmio(cfg, off, len)[k] = 0
  <2> DEFINE o == off + k - 1
             there == (o - RegSpace)
  <2>1. k \in Nat /\ k >= 1 /\ k <= len /\ o \in Nat /\ o >= RegSpace /\ there = at + k - 1 /\ 1 \in 1..1
    BY <1>0, <1>1
  <2>2. ReadMmio(cfg, off, len)[k] = IF at < L /\ k <= Lesser(len, L - at) THEN cfg[at + k] ELSE 0
    BY <1>0, <1>1 DEF ReadMmio
  <2> HIDE DEF o, L
  <2>3. ReadMmio(cfg, o, 1)[1] = IF there < L /\ 1 <= Lesser(1, L - there) THEN cfg[there + 1] ELSE 0
    BY <1>0, <2>1 DEF ReadMmio, L
  <2> HIDE DEF at, there
  <2>4. there + 1 = at + k
    BY <1>1, <2>1
  <2>5. (at < L /\ k <= Lesser(len, L - at)) <=> at + k <= L
    BY <1>1, <2>1 DEF Lesser
  <2>6. (there < L /\ 1 <= Lesser(1, L - there)) <=> at + k <= L
    BY <1>1, <2>1 DEF Lesser
  <2>7. off + k > RegSpace + 16 => ~(at + k <= L)
    BY <1>0, <1>1, <2>1
  <2>8. ReadMmio(cfg, off, len)[k] = ReadMmio(cfg, o, 1)[1]
    BY <2>2, <2>3, <2>4, <2>5, <2>6
  <2> QED BY <2>2, <2>5, <2>7, <2>8 DEF o
<1> HIDE DEF L, at
<1> QED BY <1>2 DEF BytesOfRead

Devices == {"kvm_blk", "hvf_blk", "whp_blk", "kvm_net", "hvf_net"}
\* It holds for every device: the two spaces are 16 and 12 bytes long.
LEMMA AnswersInParts ==
  ASSUME NEW who \in Devices, NEW off \in Nat, off >= RegSpace, NEW len \in Nat
  PROVE  \A k \in 1..len : /\ Answer(who, off, len)[k] = Answer(who, off + k - 1, 1)[1]
                           /\ off + k > RegSpace + 16 => Answer(who, off, len)[k] = 0
<1>1. Len(BlkConfig) \in 0..16 /\ Len(NetConfig) \in 0..16
  <2> DEFINE a == <<1, 2, 3, 4, 5, 6, 7, 8>>
             b == <<0, 0, 0, 0>>
             c == <<128, 0, 0, 0>>
             d == <<11, 12, 13, 14, 15, 16>>
             e == <<1, 0>>
             f == <<220, 5>>
  <2>1. a \in Seq(Nat) /\ Len(a) = 8 /\ b \in Seq(Nat) /\ Len(b) = 4 /\ c \in Seq(Nat) /\ Len(c) = 4
    OBVIOUS
  <2>2. d \in Seq(Nat) /\ Len(d) = 6 /\ e \in Seq(Nat) /\ Len(e) = 2 /\ f \in Seq(Nat) /\ Len(f) = 2
    OBVIOUS
  <2>3. BlkConfig = (a \o b) \o c /\ NetConfig = ((d \o e) \o e) \o f
    BY DEF BlkConfig, NetConfig
  <2> HIDE DEF a, b, c, d, e, f
  <2>10. \A s \in Seq(Nat) : \A t \in Seq(Nat) : s \o t \in Seq(Nat) /\ Len(s \o t) = Len(s) + Len(t)
    BY ConcatProperties
  <2>4. /\ a \o b \in Seq(Nat) /\ Len(a \o b) = Len(a) + Len(b)
        /\ d \o e \in Seq(Nat) /\ Len(d \o e) = Len(d) + Len(e)
    BY <2>1, <2>2, <2>10, Zenon
  <2>5. /\ Len((a \o b) \o c) = Len(a \o b) + Len(c)
        /\ (d \o e) \o e \in Seq(Nat) /\ Len((d \o e) \o e) = Len(d \o e) + Len(e)
    BY <2>1, <2>2, <2>4, <2>10, Zenon
  <2>6. Len(((d \o e) \o e) \o f) = Len((d \o e) \o e) + Len(f)
    BY <2>2, <2>5, <2>10, Zenon
  <2>7. Len(BlkConfig) = (Len(a) + Len(b)) + Len(c) /\ Len(NetConfig) = ((Len(d) + Len(e)) + Len(e)) + Len(f)
    BY <2>3, <2>4, <2>5, <2>6, Zenon
  <2>8. Len(a) = 8 /\ Len(b) = 4 /\ Len(c) = 4 /\ Len(d) = 6 /\ Len(e) = 2 /\ Len(f) = 2
    BY <2>1, <2>2
  <2> DEFINE x == Len(BlkConfig)
             y == Len(NetConfig)
  <2>9. x = (8 + 4) + 4 /\ y = ((6 + 2) + 2) + 2
    BY <2>7, <2>8, Zenon
  <2> HIDE DEF x, y
  <2>11. x \in 0..16 /\ y \in 0..16
    BY <2>9
  <2> QED BY <2>11 DEF x, y
<1>2. BytesOfRead(BlkConfig, off, len) /\ BytesOfRead(NetConfig, off, len)
  BY <1>1, ReadInParts
<1>3. \E cfg \in {BlkConfig, NetConfig} : \A o \in Nat : \A n \in Nat : Answer(who, o, n) = ReadMmio(cfg, o, n)
  BY DEF Answer, Devices, kvm_blk_read_mmio, hvf_blk_read_mmio, whp_blk_read_mmio, kvm_net_read_mmio, hvf_net_read_mmio
<1>4. PICK cfg \in {BlkConfig, NetConfig} : \A o \in Nat : \A n \in Nat : Answer(who, o, n) = ReadMmio(cfg, o, n)
  BY <1>3
<1>5. BytesOfRead(cfg, off, len)
  BY <1>2
<1>6. \A k \in 1..len : off + k - 1 \in Nat /\ 1 \in Nat
  OBVIOUS
<1> QED BY <1>4, <1>5, <1>6 DEF BytesOfRead

\* The index and the slot of the ring that lie j entries after index s.
Index == 0..(IndexWrap - 1)
PosAt(s, j) == (s + j) % IndexWrap
SlotAt(s, j) == (s + j) % RingSize

\* Indices wrap at a multiple of the ring's size, so an index and the number
\* it stands for have the same slot.
LEMMA SlotsAre ==
  ASSUME ChainAssumption, NEW s \in Index, NEW j \in Nat
  PROVE  /\ s \in Nat /\ PosAt(s, j) \in Index /\ SlotAt(s, j) \in Ring /\ PosAt(s, 0) = s
         /\ s % RingSize = SlotAt(s, 0)
         /\ PosAt(s, j) % RingSize = SlotAt(s, j) /\ Advance(PosAt(s, j)) = PosAt(s, j + 1)
         /\ Advance(s) \in Index /\ PosAt(Advance(s), j) = PosAt(s, j + 1) /\ SlotAt(Advance(s), j) = SlotAt(s, j + 1)
<1> DEFINE W == IndexWrap
           R == RingSize
           x == s + j
           y == s + 1
<1>1. W \in Nat \ {0} /\ R \in Nat \ {0} /\ W % R = 0
  BY DEF ChainAssumption
<1>2. s \in Nat /\ s \in Int /\ j \in Int /\ 1 \in Int
  BY <1>1 DEF Index
<1>20. x \in Int /\ y \in Int /\ s < W
  BY <1>1, <1>2 DEF Index
<1>3. PosAt(s, j) \in Index /\ SlotAt(s, j) \in Ring
  <2>1. x % W \in 0..(W - 1) /\ x % R \in 0..(R - 1)
    BY <1>1, <1>20, ModParts
  <2> QED BY <2>1 DEF PosAt, SlotAt, Index, Ring
<1>4. PosAt(s, 0) = s
  <2>1. s % W = s
    BY <1>1, <1>2, <1>20, ModSmall
  <2>2. s + 0 = s
    BY <1>2
  <2> QED BY <2>1, <2>2 DEF PosAt
<1>5. s % RingSize = SlotAt(s, 0)
  <2>1. s + 0 = s
    BY <1>2
  <2> QED BY <2>1 DEF SlotAt
<1>6. PosAt(s, j) % RingSize = SlotAt(s, j)
  <2>1. (x % W) % R = x % R
    BY <1>1, <1>20, ModMod
  <2> QED BY <2>1 DEF PosAt, SlotAt
<1>7. Advance(PosAt(s, j)) = PosAt(s, j + 1)
  <2>1. ((x % W) + 1) % W = (x + 1) % W
    BY <1>1, <1>2, <1>20, ModPlus
  <2>2. x + 1 = s + (j + 1)
    BY <1>2
  <2> QED BY <2>1, <2>2 DEF PosAt, Advance
<1>8. Advance(s) \in Index
  <2>1. y % W \in 0..(W - 1)
    BY <1>1, <1>20, ModParts
  <2> QED BY <2>1 DEF Advance, Index
<1>9. y + j = s + (j + 1)
  BY <1>2
<1>10. PosAt(Advance(s), j) = PosAt(s, j + 1)
  <2>1. ((y % W) + j) % W = (y + j) % W
    BY <1>1, <1>2, <1>20, ModPlus
  <2> QED BY <1>9, <2>1 DEF PosAt, Advance
<1>11. SlotAt(Advance(s), j) = SlotAt(s, j + 1)
  <2> DEFINE m == y % W
  <2>5. m % R = y % R
    BY <1>1, <1>20, ModMod
  <2>6. m \in 0..(W - 1)
    BY <1>1, <1>20, ModParts
  <2>1. m % R = y % R /\ m \in Int
    BY <1>1, <2>5, <2>6
  <2> HIDE DEF m
  <2>2. ((m % R) + j) % R = (m + j) % R
    BY <1>1, <1>2, <2>1, ModPlus
  <2>3. ((y % R) + j) % R = (y + j) % R
    BY <1>1, <1>2, <1>20, ModPlus
  <2>4. (m + j) % R = (y + j) % R
    BY <2>1, <2>2, <2>3
  <2> QED BY <1>9, <2>4 DEF SlotAt, Advance, m
<1> QED BY <1>2, <1>3, <1>4, <1>5, <1>6, <1>7, <1>8, <1>10, <1>11

\* Entries that lie less than a ring apart have different slots.
LEMMA RingSlotsDiffer ==
  ASSUME ChainAssumption, NEW s \in Index, NEW i \in Nat, NEW j \in Nat, i < j, j - i < RingSize
  PROVE  SlotAt(s, i) # SlotAt(s, j)
<1> DEFINE R == RingSize
           x == s + i
           y == s + j
           d == j - i
<1>1. R \in Nat \ {0} /\ s \in Nat
  BY SlotsAre DEF ChainAssumption
<1>2. x \in Int /\ y \in Int /\ y - x = d /\ d \in 1..(R - 1)
  BY <1>1
<1> HIDE DEF R, x, y, d
<1> SUFFICES ASSUME x % R = y % R PROVE FALSE
  BY DEF SlotAt, x, y, R
<1>3. PICK p \in Int : x = (p * R) + (x % R)
  BY <1>1, <1>2, ModParts
<1>4. PICK q \in Int : y = (q * R) + (y % R)
  BY <1>1, <1>2, ModParts
<1>5. x % R \in Int /\ y % R \in Int
  <2>1. x % R \in 0..(R - 1) /\ y % R \in 0..(R - 1)
    BY <1>1, <1>2, ModParts
  <2> HIDE DEF R
  <2> QED BY <1>1, <2>1
<1> DEFINE m == x % R
           P == p * R
           Q == q * R
<1>6. P \in Int /\ Q \in Int /\ m \in Int /\ x = P + m /\ y = Q + m
  BY <1>1, <1>3, <1>4, <1>5
<1>7. Q - P = (q - p) * R
  BY <1>1, <1>3, <1>4
<1> HIDE DEF m, P, Q
<1>8. Q - P = d
  BY <1>2, <1>6
<1> DEFINE k == q - p
<1>9. k \in Int /\ k * R = d
  BY <1>7, <1>8
<1> HIDE DEF k
<1>10. CASE k <= 0
  <2>1. k * R <= 0
    BY <1>1, <1>9, <1>10
  <2> QED BY <1>1, <1>2, <1>9, <2>1
<1>11. CASE k >= 1
  <2>1. k * R >= R
    <3>1. k \in Nat /\ R \in Nat /\ 1 \in Nat /\ 1 <= k
      BY <1>1, <1>9, <1>11
    <3>2. 1 * R <= k * R
      BY <3>1, TimesMono
    <3>3. 1 * R = R
      BY <1>1
    <3> QED BY <1>1, <1>9, <3>2, <3>3
  <2> QED BY <1>1, <1>2, <1>9, <2>1
<1> QED BY <1>9, <1>10, <1>11

RingsType ==
  [kind : {"whp", "kvm", "rng", "hvf"}, avail : Index, heads : [Ring -> Ring], last_avail : Index,
   used : Index, ids : [Ring -> Ring], push : SUBSET {"entry", "index"}, id : Ring, seen : Index,
   flight : Seq(Ring), wrong : BOOLEAN]

\* Of the chains in flight the device has taken a and shown u: the used ring
\* holds the first u, in order, and the available ring those from a on.
InOrder(r, u, a) ==
  /\ u \in Nat /\ a \in Nat /\ u <= a /\ a <= Len(r.flight) /\ Len(r.flight) <= RingSize
  /\ r.used = PosAt(r.seen, u) /\ r.last_avail = PosAt(r.seen, a) /\ r.avail = PosAt(r.seen, Len(r.flight))
  /\ \A j \in Nat : j < u => r.ids[SlotAt(r.seen, j)] = r.flight[j + 1]
  /\ \A j \in Nat : a <= j /\ j < Len(r.flight) => r.heads[SlotAt(r.seen, j)] = r.flight[j + 1]
  /\ r.push \in {{}, {"entry", "index"}, {"index"}}
  /\ r.push = {} => a = u
  /\ r.push # {} => a = u + 1 /\ r.id = r.flight[a]
  /\ r.push = {"index"} => r.ids[SlotAt(r.seen, u)] = r.id
  /\ ~r.wrong

\* The fields of the rings, one by one.
LEMMA RingsFields ==
  ASSUME NEW r \in RingsType
  PROVE  /\ r.avail \in Index /\ r.heads \in [Ring -> Ring] /\ r.last_avail \in Index /\ r.used \in Index
         /\ r.ids \in [Ring -> Ring] /\ r.push \subseteq {"entry", "index"} /\ r.id \in Ring /\ r.seen \in Index
         /\ r.flight \in Seq(Ring) /\ Len(r.flight) \in Nat /\ r.wrong \in BOOLEAN
BY DEF RingsType

Posted(r, h) == [r EXCEPT !.heads[r.avail % RingSize] = h, !.avail = Advance(@), !.flight = Append(@, h)]
\* The driver posts a head: its slot is none of those still to be taken.
LEMMA PostsInOrder ==
  ASSUME ChainAssumption, NEW r \in RingsType, NEW h \in Ring, Len(r.flight) < RingSize
  PROVE  /\ Posted(r, h) \in RingsType /\ Posted(r, h).kind = r.kind
         /\ \A u, a : InOrder(r, u, a) => InOrder(Posted(r, h), u, a)
<1> DEFINE new == Posted(r, h)
           hs == [r.heads EXCEPT ![r.avail % RingSize] = h]
           av == Advance(r.avail)
           fl == Append(r.flight, h)
           F == Len(r.flight)
<1>1. RingSize \in Nat \ {0}
  BY DEF ChainAssumption
<1>2. /\ r.avail \in Index /\ r.heads \in [Ring -> Ring] /\ r.seen \in Index /\ r.flight \in Seq(Ring)
      /\ F \in Nat
  BY RingsFields
<1>3. av \in Index /\ r.avail % RingSize \in Ring
  <2>2. 0 \in Nat
    OBVIOUS
  <2>1. r.avail % RingSize = SlotAt(r.avail, 0) /\ SlotAt(r.avail, 0) \in Ring /\ av \in Index
    BY <1>2, <2>2, SlotsAre, Zenon
  <2> QED BY <2>1
<1>4. hs \in [Ring -> Ring] /\ fl \in Seq(Ring) /\ Len(fl) = F + 1 /\ fl[F + 1] = h /\ \A i \in 1..F : fl[i] = r.flight[i]
  BY <1>2, <1>3
<1>5. new = [r EXCEPT !.heads = hs, !.avail = av, !.flight = fl]
  BY DEF Posted
<1> HIDE DEF hs, av, fl, new
<1>6. new \in RingsType
  BY <1>3, <1>4, <1>5 DEF RingsType
<1>7. /\ new.heads = hs /\ new.avail = av /\ new.flight = fl /\ new.kind = r.kind /\ new.last_avail = r.last_avail
      /\ new.used = r.used /\ new.ids = r.ids /\ new.push = r.push /\ new.id = r.id /\ new.seen = r.seen
      /\ new.wrong = r.wrong
  BY <1>5 DEF RingsType
<1>8. ASSUME NEW u, NEW a, InOrder(r, u, a) PROVE InOrder(new, u, a)
  <2>1. /\ u \in Nat /\ a \in Nat /\ u <= a /\ a <= F /\ r.avail = PosAt(r.seen, F)
    BY <1>8 DEF InOrder
  <2>2. r.avail % RingSize = SlotAt(r.seen, F) /\ av = PosAt(r.seen, F + 1)
    <3>1. PosAt(r.seen, F) % RingSize = SlotAt(r.seen, F) /\ Advance(PosAt(r.seen, F)) = PosAt(r.seen, F + 1)
      BY <1>2, SlotsAre, Zenon
    <3> QED BY <2>1, <3>1, Zenon DEF av
  <2>3. ASSUME NEW j \in Nat, a <= j, j < F + 1 PROVE hs[SlotAt(r.seen, j)] = fl[j + 1]
    <3>1. SlotAt(r.seen, j) \in Ring /\ SlotAt(r.seen, F) \in Ring
      BY <1>2, SlotsAre
    <3>2. CASE j = F
      <4>1. hs[SlotAt(r.seen, F)] = h
        BY <1>2, <2>2, <3>1 DEF hs
      <4> QED BY <1>4, <3>2, <4>1
    <3>3. CASE j < F
      <4>1. F - j < RingSize
        BY <1>1, <1>2, <3>3
      <4>2. SlotAt(r.seen, j) # SlotAt(r.seen, F)
        BY <1>2, <3>3, <4>1, RingSlotsDiffer
      <4>3. hs[SlotAt(r.seen, j)] = r.heads[SlotAt(r.seen, j)]
        BY <1>2, <2>2, <3>1, <4>2 DEF hs
      <4>4. r.heads[SlotAt(r.seen, j)] = r.flight[j + 1]
        BY <1>8, <2>3, <3>3 DEF InOrder
      <4>5. j + 1 \in 1..F
        BY <1>2, <3>3
      <4> QED BY <1>4, <4>3, <4>4, <4>5
    <3> QED BY <1>2, <2>3, <3>2, <3>3
  <2>4. ASSUME NEW j \in Nat, j < u PROVE r.ids[SlotAt(r.seen, j)] = fl[j + 1]
    <3>1. j + 1 \in 1..F
      BY <1>2, <2>1, <2>4
    <3>2. r.ids[SlotAt(r.seen, j)] = r.flight[j + 1]
      BY <1>8, <2>4 DEF InOrder
    <3> QED BY <1>4, <3>1, <3>2
  <2>5. ASSUME r.push # {} PROVE a = u + 1 /\ r.id = fl[a]
    <3>1. a = u + 1 /\ r.id = r.flight[a]
      BY <1>8, <2>5 DEF InOrder
    <3>2. a \in 1..F
      BY <1>2, <2>1, <3>1
    <3> QED BY <1>4, <3>1, <3>2
  <2>6. a <= F + 1 /\ F + 1 <= RingSize
    BY <1>1, <1>2, <2>1
  <2>7. /\ r.used = PosAt(r.seen, u) /\ r.last_avail = PosAt(r.seen, a)
        /\ r.push \in {{}, {"entry", "index"}, {"index"}} /\ (r.push = {} => a = u)
        /\ (r.push = {"index"} => r.ids[SlotAt(r.seen, u)] = r.id) /\ ~r.wrong
    BY <1>8 DEF InOrder
  <2> HIDE DEF F
  <2> QED BY <1>4, <1>7, <2>1, <2>2, <2>3, <2>4, <2>5, <2>6, <2>7 DEF InOrder
<1> QED BY <1>6, <1>7, <1>8 DEF new

Taken(r) == [r EXCEPT !.last_avail = Advance(@), !.push = {"entry", "index"},
                      !.id = r.heads[r.last_avail % RingSize]]
\* The device takes the next head, which is the one the driver posted.
LEMMA TakesInOrder ==
  ASSUME ChainAssumption, NEW r \in RingsType, r.push = {}, r.last_avail # r.avail
  PROVE  /\ Taken(r) \in RingsType /\ Taken(r).kind = r.kind
         /\ \A u, a : InOrder(r, u, a) => InOrder(Taken(r), u, a + 1)
<1> DEFINE new == Taken(r)
           la == Advance(r.last_avail)
           both == {"entry", "index"}
           hd == r.heads[r.last_avail % RingSize]
           F == Len(r.flight)
<1>2. /\ r.avail \in Index /\ r.heads \in [Ring -> Ring] /\ r.last_avail \in Index /\ r.seen \in Index
      /\ F \in Nat
  BY RingsFields
<1>3. la \in Index /\ hd \in Ring /\ both \subseteq {"entry", "index"} /\ both # {} /\ both # {"index"}
  <2>1. r.last_avail % RingSize = SlotAt(r.last_avail, 0) /\ SlotAt(r.last_avail, 0) \in Ring /\ la \in Index
    BY <1>2, SlotsAre
  <2>2. hd \in Ring
    BY <1>2, <2>1
  <2>3. both \subseteq {"entry", "index"} /\ both # {} /\ both # {"index"}
    OBVIOUS
  <2> QED BY <2>1, <2>2, <2>3
<1>5. new = [r EXCEPT !.last_avail = la, !.push = both, !.id = hd]
  BY DEF Taken
<1>9. both \in {{}, {"entry", "index"}, {"index"}}
  OBVIOUS
<1> HIDE DEF la, both, hd, new
<1>6. new \in RingsType
  BY <1>3, <1>5 DEF RingsType
<1>7. /\ new.heads = r.heads /\ new.avail = r.avail /\ new.flight = r.flight /\ new.kind = r.kind /\ new.last_avail = la
      /\ new.used = r.used /\ new.ids = r.ids /\ new.push = both /\ new.id = hd /\ new.seen = r.seen
      /\ new.wrong = r.wrong
  BY <1>5 DEF RingsType
<1>8. ASSUME NEW u, NEW a, InOrder(r, u, a) PROVE InOrder(new, u, a + 1)
  <2>1. /\ u \in Nat /\ a \in Nat /\ a = u /\ a <= F /\ r.avail = PosAt(r.seen, F) /\ r.last_avail = PosAt(r.seen, a)
    BY <1>8 DEF InOrder
  <2>2. a # F
    BY <2>1
  <2>3. a < F
    BY <1>2, <2>1, <2>2
  <2>4. r.last_avail % RingSize = SlotAt(r.seen, a) /\ la = PosAt(r.seen, a + 1)
    <3>1. PosAt(r.seen, a) % RingSize = SlotAt(r.seen, a) /\ Advance(PosAt(r.seen, a)) = PosAt(r.seen, a + 1)
      BY <1>2, <2>1, SlotsAre, Zenon
    <3> QED BY <2>1, <3>1, Zenon DEF la
  <2>5. hd = r.flight[a + 1]
    BY <1>8, <2>1, <2>3, <2>4 DEF InOrder, hd
  <2>6. a + 1 \in Nat /\ u <= a + 1 /\ a + 1 <= F /\ a + 1 = u + 1 /\ \A j \in Nat : a + 1 <= j => a <= j
    BY <1>2, <2>1, <2>3
  <2> HIDE DEF F
  <2>7. /\ F <= RingSize /\ r.used = PosAt(r.seen, u) /\ ~r.wrong
        /\ \A j \in Nat : j < u => r.ids[SlotAt(r.seen, j)] = r.flight[j + 1]
        /\ \A j \in Nat : a <= j /\ j < F => r.heads[SlotAt(r.seen, j)] = r.flight[j + 1]
    BY <1>8 DEF InOrder, F
  <2> QED BY <1>3, <1>7, <1>9, <2>1, <2>4, <2>5, <2>6, <2>7 DEF InOrder, F
<1> QED BY <1>6, <1>7, <1>8 DEF new

\* push_used stores the entry: its slot is none of those still to be collected.
LEMMA EntryInOrder ==
  ASSUME ChainAssumption, NEW r \in RingsType, "entry" \in r.push
  PROVE  /\ push_used_inline(r, "entry") \in RingsType /\ push_used_inline(r, "entry").kind = r.kind
         /\ \A u, a : InOrder(r, u, a) => InOrder(push_used_inline(r, "entry"), u, a)
<1> DEFINE new == push_used_inline(r, "entry")
           left == r.push \ {"entry"}
           before == (r.used + IndexWrap - 1) % IndexWrap
           at == (IF "index" \in r.push THEN r.used ELSE before) % RingSize
           ids == [r.ids EXCEPT ![at] = r.id]
           F == Len(r.flight)
<1>1. RingSize \in Nat \ {0} /\ IndexWrap \in Nat \ {0}
  BY DEF ChainAssumption
<1>2. /\ r.used \in Index /\ r.ids \in [Ring -> Ring] /\ r.push \subseteq {"entry", "index"} /\ r.id \in Ring
      /\ r.seen \in Index /\ F \in Nat
  BY RingsFields
<1>3. at \in Ring
  <2> DEFINE i == IF "index" \in r.push THEN r.used ELSE before
  <2>1. before \in Index
    <3> DEFINE x == r.used + IndexWrap - 1
    <3>1. x \in Int
      BY <1>1, <1>2 DEF Index
    <3> HIDE DEF x
    <3>2. x % IndexWrap \in 0..(IndexWrap - 1)
      BY <1>1, <3>1, ModParts
    <3> QED BY <3>2 DEF Index, x
  <2>2. i \in Index
    BY <1>2, <2>1
  <2> HIDE DEF i
  <2>3. i % RingSize = SlotAt(i, 0) /\ SlotAt(i, 0) \in Ring
    BY <2>2, SlotsAre
  <2> QED BY <2>3 DEF i
<1>4. ids \in [Ring -> Ring] /\ left \subseteq {"entry", "index"} /\ ids[at] = r.id /\ \A i \in Ring : i # at => ids[i] = r.ids[i]
  <2> HIDE DEF at
  <2> QED BY <1>2, <1>3
<1>5. new = [r EXCEPT !.push = left, !.ids = ids]
  BY DEF push_used_inline
<1> HIDE DEF left, ids, new
<1>6. new \in RingsType
  BY <1>4, <1>5 DEF RingsType
<1>7. /\ new.heads = r.heads /\ new.avail = r.avail /\ new.flight = r.flight /\ new.kind = r.kind /\ new.last_avail = r.last_avail
      /\ new.used = r.used /\ new.ids = ids /\ new.push = left /\ new.id = r.id /\ new.seen = r.seen
      /\ new.wrong = r.wrong
  BY <1>5 DEF RingsType
<1>8. ASSUME NEW u, NEW a, InOrder(r, u, a) PROVE InOrder(new, u, a)
  <2>1. /\ u \in Nat /\ a \in Nat /\ u <= a /\ a <= F /\ F <= RingSize /\ r.used = PosAt(r.seen, u)
        /\ r.push \in {{}, {"entry", "index"}, {"index"}}
    BY <1>8 DEF InOrder
  <2>2. r.push = {"entry", "index"} /\ r.push # {}
    BY <2>1
  <2>3. left = {"index"} /\ left # {} /\ left \in {{}, {"entry", "index"}, {"index"}}
    BY <2>2 DEF left
  <2>4. at = SlotAt(r.seen, u)
    <3>1. PosAt(r.seen, u) % RingSize = SlotAt(r.seen, u)
      BY <1>2, <2>1, SlotsAre, Zenon
    <3>2. "index" \in r.push
      BY <2>2
    <3>3. at = r.used % RingSize
      BY <3>2, Zenon
    <3> QED BY <2>1, <3>1, <3>3, Zenon
  <2> HIDE DEF at
  <2>5. a = u + 1 /\ r.id = r.flight[a]
    BY <1>8, <2>2 DEF InOrder
  <2>6. ASSUME NEW j \in Nat, j < u PROVE ids[SlotAt(r.seen, j)] = r.flight[j + 1]
    <3>1. u - j < RingSize
      BY <1>1, <1>2, <2>1, <2>5, <2>6
    <3>2. SlotAt(r.seen, j) # at /\ SlotAt(r.seen, j) \in Ring
      <4>1. SlotAt(r.seen, j) # SlotAt(r.seen, u) /\ SlotAt(r.seen, j) \in Ring
        <5>1. SlotAt(r.seen, j) \in Ring
          BY <1>2, SlotsAre, Zenon
        <5>2. SlotAt(r.seen, j) # SlotAt(r.seen, u)
          BY <1>2, <2>1, <2>6, <3>1, RingSlotsDiffer
        <5> QED BY <5>1, <5>2
      <4> QED BY <2>4, <4>1, Zenon
    <3>3. r.ids[SlotAt(r.seen, j)] = r.flight[j + 1]
      BY <1>8, <2>6 DEF InOrder
    <3> QED BY <1>4, <3>2, <3>3
  <2> HIDE DEF F
  <2>7. /\ r.last_avail = PosAt(r.seen, a) /\ r.avail = PosAt(r.seen, F) /\ ~r.wrong
        /\ \A j \in Nat : a <= j /\ j < F => r.heads[SlotAt(r.seen, j)] = r.flight[j + 1]
    BY <1>8 DEF InOrder, F
  <2> QED BY <1>4, <1>7, <2>1, <2>3, <2>4, <2>5, <2>6, <2>7 DEF InOrder, F
<1> QED BY <1>6, <1>7, <1>8 DEF new

\* push_used stores the index, after the entry on every host that orders the two.
LEMMA IndexInOrder ==
  ASSUME ChainAssumption, NEW r \in RingsType, "index" \in r.push
  PROVE  /\ push_used_inline(r, "index") \in RingsType /\ push_used_inline(r, "index").kind = r.kind
         /\ "entry" \notin r.push => \A u, a : InOrder(r, u, a) => InOrder(push_used_inline(r, "index"), u + 1, a)
<1> DEFINE new == push_used_inline(r, "index")
           left == r.push \ {"index"}
           us == Advance(r.used)
           F == Len(r.flight)
<1>2. r.used \in Index /\ r.push \subseteq {"entry", "index"} /\ r.seen \in Index /\ F \in Nat
  BY RingsFields
<1>3. us \in Index /\ left \subseteq {"entry", "index"}
  BY <1>2, SlotsAre
<1>5. new = [r EXCEPT !.push = left, !.used = us]
  BY DEF push_used_inline
<1> HIDE DEF left, us, new
<1>6. new \in RingsType
  BY <1>3, <1>5 DEF RingsType
<1>7. /\ new.heads = r.heads /\ new.avail = r.avail /\ new.flight = r.flight /\ new.kind = r.kind /\ new.last_avail = r.last_avail
      /\ new.used = us /\ new.ids = r.ids /\ new.push = left /\ new.id = r.id /\ new.seen = r.seen
      /\ new.wrong = r.wrong
  BY <1>5 DEF RingsType
<1>8. ASSUME "entry" \notin r.push, NEW u, NEW a, InOrder(r, u, a) PROVE InOrder(new, u + 1, a)
  <2>1. /\ u \in Nat /\ a \in Nat /\ a <= F /\ F <= RingSize /\ r.used = PosAt(r.seen, u)
        /\ r.push \in {{}, {"entry", "index"}, {"index"}}
    BY <1>8 DEF InOrder
  <2>2. r.push = {"index"} /\ r.push # {}
    BY <1>8, <2>1
  <2>3. left = {} /\ left # {"index"} /\ left \in {{}, {"entry", "index"}, {"index"}}
    BY <2>2 DEF left
  <2>4. us = PosAt(r.seen, u + 1)
    <3>1. Advance(PosAt(r.seen, u)) = PosAt(r.seen, u + 1)
      BY <1>2, <2>1, SlotsAre, Zenon
    <3> QED BY <2>1, <3>1, Zenon DEF us
  <2>5. a = u + 1 /\ r.id = r.flight[a] /\ r.ids[SlotAt(r.seen, u)] = r.id
    BY <1>8, <2>2 DEF InOrder
  <2>6. ASSUME NEW j \in Nat, j < u + 1 PROVE r.ids[SlotAt(r.seen, j)] = r.flight[j + 1]
    <3>1. CASE j = u
      BY <2>5, <3>1
    <3>2. CASE j < u
      BY <1>8, <3>2 DEF InOrder
    <3> QED BY <2>1, <2>6, <3>1, <3>2
  <2>8. u + 1 \in Nat /\ u + 1 <= a
    BY <2>1, <2>5
  <2> HIDE DEF F
  <2>7. /\ r.last_avail = PosAt(r.seen, a) /\ r.avail = PosAt(r.seen, F) /\ ~r.wrong
        /\ \A j \in Nat : a <= j /\ j < F => r.heads[SlotAt(r.seen, j)] = r.flight[j + 1]
    BY <1>8 DEF InOrder, F
  <2> QED BY <1>7, <2>1, <2>3, <2>4, <2>5, <2>6, <2>7, <2>8 DEF InOrder, F
<1> QED BY <1>6, <1>7, <1>8 DEF new

Collected(r) == [r EXCEPT !.seen = Advance(@), !.flight = Tail(@),
                          !.wrong = @ \/ r.ids[r.seen % RingSize] # Head(r.flight)]
\* The driver collects: the entry the index shows names the chain it expects.
LEMMA CollectsInOrder ==
  ASSUME ChainAssumption, NEW r \in RingsType, r.seen # r.used, r.flight # <<>>
  PROVE  /\ Collected(r) \in RingsType /\ Collected(r).kind = r.kind
         /\ \A u, a : InOrder(r, u, a) => InOrder(Collected(r), u - 1, a - 1)
<1> DEFINE new == Collected(r)
           se == Advance(r.seen)
           fl == Tail(r.flight)
           wr == r.wrong \/ r.ids[r.seen % RingSize] # Head(r.flight)
           F == Len(r.flight)
<1>2. r.seen \in Index /\ r.flight \in Seq(Ring) /\ F \in Nat /\ r.wrong \in BOOLEAN
  BY RingsFields
<1>3. se \in Index /\ wr \in BOOLEAN /\ r.seen % RingSize = SlotAt(r.seen, 0) /\ PosAt(r.seen, 0) = r.seen
  BY <1>2, SlotsAre
<1>4. /\ fl \in Seq(Ring) /\ F >= 1 /\ Len(fl) = F - 1 /\ Head(r.flight) = r.flight[1]
      /\ \A i \in 1..(F - 1) : fl[i] = r.flight[i + 1]
  BY <1>2
<1>5. new = [r EXCEPT !.seen = se, !.flight = fl, !.wrong = wr]
  BY DEF Collected
<1> HIDE DEF se, fl, wr, new
<1>6. new \in RingsType
  BY <1>3, <1>4, <1>5 DEF RingsType
<1>7. /\ new.heads = r.heads /\ new.avail = r.avail /\ new.flight = fl /\ new.kind = r.kind /\ new.last_avail = r.last_avail
      /\ new.used = r.used /\ new.ids = r.ids /\ new.push = r.push /\ new.id = r.id /\ new.seen = se
      /\ new.wrong = wr
  BY <1>5 DEF RingsType
<1>8. ASSUME NEW u, NEW a, InOrder(r, u, a) PROVE InOrder(new, u - 1, a - 1)
  <2>1. /\ u \in Nat /\ a \in Nat /\ u <= a /\ a <= F /\ F <= RingSize /\ r.used = PosAt(r.seen, u)
        /\ r.last_avail = PosAt(r.seen, a) /\ r.avail = PosAt(r.seen, F)
        /\ r.push \in {{}, {"entry", "index"}, {"index"}} /\ (r.push = {} => a = u) /\ ~r.wrong
    BY <1>8 DEF InOrder
  <2>2. u # 0
    BY <1>3, <2>1
  <2>3. /\ u - 1 \in Nat /\ a - 1 \in Nat /\ F - 1 \in Nat /\ u - 1 <= a - 1 /\ a - 1 <= F - 1 /\ (u - 1) + 1 = u
        /\ (a - 1) + 1 = a /\ (F - 1) + 1 = F /\ 0 < u
    BY <1>2, <2>1, <2>2
  <2>13. F - 1 <= RingSize
    BY <1>2, <2>1 DEF ChainAssumption
  <2>4. r.used = PosAt(se, u - 1) /\ r.last_avail = PosAt(se, a - 1) /\ r.avail = PosAt(se, F - 1)
    <3>1. \A j \in Nat : PosAt(se, j) = PosAt(r.seen, j + 1)
      BY <1>2, SlotsAre DEF se
    <3> HIDE DEF F
    <3> QED BY <2>1, <2>3, <3>1
  <2>5. \A j \in Nat : SlotAt(se, j) = SlotAt(r.seen, j + 1)
    BY <1>2, SlotsAre DEF se
  <2>6. ASSUME NEW j \in Nat, j < u - 1 PROVE r.ids[SlotAt(se, j)] = fl[j + 1]
    <3>1. j + 1 \in Nat /\ j + 1 < u /\ j + 1 \in 1..(F - 1)
      BY <1>2, <2>1, <2>6
    <3>2. r.ids[SlotAt(r.seen, j + 1)] = r.flight[(j + 1) + 1]
      BY <1>8, <3>1 DEF InOrder
    <3> QED BY <1>4, <2>5, <3>1, <3>2
  <2>7. ASSUME NEW j \in Nat, a - 1 <= j, j < F - 1 PROVE r.heads[SlotAt(se, j)] = fl[j + 1]
    <3>1. j + 1 \in Nat /\ a <= j + 1 /\ j + 1 < F /\ j + 1 \in 1..(F - 1)
      BY <1>2, <2>1, <2>7
    <3>2. r.heads[SlotAt(r.seen, j + 1)] = r.flight[(j + 1) + 1]
      BY <1>8, <3>1 DEF InOrder
    <3> QED BY <1>4, <2>5, <3>1, <3>2
  <2>8. ASSUME r.push # {} PROVE a - 1 = (u - 1) + 1 /\ r.id = fl[a - 1]
    <3>1. a = u + 1 /\ r.id = r.flight[a]
      BY <1>8, <2>8 DEF InOrder
    <3>2. a - 1 \in 1..(F - 1) /\ a - 1 = (u - 1) + 1
      BY <1>2, <2>1, <2>3, <3>1
    <3> QED BY <1>4, <2>3, <3>1, <3>2
  <2>9. r.push = {"index"} => r.ids[SlotAt(se, u - 1)] = r.id
    <3>1. r.push = {"index"} => r.ids[SlotAt(r.seen, u)] = r.id
      BY <1>8 DEF InOrder
    <3> QED BY <2>3, <2>5, <3>1
  <2>10. ~wr
    <3>1. r.ids[SlotAt(r.seen, 0)] = r.flight[0 + 1]
      BY <1>8, <2>3 DEF InOrder
    <3> QED BY <1>3, <1>4, <2>1, <3>1 DEF wr
  <2>11. r.push = {} => a - 1 = u - 1
    BY <2>1
  <2>12. new.flight = fl /\ Len(fl) = F - 1
    BY <1>4, <1>7
  <2> DEFINE U == u - 1
             A == a - 1
             L == F - 1
  <2>14. Len(new.flight) = L
    BY <2>12
  <2> HIDE DEF F, U, A, L
  <2>15. /\ U \in Nat /\ A \in Nat /\ U <= A /\ A <= L /\ L <= RingSize
         /\ new.used = PosAt(se, U) /\ new.last_avail = PosAt(se, A) /\ new.avail = PosAt(se, L)
    BY <1>7, <2>3, <2>4, <2>13 DEF U, A, L
  <2>16. /\ \A j \in Nat : j < U => new.ids[SlotAt(se, j)] = fl[j + 1]
         /\ \A j \in Nat : A <= j /\ j < L => new.heads[SlotAt(se, j)] = fl[j + 1]
    BY <1>7, <2>6, <2>7 DEF U, A, L
  <2>17. /\ new.push \in {{}, {"entry", "index"}, {"index"}} /\ (new.push = {} => A = U) /\ ~new.wrong
         /\ (new.push # {} => A = U + 1 /\ new.id = fl[A]) /\ (new.push = {"index"} => new.ids[SlotAt(se, U)] = new.id)
    BY <1>7, <2>1, <2>8, <2>9, <2>10, <2>11 DEF U, A
  <2>18. InOrder(new, U, A)
    BY <1>7, <2>14, <2>15, <2>16, <2>17 DEF InOrder
  <2> QED BY <2>18 DEF U, A
<1> QED BY <1>6, <1>7, <1>8 DEF new

\* What an operation leaves in job: its input and what the code makes of it.
Walked(j) ==
  \E t \in LinkTables, head \in 0..TableSize :
    \/ \E who \in {"blk", "kvm_net", "hvf"} :
         j = [op |-> "walk", dev |-> who, table |-> t, head |-> head, res |-> walk_chain_inline(t, head)]
    \/ j = [op |-> "walk", dev |-> "rng", table |-> t, head |-> head, res |-> service_chain(t, head)]
Sent(j) ==
  \E c \in DescChains, who \in {"kvm", "hvf"} : j = [op |-> "tx", dev |-> who, chain |-> c, res |-> process_tx(who, c)]
Received(j) ==
  \E c \in DescChains, n \in FrameLens : j = [op |-> "rx", chain |-> c, n |-> n, res |-> scatter(c, n)]
SpaceRead(j) ==
  \E who \in Devices, off \in 252..(RegSpace + 18), len \in {1, 2, 4, 8} :
    j = [op |-> "config", dev |-> who, off |-> off, len |-> len, res |-> Answer(who, off, len)]
JobDone(j) == j.op \in {"none", "rings"} \/ Walked(j) \/ Sent(j) \/ Received(j) \/ SpaceRead(j)

\* What is left in job after a walk is what the definitions without loops say.
LEMMA WalkRight == ASSUME ChainAssumption, Walked(job) PROVE WalkExact /\ RngCountsOnce
<1>1. PICK t \in LinkTables, head \in 0..TableSize :
        \/ \E who \in {"blk", "kvm_net", "hvf"} :
             job = [op |-> "walk", dev |-> who, table |-> t, head |-> head, res |-> walk_chain_inline(t, head)]
        \/ job = [op |-> "walk", dev |-> "rng", table |-> t, head |-> head, res |-> service_chain(t, head)]
  BY DEF Walked
<1>2. t \in Tables
  BY TablesAre
<1>3. ASSUME NEW who \in {"blk", "kvm_net", "hvf"},
             job = [op |-> "walk", dev |-> who, table |-> t, head |-> head, res |-> walk_chain_inline(t, head)]
      PROVE  WalkExact /\ RngCountsOnce
  <2> DEFINE res == walk_chain_inline(t, head)
  <2>1. IF ChainsOf(t, head) = {} THEN res.st = "throws" ELSE res.st = "ok" /\ ChainsOf(t, head) = {res.chain}
    BY <1>2, WalkIsExact
  <2> HIDE DEF res
  <2>2. job.dev = who /\ job.table = t /\ job.head = head /\ job.res = res /\ who # "rng"
    BY <1>3 DEF res
  <2>3. WalkExact
    BY <2>1, <2>2 DEF WalkExact, ChainsOf
  <2>4. RngCountsOnce
    BY <2>2 DEF RngCountsOnce
  <2> QED BY <2>3, <2>4
<1>4. ASSUME job = [op |-> "walk", dev |-> "rng", table |-> t, head |-> head, res |-> service_chain(t, head)]
      PROVE  WalkExact /\ RngCountsOnce
  <2> DEFINE res == service_chain(t, head)
  <2>1. res.st = "ok" /\ res.written = SumOf(t, Filled(t, ReachedFrom(t, head)))
    BY <1>2, RngIsExact
  <2> HIDE DEF res
  <2>2. job.dev = "rng" /\ job.table = t /\ job.head = head /\ job.res = res
    BY <1>4 DEF res
  <2>3. WalkExact
    BY <2>2 DEF WalkExact
  <2>4. RngCountsOnce
    <3>1. SumOf(job.table, Filled(job.table, ReachedFrom(job.table, job.head))) = job.res.written /\ job.res.st = "ok"
      BY <2>1, <2>2
    <3> QED BY <3>1 DEF RngCountsOnce, SumOf, Filled
  <2> QED BY <2>3, <2>4
<1> QED BY <1>1, <1>3, <1>4

\* The same for a frame sent ...
LEMMA SendRight == ASSUME ChainAssumption, Sent(job) PROVE SentWhole
<1>1. PICK c \in DescChains, who \in {"kvm", "hvf"} :
        job = [op |-> "tx", dev |-> who, chain |-> c, res |-> process_tx(who, c)]
  BY DEF Sent
<1>2. c \in Seq(Descs)
  BY DescChainsAre
<1> DEFINE res == process_tx(who, c)
           all == Concat(c)
<1>3. /\ res.st = "ok" => res.frame = Rest(all, HdrBytes) /\ \A k \in 1..Len(c) : ~c[k].write
      /\ (\A k \in 1..Len(c) : ~c[k].write /\ ~c[k].far) /\ FrameFits(who, all) => res.st = "ok"
  BY <1>2, TxIsExact
<1>4. DOMAIN c = 1..Len(c)
  BY <1>2
<1>5. job.dev = who /\ job.chain = c /\ job.res = res
  BY <1>1
<1> HIDE DEF res
<1> QED BY <1>3, <1>4, <1>5 DEF SentWhole, Rest, FrameFits

\* ... for one received ...
LEMMA ReceiveRight == ASSUME ChainAssumption, Received(job) PROVE ReceivedWhole
<1>1. PICK c \in DescChains, n \in FrameLens : job = [op |-> "rx", chain |-> c, n |-> n, res |-> scatter(c, n)]
  BY DEF Received
<1>2. c \in Seq(Descs) /\ Len(c) # 0 /\ n \in Nat
  BY DescChainsAre DEF ChainAssumption
<1> DEFINE res  == scatter(c, n)
           need == HdrBytes + n
           bad  == \E k \in 1..Len(c) : Before(c, k) < need /\ ~Good(c[k])
<1>3. /\ res.st = "throws" <=> bad
      /\ res.st = "ok" <=> ~bad /\ Before(c, Len(c)) + c[Len(c)].len >= need
      /\ ~bad => \A k \in DOMAIN res.mem : ShareIs(c, n, k, res.mem[k])
  BY <1>2, RxIsExact
<1>4. DOMAIN c = 1..Len(c)
  BY <1>2
<1>5. job.chain = c /\ job.n = n /\ job.res = res
  BY <1>1
<1> DEFINE used == {k \in DOMAIN c : Before(c, k) < need}
           badin == \E k \in used : ~c[k].write \/ c[k].far
<1>6. badin <=> bad
  BY <1>4 DEF Good
<1> HIDE DEF res, bad
<1>7. /\ res.st = "throws" <=> badin
      /\ res.st = "ok" <=> ~badin /\ Before(c, Len(c)) + c[Len(c)].len >= need
  BY <1>3, <1>6
<1>8. ~badin => \A k \in DOMAIN res.mem : ShareIs(c, n, k, res.mem[k])
  BY <1>3, <1>6
<1> QED BY <1>5, <1>7, <1>8 DEF ReceivedWhole, ShareIs, Share

\* ... and for a read of configuration space.
LEMMA ReadRight == ASSUME SpaceRead(job) PROVE ConfigInParts
<1>1. PICK who \in Devices, off \in 252..(RegSpace + 18), len \in {1, 2, 4, 8} :
        job = [op |-> "config", dev |-> who, off |-> off, len |-> len, res |-> Answer(who, off, len)]
  BY DEF SpaceRead
<1>2. off \in Nat /\ len \in Nat
  BY DEF RegSpace
<1>3. off >= RegSpace => \A k \in 1..len : /\ Answer(who, off, len)[k] = Answer(who, off + k - 1, 1)[1]
                                           /\ off + k > RegSpace + 16 => Answer(who, off, len)[k] = 0
  BY <1>2, AnswersInParts
<1>4. job.dev = who /\ job.off = off /\ job.len = len /\ job.res = Answer(who, off, len)
  BY <1>1
<1> QED BY <1>3, <1>4 DEF ConfigInParts

\* All of them together.
LEMMA JobRight ==
  ASSUME ChainAssumption, JobDone(job)
  PROVE  WalkExact /\ RngCountsOnce /\ SentWhole /\ ReceivedWhole /\ ConfigInParts
<1>1. CASE job.op \in {"none", "rings"}
  BY <1>1 DEF WalkExact, RngCountsOnce, SentWhole, ReceivedWhole, ConfigInParts
<1>2. CASE Walked(job)
  <2>1. job.op = "walk"
    BY <1>2 DEF Walked
  <2>2. SentWhole /\ ReceivedWhole /\ ConfigInParts
    BY <2>1 DEF SentWhole, ReceivedWhole, ConfigInParts
  <2> QED BY <1>2, <2>2, WalkRight
<1>3. CASE Sent(job)
  <2>1. job.op = "tx"
    BY <1>3 DEF Sent
  <2>2. WalkExact /\ RngCountsOnce /\ ReceivedWhole /\ ConfigInParts
    BY <2>1 DEF WalkExact, RngCountsOnce, ReceivedWhole, ConfigInParts
  <2> QED BY <1>3, <2>2, SendRight
<1>4. CASE Received(job)
  <2>1. job.op = "rx"
    BY <1>4 DEF Received
  <2>2. WalkExact /\ RngCountsOnce /\ SentWhole /\ ConfigInParts
    BY <2>1 DEF WalkExact, RngCountsOnce, SentWhole, ConfigInParts
  <2> QED BY <1>4, <2>2, ReceiveRight
<1>5. CASE SpaceRead(job)
  <2>1. job.op = "config"
    BY <1>5 DEF SpaceRead
  <2>2. WalkExact /\ RngCountsOnce /\ SentWhole /\ ReceivedWhole
    BY <2>1 DEF WalkExact, RngCountsOnce, SentWhole, ReceivedWhole
  <2> QED BY <1>5, <2>2, ReadRight
<1> QED BY <1>1, <1>2, <1>3, <1>4, <1>5 DEF JobDone

OrderKept(r) == r \in RingsType /\ (r.kind # "hvf" => \E u, a : InOrder(r, u, a))
ChainInv == JobDone(job) /\ OrderKept(rings)

\* The inductive invariant holds at first.
LEMMA ChainInitInv == ASSUME ChainAssumption, ChainInit PROVE ChainInv
<1>1. JobDone(job)
  BY DEF ChainInit, JobDone
<1>2. RingSize \in Nat \ {0} /\ IndexWrap \in Nat \ {0}
  BY DEF ChainAssumption
<1>3. 0 \in Ring /\ 0 \in Index
  BY <1>2 DEF Ring, Index
<1>4. /\ rings.avail = 0 /\ rings.heads \in [Ring -> {0}] /\ rings.last_avail = 0 /\ rings.used = 0
      /\ rings.ids \in [Ring -> {0}] /\ rings.push = {} /\ rings.id = 0 /\ rings.seen = 0 /\ rings.flight = <<>>
      /\ rings.wrong = FALSE
  BY DEF ChainInit
<1>5. rings \in RingsType
  <2> DEFINE none == {}
             empty == <<>>
             kinds == {"whp", "kvm", "rng", "hvf"}
             zeros == [Ring -> {0}]
             z == 0
             no == FALSE
  <2>1. rings \in [kind : kinds, avail : {z}, heads : zeros, last_avail : {z}, used : {z}, ids : zeros,
                   push : {none}, id : {z}, seen : {z}, flight : {empty}, wrong : {no}]
    BY DEF ChainInit
  <2>2. /\ zeros \subseteq [Ring -> Ring] /\ none \in SUBSET {"entry", "index"} /\ empty \in Seq(Ring)
        /\ no \in BOOLEAN /\ z \in Index /\ z \in Ring
    BY <1>3
  <2> HIDE DEF none, empty, zeros, z, no, kinds
  <2> QED BY <2>1, <2>2 DEF RingsType, kinds
<1>6. InOrder(rings, 0, 0)
  <2>1. PosAt(0, 0) = 0
    BY <1>3, SlotsAre
  <2>2. Len(rings.flight) = 0
    BY <1>4
  <2> QED BY <1>2, <1>4, <2>1, <2>2 DEF InOrder
<1> QED BY <1>1, <1>5, <1>6 DEF ChainInv, OrderKept

\* Every operation keeps it.
LEMMA ChainNextInv == ASSUME ChainAssumption, ChainInv, [ChainNext]_chainVars PROVE ChainInv'
<1>0. JobDone(job) /\ OrderKept(rings) /\ rings \in RingsType /\ (rings.kind # "hvf" => \E u, a : InOrder(rings, u, a))
  BY DEF ChainInv, OrderKept
<1>1. CASE UNCHANGED chainVars
  <2>1. job' = job /\ rings' = rings
    BY <1>1 DEF chainVars
  <2> QED BY <1>0, <2>1 DEF ChainInv
<1>2. ASSUME UNCHANGED rings, JobDone(job') PROVE ChainInv'
  <2>1. OrderKept(rings')
    BY <1>0, <1>2
  <2> QED BY <1>2, <2>1 DEF ChainInv
<1>3. ASSUME UNCHANGED job, OrderKept(rings') PROVE ChainInv'
  <2>1. JobDone(job')
    BY <1>0, <1>3
  <2> QED BY <1>3, <2>1 DEF ChainInv
<1>4. CASE Walk
  <2>1. PICK t \in LinkTables, head \in 0..TableSize, who \in {"blk", "kvm_net", "hvf", "rng"} :
          job' = [op |-> "walk", dev |-> who, table |-> t, head |-> head,
                  res |-> CASE who = "blk" -> walk_chain_inline(t, head)
                            [] who = "kvm_net" -> kvm_net_walk_chain(t, head)
                            [] who = "hvf" -> hvf_WalkChain(t, head)
                            [] who = "rng" -> service_chain(t, head)]
    BY <1>4 DEF Walk
  <2>2. CASE who \in {"blk", "kvm_net", "hvf"}
    <3>1. job' = [op |-> "walk", dev |-> who, table |-> t, head |-> head, res |-> walk_chain_inline(t, head)]
      BY <2>1, <2>2 DEF kvm_net_walk_chain, hvf_WalkChain
    <3>2. Walked(job')
      BY <2>2, <3>1 DEF Walked
    <3> QED BY <1>2, <1>4, <3>2 DEF JobDone, Walk
  <2>3. CASE who = "rng"
    <3>1. job' = [op |-> "walk", dev |-> "rng", table |-> t, head |-> head, res |-> service_chain(t, head)]
      BY <2>1, <2>3
    <3>2. Walked(job')
      BY <3>1 DEF Walked
    <3> QED BY <1>2, <1>4, <3>2 DEF JobDone, Walk
  <2> QED BY <2>2, <2>3
<1>5. CASE SendFrame
  <2>1. Sent(job') /\ UNCHANGED rings
    BY <1>5 DEF SendFrame, Sent
  <2> QED BY <1>2, <2>1 DEF JobDone
<1>6. CASE ReceiveFrame
  <2>1. Received(job') /\ UNCHANGED rings
    BY <1>6 DEF ReceiveFrame, Received
  <2> QED BY <1>2, <2>1 DEF JobDone
<1>7. CASE ReadSpace
  <2>1. SpaceRead(job') /\ UNCHANGED rings
    BY <1>7 DEF ReadSpace, SpaceRead, Devices
  <2> QED BY <1>2, <2>1 DEF JobDone
<1>8. ASSUME NEW h \in Ring, DriverPosts(h) PROVE ChainInv'
  <2>1. rings' = Posted(rings, h) /\ Len(rings.flight) < RingSize /\ UNCHANGED job
    BY <1>8 DEF DriverPosts, Posted
  <2>2. /\ Posted(rings, h) \in RingsType /\ Posted(rings, h).kind = rings.kind
        /\ \A u, a : InOrder(rings, u, a) => InOrder(Posted(rings, h), u, a)
    BY <1>0, <2>1, PostsInOrder
  <2>3. OrderKept(rings')
    BY <1>0, <2>1, <2>2 DEF OrderKept
  <2> QED BY <1>3, <2>1, <2>3
<1>9. CASE TakeHead
  <2>1. rings' = Taken(rings) /\ rings.push = {} /\ rings.last_avail # rings.avail /\ UNCHANGED job
    BY <1>9 DEF TakeHead, Taken
  <2>2. /\ Taken(rings) \in RingsType /\ Taken(rings).kind = rings.kind
        /\ \A u, a : InOrder(rings, u, a) => InOrder(Taken(rings), u, a + 1)
    BY <1>0, <2>1, TakesInOrder
  <2>3. OrderKept(rings')
    BY <1>0, <2>1, <2>2 DEF OrderKept
  <2> QED BY <1>3, <2>1, <2>3
<1>10. ASSUME NEW store, PushStore(store) PROVE rings' = push_used_inline(rings, store)
  <2>1. rings.kind \in {"whp", "kvm", "rng", "hvf"}
    BY <1>0 DEF RingsType
  <2> QED BY <1>10, <2>1 DEF PushStore, kvm_push_used, rng_push_used, hvf_PushUsed
<1>11. CASE StoreEntry
  <2>1. rings' = push_used_inline(rings, "entry") /\ "entry" \in rings.push /\ UNCHANGED job
    BY <1>10, <1>11 DEF StoreEntry
  <2> DEFINE new == push_used_inline(rings, "entry")
  <2>2. /\ new \in RingsType /\ new.kind = rings.kind
        /\ \A u, a : InOrder(rings, u, a) => InOrder(new, u, a)
    BY <1>0, <2>1, EntryInOrder
  <2> HIDE DEF new
  <2>4. rings' = new
    BY <2>1 DEF new
  <2>3. OrderKept(rings')
    BY <1>0, <2>2, <2>4 DEF OrderKept
  <2> QED BY <1>3, <2>1, <2>3
<1>12. CASE StoreIndex
  <2>1. /\ rings' = push_used_inline(rings, "index") /\ "index" \in rings.push /\ UNCHANGED job
        /\ rings.kind # "hvf" => "entry" \notin rings.push
    BY <1>10, <1>12 DEF StoreIndex
  <2> DEFINE new == push_used_inline(rings, "index")
  <2>2. /\ new \in RingsType /\ new.kind = rings.kind
        /\ "entry" \notin rings.push => \A u, a : InOrder(rings, u, a) => InOrder(new, u + 1, a)
    BY <1>0, <2>1, IndexInOrder
  <2> HIDE DEF new
  <2>4. rings' = new
    BY <2>1 DEF new
  <2>3. OrderKept(rings')
    BY <1>0, <2>1, <2>2, <2>4 DEF OrderKept
  <2> QED BY <1>3, <2>1, <2>3
<1>13. CASE DriverCollects
  <2>1. rings' = Collected(rings) /\ rings.seen # rings.used /\ rings.flight # <<>> /\ UNCHANGED job
    BY <1>13 DEF DriverCollects, Collected
  <2>2. /\ Collected(rings) \in RingsType /\ Collected(rings).kind = rings.kind
        /\ \A u, a : InOrder(rings, u, a) => InOrder(Collected(rings), u - 1, a - 1)
    BY <1>0, <2>1, CollectsInOrder
  <2>3. OrderKept(rings')
    BY <1>0, <2>1, <2>2 DEF OrderKept
  <2> QED BY <1>3, <2>1, <2>3
<1> QED BY <1>1, <1>4, <1>5, <1>6, <1>7, <1>8, <1>9, <1>11, <1>12, <1>13 DEF ChainNext

\* Tables of any size and any links, chains of any buffers and frames of any length
\* are walked, gathered and scattered as the definitions without loops say
\* (walk_chain, service_chain, process_tx, inject_rx_frame); a read of
\* configuration space is its bytes (read_mmio); and a driver that polls the used
\* ring finds its chains in order, over any number of wraps of every index, where
\* the host keeps the order of push_used's two stores.
THEOREM ChainsExactHolds == ChainSpec => []ChainsExact
<1>1. ChainInit => ChainInv
  BY ChainAssumption, ChainInitInv
<1>2. ChainInv /\ [ChainNext]_chainVars => ChainInv'
  BY ChainAssumption, ChainNextInv
<1>3. ChainInv => ChainsExact
  <2> SUFFICES ASSUME ChainInv PROVE ChainsExact
    OBVIOUS
  <2>1. WalkExact /\ RngCountsOnce /\ SentWhole /\ ReceivedWhole /\ ConfigInParts
    BY ChainAssumption, JobRight DEF ChainInv
  <2>2. UsedInOrder
    BY DEF ChainInv, OrderKept, InOrder, UsedInOrder
  <2> QED BY <2>1, <2>2 DEF ChainsExact
<1> QED BY <1>1, <1>2, <1>3, PTL DEF ChainSpec
=============================================================================
