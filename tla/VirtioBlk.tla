------------------------------ MODULE VirtioBlk ------------------------------
(***************************************************************************)
(* class VirtioBlk of native/kvm/backend.cc: a virtio-mmio block device     *)
(* with one split virtqueue over a disk image, optionally copy-on-write     *)
(* onto a sparse overlay.                                                   *)
(*                                                                         *)
(* A notify is an MMIO exit of one vCPU: it handles the queue under         *)
(* device_mu while the other vCPUs of the guest go on reading and writing   *)
(* the rings in memory.  The driver is external (Linux virtio_blk); it is   *)
(* modelled by the accesses the device answers to.  Lengths are in sectors: *)
(* process_request refuses any other, so that                               *)
(* prepare_partial_overlay_sectors never finds a partial sector.            *)
(***************************************************************************)
EXTENDS Naturals, Sequences, FiniteSets

CONSTANTS
  QueueSize,   \* q.size
  IndexMod,    \* 2^16: where the ring indices wrap
  NSectors,    \* sectors_
  Data,        \* contents of a sector
  Requests,    \* the requests the driver submits
  Image,       \* contents of the disk image when it is opened
  HasOverlay,  \* has_overlay()
  ReadOnly,    \* read_only_
  None

Heads == 0..(QueueSize - 1)
Sectors == 0..(NSectors - 1)
Types == {"in", "out", "other"}

\* A request: its type, its first sector, where each data descriptor ends (in
\* sectors, from the start of the request), the data of a write (only its
\* length matters for the others), and whether its descriptor chain is one the
\* device accepts.  "other" stands for flush, GET_ID and unknown types.
IsRequest(r) ==
  /\ r.type \in Types
  /\ r.sector \in Nat
  /\ r.data \in Seq(Data)
  /\ r.segs \in Seq(0..Len(r.data))
  /\ Len(r.data) = IF r.segs = <<>> THEN 0 ELSE r.segs[Len(r.segs)]
  /\ r.chain \in {"ok", "malformed"}

ASSUME QueueAssumption ==
  /\ QueueSize \in Nat \ {0}
  /\ IndexMod \in Nat /\ IndexMod % QueueSize = 0 /\ IndexMod > QueueSize
ASSUME DiskAssumption ==
  /\ NSectors \in Nat
  /\ Image \in [Sectors -> Data]
  /\ HasOverlay \in BOOLEAN /\ ReadOnly \in BOOLEAN
  /\ ~(ReadOnly /\ HasOverlay)
  /\ None \notin Data
ASSUME RequestsAssumption == None \notin Requests /\ \A r \in Requests : IsRequest(r)

VARIABLES
  base, overlay, dirty,          \* the files and the dirty bitmap
  ready, lastAvail,              \* the queue
  interruptStatus, irq,          \* interrupt_status_ and the level of the line
  busy,                          \* handle_queue is running: [on, until, entry]
  chains,                        \* guest memory: the request of each head
  availRing, availIdx, usedRing, usedIdx,
  replies,                       \* guest memory: status byte and data buffers
  drvUsed, kick, handler         \* the driver

fileVars == <<base, overlay, dirty>>
queueVars == <<ready, lastAvail, busy>>
irqVars == <<interruptStatus, irq>>
availVars == <<chains, availRing, availIdx>>
usedVars == <<usedRing, usedIdx, replies>>
driverVars == <<drvUsed, kick, handler>>
vars == <<fileVars, queueVars, irqVars, availVars, usedVars, driverVars>>

Idle == [on |-> FALSE, until |-> 0, entry |-> FALSE]

Init ==
  /\ base = Image
  /\ overlay = [s \in Sectors |-> None]
  /\ dirty = {}
  /\ ready = FALSE /\ lastAvail = 0 /\ busy = Idle
  /\ interruptStatus = 0 /\ irq = FALSE
  /\ chains = [h \in Heads |-> None]
  /\ availRing = [i \in Heads |-> 0] /\ availIdx = 0
  /\ usedRing = [i \in Heads |-> 0] /\ usedIdx = 0
  /\ replies = [h \in Heads |-> None]
  /\ drvUsed = 0 /\ kick = FALSE /\ handler = "idle"

-----------------------------------------------------------------------------
(* The disk: ReadDisk and WriteDisk.                                        *)

\* What the guest sees in a sector.
ReadSector(s) == IF HasOverlay /\ s \in dirty THEN overlay[s] ELSE base[s]

\* Where the first j data descriptors end, and the sectors they cover.
SegEnd(r, j) == IF j = 0 THEN 0 ELSE r.segs[j]
Covered(r, j) == {s \in Sectors : s >= r.sector /\ s < r.sector + SegEnd(r, j)}
\* CheckRange of the j-th data descriptor.
Fits(r, j) == r.sector + SegEnd(r, j) <= NSectors
AllFit(r) == \A j \in 1..Len(r.segs) : Fits(r, j)

WriteDiskUnmarked(r, written, marked) ==
  LET write(file) == [s \in Sectors |->
                        IF s \in written THEN r.data[s - r.sector + 1] ELSE file[s]]
  IN IF HasOverlay
     THEN overlay' = write(overlay) /\ UNCHANGED <<base, dirty>>
     ELSE base' = write(base) /\ UNCHANGED <<overlay, dirty>>

\* PwriteAll to write_fd() of some sectors of the request, mark_dirty_range
\* of those whose write returned.
WriteDisk(r, written, marked) ==
  LET write(file) == [s \in Sectors |->
                        IF s \in written THEN r.data[s - r.sector + 1] ELSE file[s]]
  IN IF HasOverlay
     THEN /\ overlay' = write(overlay)
          /\ dirty' = dirty \union marked
          /\ UNCHANGED base
     ELSE base' = write(base) /\ UNCHANGED <<overlay, dirty>>

-----------------------------------------------------------------------------
(* process_request, by request type.  The reply is what the guest finds in  *)
(* its status byte ("lost": nothing was written there) and data buffers.    *)

Reply(h, status, data) == replies' = [replies EXCEPT ![h] = [status |-> status, data |-> data]]

ReadRequest(h, r) ==
  /\ r.type = "in" /\ r.chain = "ok"
  /\ \/ AllFit(r) /\ Reply(h, "ok", [s \in Covered(r, Len(r.segs)) |-> ReadSector(s)])
     \/ r.segs # <<>> /\ Reply(h, "ioerr", <<>>)   \* out of range, or pread failed
  /\ UNCHANGED fileVars

WriteRequest(h, r) ==
  /\ r.type = "out" /\ r.chain = "ok"
  /\ ReadOnly => r.segs = <<>>
  /\ AllFit(r)
  /\ LET all == Covered(r, Len(r.segs)) IN WriteDisk(r, all, all)
  /\ Reply(h, "ok", <<>>)

\* The first j descriptors were written when the next one is refused, or its
\* pwrite fails after some of its sectors.
WriteRequestFails(h, r) ==
  /\ r.type = "out" /\ r.chain = "ok"
  /\ \E j \in 0..(Len(r.segs) - 1) :
       /\ j > 0 => ~ReadOnly
       /\ \A i \in 1..j : Fits(r, i)
       /\ \E torn \in SUBSET (Covered(r, j + 1) \ Covered(r, j)) :
            /\ ReadOnly \/ ~Fits(r, j + 1) => torn = {}
            /\ WriteDisk(r, Covered(r, j) \union torn, Covered(r, j))
  /\ Reply(h, "ioerr", <<>>)

\* A flush is answered with success or, when fsync fails, an error; GET_ID
\* with success; an unknown type is unsupported.
OtherRequest(h, r) ==
  /\ r.type = "other" /\ r.chain = "ok"
  /\ \E status \in {"ok", "ioerr", "unsupp"} :
       (ReadOnly => status # "ioerr") /\ Reply(h, status, <<>>)
  /\ UNCHANGED fileVars

\* The status byte of a chain that cannot be walked is out of reach.
MalformedRequest(h, r) ==
  /\ r.chain # "ok"
  /\ \E status \in {"ioerr", "lost"} : Reply(h, status, <<>>)
  /\ UNCHANGED fileVars

-----------------------------------------------------------------------------
(* The queue.                                                               *)

\* Plausible bug: a notify is ignored while an interrupt is unacknowledged.
QueueNotifyCoalesced ==
  /\ kick /\ ~busy.on
  /\ busy' = IF ready /\ interruptStatus = 0
             THEN [on |-> TRUE, until |-> availIdx, entry |-> FALSE] ELSE busy
  /\ kick' = FALSE
  /\ UNCHANGED <<fileVars, ready, lastAvail, irqVars, availVars, usedVars, drvUsed, handler>>

\* Write of 0x050: avail_idx is read once.  An unready queue is ignored.
QueueNotify ==
  /\ kick /\ ~busy.on
  /\ busy' = IF ready THEN [on |-> TRUE, until |-> availIdx, entry |-> FALSE] ELSE busy
  /\ kick' = FALSE
  /\ UNCHANGED <<fileVars, ready, lastAvail, irqVars, availVars, usedVars, drvUsed, handler>>

\* Plausible bug: last_avail is not advanced past a chain that throws.
ProcessRequestStuck ==
  /\ busy.on /\ ~busy.entry /\ lastAvail # busy.until
  /\ LET head == availRing[lastAvail % QueueSize]
         r == chains[head]
     IN /\ \/ ReadRequest(head, r) \/ WriteRequest(head, r) \/ WriteRequestFails(head, r)
           \/ OtherRequest(head, r) \/ MalformedRequest(head, r)
        /\ usedRing' = [usedRing EXCEPT ![usedIdx % QueueSize] = head]
        /\ lastAvail' = IF r.chain = "malformed" THEN lastAvail ELSE (lastAvail + 1) % IndexMod
  /\ busy' = [busy EXCEPT !.entry = TRUE]
  /\ UNCHANGED <<ready, irqVars, availVars, usedIdx, driverVars>>

\* One turn of handle_queue up to the used ring entry of push_used.
ProcessRequest ==
  /\ busy.on /\ ~busy.entry /\ lastAvail # busy.until
  /\ LET head == availRing[lastAvail % QueueSize]
         r == chains[head]
     IN /\ \/ ReadRequest(head, r) \/ WriteRequest(head, r) \/ WriteRequestFails(head, r)
           \/ OtherRequest(head, r) \/ MalformedRequest(head, r)
        /\ usedRing' = [usedRing EXCEPT ![usedIdx % QueueSize] = head]
  /\ lastAvail' = (lastAvail + 1) % IndexMod
  /\ busy' = [busy EXCEPT !.entry = TRUE]
  /\ UNCHANGED <<ready, irqVars, availVars, usedIdx, driverVars>>

\* The last write of push_used.
PublishUsed ==
  /\ busy.on /\ busy.entry
  /\ usedIdx' = (usedIdx + 1) % IndexMod
  /\ busy' = [busy EXCEPT !.entry = FALSE]
  /\ UNCHANGED <<fileVars, ready, lastAvail, irqVars, availVars, usedRing, replies, driverVars>>

\* handle_queue returns; the interrupt is raised even if nothing was done.
FinishNotify ==
  /\ busy.on /\ ~busy.entry /\ lastAvail = busy.until
  /\ busy' = Idle
  /\ interruptStatus' = 1 /\ irq' = TRUE
  /\ UNCHANGED <<fileVars, ready, lastAvail, availVars, usedVars, driverVars>>

\* Write of 0 to 0x070, and the driver's new, empty rings.
Reset ==
  /\ ~busy.on /\ ready /\ handler = "idle"
  /\ ready' = FALSE /\ lastAvail' = 0
  /\ interruptStatus' = 0 /\ irq' = FALSE
  /\ chains' = [h \in Heads |-> None]
  /\ availRing' = [i \in Heads |-> 0] /\ availIdx' = 0
  /\ usedRing' = [i \in Heads |-> 0] /\ usedIdx' = 0
  /\ replies' = [h \in Heads |-> None]
  /\ drvUsed' = 0 /\ kick' = FALSE
  /\ UNCHANGED <<fileVars, busy, handler>>

\* Write of 1 to 0x044.
SetReady ==
  /\ ~busy.on /\ ~ready
  /\ ready' = TRUE
  /\ UNCHANGED <<fileVars, lastAvail, busy, irqVars, availVars, usedVars, driverVars>>

-----------------------------------------------------------------------------
(* The driver.                                                              *)

\* Put a request in the available ring; a notify follows.
DriverSubmit(h, r) ==
  /\ ready /\ chains[h] = None
  /\ chains' = [chains EXCEPT ![h] = r]
  /\ availRing' = [availRing EXCEPT ![availIdx % QueueSize] = h]
  /\ availIdx' = (availIdx + 1) % IndexMod
  /\ kick' = TRUE
  /\ UNCHANGED <<fileVars, queueVars, irqVars, usedVars, drvUsed, handler>>

\* The interrupt handler reads 0x060 ...
DriverInterrupt ==
  /\ irq /\ handler = "idle" /\ ~busy.on
  /\ handler' = "read"
  /\ UNCHANGED <<fileVars, queueVars, irqVars, availVars, usedVars, drvUsed, kick>>

\* ... and acknowledges with 0x064.
InterruptAck ==
  /\ handler = "read" /\ ~busy.on
  /\ interruptStatus' = 0 /\ irq' = FALSE
  /\ handler' = "acked"
  /\ UNCHANGED <<fileVars, queueVars, availVars, usedVars, drvUsed, kick>>

DriverCollect ==
  /\ handler = "acked" /\ drvUsed # usedIdx
  /\ LET head == usedRing[drvUsed % QueueSize]
     IN /\ chains' = [chains EXCEPT ![head] = None]
        /\ replies' = [replies EXCEPT ![head] = None]
  /\ drvUsed' = (drvUsed + 1) % IndexMod
  /\ UNCHANGED <<fileVars, queueVars, irqVars, availRing, availIdx, usedRing, usedIdx, kick, handler>>

DriverDone ==
  /\ handler = "acked" /\ drvUsed = usedIdx
  /\ handler' = "idle"
  /\ UNCHANGED <<fileVars, queueVars, irqVars, availVars, usedVars, drvUsed, kick>>

DeviceStep == ProcessRequest \/ PublishUsed \/ FinishNotify
HandlerStep == DriverInterrupt \/ InterruptAck \/ DriverCollect \/ DriverDone

Next ==
  \/ DeviceStep \/ HandlerStep \/ QueueNotify \/ Reset \/ SetReady
  \/ \E h \in Heads, r \in Requests : DriverSubmit(h, r)

Spec == Init /\ [][Next]_vars

\* The vCPU that exited finishes its MMIO exit, the guest notifies after it
\* queued a request and runs its interrupt handler.
FairSpec == Spec /\ WF_vars(DeviceStep) /\ WF_vars(QueueNotify) /\ WF_vars(HandlerStep)

-----------------------------------------------------------------------------
(* Properties.                                                              *)

Indices == 0..(IndexMod - 1)
ReplyStatus == {"ok", "ioerr", "unsupp", "lost"}
Replies == [status : ReplyStatus, data : {<<>>} \union UNION {[S -> Data] : S \in SUBSET Sectors}]

ASSUME RepliesAssumption == None \notin Replies

TypeOK ==
  /\ base \in [Sectors -> Data]
  /\ overlay \in [Sectors -> Data \union {None}]
  /\ dirty \subseteq Sectors
  /\ ready \in BOOLEAN /\ lastAvail \in Indices
  /\ busy \in [on : BOOLEAN, until : Indices, entry : BOOLEAN]
  /\ interruptStatus \in {0, 1} /\ irq \in BOOLEAN
  /\ chains \in [Heads -> Requests \union {None}]
  /\ availRing \in [Heads -> Heads] /\ availIdx \in Indices
  /\ usedRing \in [Heads -> Heads] /\ usedIdx \in Indices
  /\ replies \in [Heads -> Replies \union {None}]
  /\ drvUsed \in Indices /\ kick \in BOOLEAN /\ handler \in {"idle", "read", "acked"}

\* A disk with an overlay, or opened read-only, keeps its image file as it
\* was, and every sector served from the overlay was really written there.
ImagePreserved ==
  /\ HasOverlay \/ ReadOnly => base = Image
  /\ \A s \in dirty : overlay[s] # None

\* The positions of a ring between two indices, across the wrap.
Span(from, to) == {(from + k) % IndexMod : k \in 0..(((to + IndexMod - from) % IndexMod) - 1)}

\* Each request the driver has outstanding is in exactly one place: still in
\* the available ring, in the entry push_used is about to publish, or in the
\* used ring.  No head is handled twice, none is dropped, wherever the 16-bit
\* indices wrap.
Outstanding == {h \in Heads : chains[h] # None}
Queued == {availRing[i % QueueSize] : i \in Span(lastAvail, availIdx)}
Used == {usedRing[i % QueueSize] : i \in Span(drvUsed, usedIdx)}
InEntry == IF busy.entry THEN {usedRing[usedIdx % QueueSize]} ELSE {}
ExactlyOnce ==
  /\ Queued \union Used \union InEntry = Outstanding
  /\ Cardinality(Span(lastAvail, availIdx)) + Cardinality(Span(drvUsed, usedIdx))
       + Cardinality(InEntry) = Cardinality(Outstanding)

\* The interrupt is level-triggered and acknowledged before the used ring is
\* read: a completion the driver has not seen keeps the line high, or the
\* driver is in its handler, or the notify that produced it is still running.
NoLostInterrupt ==
  drvUsed # usedIdx => irq \/ handler # "idle" \/ busy.on

\* The device is a block store: the disk the guest sees is the overlay where
\* it is dirty and the image elsewhere.
Store == INSTANCE BlockStore WITH
  disk <- [s \in Sectors |-> ReadSector(s)],
  pending <- chains,
  reply <- replies,
  Disk0 <- Image

\* Every step of the queue and of the copy-on-write files is a step of that
\* store: reads return the last completed write, writes touch their own sectors.
ImplementsStore == Store!StoreSpec

\* A request that was submitted is collected by the driver, or the device is reset.
Completes == \A h \in Heads : chains[h] # None ~> chains[h] = None

\* The request queue is sound: the image is never written, every request is
\* answered once, and its interrupt is not lost.
BlkSafe == TypeOK /\ ImagePreserved /\ ExactlyOnce /\ NoLostInterrupt
=============================================================================
