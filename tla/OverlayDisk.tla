----------------------------- MODULE OverlayDisk -----------------------------
(***************************************************************************)
(* The block requests of the WHP and HVF backends (native/whp/virtio/blk.cc *)
(* and class VirtioBlk of native/hvf/backend.cc), byte by byte and with the *)
(* width of the integers kept: process_request over the data descriptors   *)
(* of one request, the range checks of ReadDisk and WriteDisk, the         *)
(* copy-on-write overlay with one dirty bit per whole sector, on an image  *)
(* whose size need not be a multiple of the sector.  A request is one step *)
(* (an MMIO exit, under the device lock); any host transfer may fail after *)
(* a part of its bytes.                                                    *)
(***************************************************************************)
EXTENDS Naturals, Sequences

CONSTANTS
  Wide,         \* 2^64: where uint64_t wraps
  SectorBytes,  \* 512 in the code
  DiskBytes,    \* disk_bytes_, the size of the image file
  Lengths,      \* lengths of data descriptors
  FirstSectors, \* sector fields of request headers
  MaxSegments,  \* data descriptors of a request
  MaxBlkRequests

ASSUME DiskSizeAssumption ==
  /\ SectorBytes \in Nat \ {0} /\ Wide \in Nat /\ Wide > DiskBytes + SectorBytes
  /\ DiskBytes \in Nat /\ DiskBytes < Wide \div 2   \* the size of a file fits off_t
  /\ Lengths \subseteq Nat /\ FirstSectors \subseteq 0..Wide - 1
  /\ MaxSegments \in Nat /\ MaxBlkRequests \in Nat

VARIABLES
  disk,      \* the files, the dirty bits and how the disk was opened
  answer,    \* the last reply, and the one that was due (specification)
  promised   \* for each byte the values a read may return (specification)

overlayVars == <<disk, answer, promised>>

Bytes    == 0..DiskBytes - 1
sectors_ == DiskBytes \div SectorBytes
SectorOf(b) == b \div SectorBytes
Answered  == [ok |-> TRUE, due |-> TRUE, current |-> TRUE]

\* Bytes that no request has written to the overlay.
Unwritten == MaxBlkRequests + 1

\* The constructors: an overlay is created empty, and refused on a read-only disk.
Opened(backend, overlaid, read_only) ==
  [backend |-> backend, overlaid |-> overlaid, read_only |-> read_only, n |-> 0,
   base |-> [b \in Bytes |-> 0], overlay |-> [b \in Bytes |-> Unwritten], dirty |-> {}]
whp_VirtioBlk == {Opened("whp", o, r) : o, r \in BOOLEAN} \ {Opened("whp", TRUE, TRUE)}
hvf_VirtioBlk == {Opened("hvf", o, r) : o, r \in BOOLEAN} \ {Opened("hvf", TRUE, TRUE)}
OverlayInit ==
  /\ disk \in whp_VirtioBlk \cup hvf_VirtioBlk
  /\ answer = Answered
  /\ promised = [b \in Bytes |-> {0}]

sector_dirty(d, s) == d.overlaid /\ s < sectors_ /\ s \in d.dirty
mark_dirty_range(d, off, len) ==
  IF ~d.overlaid \/ len = 0 THEN d
  ELSE [d EXCEPT !.dirty = @ \cup {s \in SectorOf(off)..SectorOf(off + len - 1) : s < sectors_}]

hvf_mark_dirty_range(d, off, len) == mark_dirty_range(d, off, len)

\* What ReadDisk returns for a byte: the overlay's where the sector is dirty.
Visible(d, b) == IF sector_dirty(d, SectorOf(b)) THEN d.overlay[b] ELSE d.base[b]

\* The sectors a write covers in part and that are not dirty are copied first.
prepare_partial_overlay_sectors(d, off, len) ==
  LET partial(s) == ~(off <= s * SectorBytes /\ off + len >= (s + 1) * SectorBytes)
      copied == {s \in SectorOf(off)..SectorOf(off + len - 1) : partial(s) /\ ~sector_dirty(d, s)}
  IN  IF ~d.overlaid \/ len = 0 THEN d
      ELSE [d EXCEPT !.overlay = [b \in Bytes |-> IF SectorOf(b) \in copied THEN d.base[b] ELSE @[b]]]
hvf_prepare_partial_overlay(d, off, len) == prepare_partial_overlay_sectors(d, off, len)

\* PwriteAll to the write handle of the first k bytes.
PwriteAll(d, off, k) ==
  LET into(f) == [b \in Bytes |-> IF b \in off..off + k - 1 THEN d.n + 1 ELSE f[b]]
  IN  IF d.overlaid THEN [d EXCEPT !.overlay = into(@)] ELSE [d EXCEPT !.base = into(@)]

-----------------------------------------------------------------------------
\* Whether a transfer of len bytes at a sector passes the checks.  WHP:
\* CheckedMul, then CheckRange.
whp_InRange(sector, len) ==
  LET off == (sector * SectorBytes) % Wide
  IN  /\ sector = 0 \/ sector <= (Wide - 1) \div SectorBytes
      /\ off <= DiskBytes /\ len <= DiskBytes - off
\* DiskOffset: the same, and within off_t, which is half as wide.
hvf_DiskOffset(sector, len) ==
  LET off == (sector * SectorBytes) % Wide
      max_off == (Wide \div 2) - 1
  IN  /\ sector <= (Wide - 1) \div SectorBytes
      /\ off <= DiskBytes /\ len <= DiskBytes - off
      /\ off <= max_off /\ (len = 0 \/ len - 1 <= max_off - off)
InRange(d, sector, len) == IF d.backend = "whp" THEN whp_InRange(sector, len) ELSE hvf_DiskOffset(sector, len)

\* Plausible bug: the dirty bits are set before the bytes are written.
whp_WriteDisk_MarksFirst(d, off, len, k) ==
  PwriteAll(mark_dirty_range(prepare_partial_overlay_sectors(d, off, len), off, len), off, k)
\* WriteDisk with k of its len bytes written; a short write throws before
\* mark_dirty_range.
whp_WriteDisk(d, off, len, k) ==
  LET w == PwriteAll(prepare_partial_overlay_sectors(d, off, len), off, k)
  IN  IF k < len THEN w ELSE mark_dirty_range(w, off, len)
hvf_WriteDisk(d, off, len, k) ==
  LET w == PwriteAll(hvf_prepare_partial_overlay(d, off, len), off, k)
  IN  IF k < len THEN w ELSE hvf_mark_dirty_range(w, off, len)
WriteDiskOf(d, off, len, k) == IF d.backend = "whp" THEN whp_WriteDisk(d, off, len, k)
                                                    ELSE hvf_WriteDisk(d, off, len, k)

whp_ReadDisk(d, off, len) == [i \in 1..len |-> Visible(d, off + i - 1)]
hvf_ReadDisk(d, off, len) == [i \in 1..len |-> Visible(d, off + i - 1)]
ReadDiskOf(d, off, len) == IF d.backend = "whp" THEN whp_ReadDisk(d, off, len) ELSE hvf_ReadDisk(d, off, len)

\* One data descriptor: x is the request so far, bad the descriptor whose host
\* transfer fails, after k bytes.
Transfer(x, len, r, k) ==
  LET off == (x.sector * SectorBytes) % Wide
      refused == \/ len % SectorBytes # 0 \/ ~InRange(x.d, x.sector, len)
                 \/ r.type = "out" /\ x.d.read_only
      fails == r.bad = x.i
      next == [x EXCEPT !.i = @ + 1, !.sector = (@ + len \div SectorBytes) % Wide]
  IN  IF ~x.ok THEN x
      ELSE IF refused THEN [x EXCEPT !.ok = FALSE]
      ELSE IF r.type = "in"
           THEN IF fails THEN [x EXCEPT !.ok = FALSE]
                ELSE [next EXCEPT !.got = @ \o ReadDiskOf(x.d, off, len)]
      ELSE LET done == IF fails /\ len > 0 THEN k ELSE len
           IN  [next EXCEPT !.d = WriteDiskOf(x.d, off, len, done), !.ok = done = len,
                            !.maybe = @ \cup (off..off + len - 1)]

\* process_request: reads and writes go through their descriptors, a flush may
\* fail (WHP does not flush a read-only disk), GET_ID succeeds, any other type is
\* unsupported.
Started(r) == [d |-> disk, sector |-> r.sector, i |-> 1, ok |-> TRUE, got |-> <<>>, maybe |-> {}]
Transfers(r, k) ==
  LET upto[i \in 0..Len(r.descs)] ==
        IF i = 0 THEN Started(r) ELSE Transfer(upto[i - 1], r.descs[i], r, k)
  IN  upto[Len(r.descs)]
whp_process_request(r, k) ==
  CASE r.type \in {"in", "out"} -> Transfers(r, k)
    [] r.type = "flush"         -> [Started(r) EXCEPT !.ok = disk.read_only \/ r.bad = 0]
    [] r.type = "id"            -> Started(r)
    [] OTHER                    -> [Started(r) EXCEPT !.ok = FALSE]
hvf_process_request(r, k) ==
  CASE r.type \in {"in", "out"} -> Transfers(r, k)
    [] r.type = "flush"         -> [Started(r) EXCEPT !.ok = r.bad = 0]
    [] r.type = "id"            -> Started(r)
    [] OTHER                    -> [Started(r) EXCEPT !.ok = FALSE]

\* The reply that is due: a read or write succeeds when its descriptors are
\* whole sectors inside the image, computed without wrapping, and no transfer
\* failed.
Start(r, i) ==
  LET before[j \in 0..i - 1] == IF j = 0 THEN 0 ELSE before[j - 1] + r.descs[j]
  IN  r.sector * SectorBytes + before[i - 1]
Due(r) ==
  CASE r.type \in {"in", "out"} ->
         \A i \in DOMAIN r.descs :
           /\ r.descs[i] % SectorBytes = 0
           /\ Start(r, i) + r.descs[i] <= DiskBytes
           /\ r.type = "out" => ~disk.read_only
           /\ r.bad # i \/ (r.type = "out" /\ r.descs[i] = 0)
    [] r.type = "flush" -> r.bad = 0 \/ (disk.backend = "whp" /\ disk.read_only)
    [] OTHER -> r.type = "id"

\* A request: whether it is answered with success, and what it promises of the
\* disk.  A byte a failed request may have written holds its old or new value.
BlkRequest(r, k) ==
  LET x == IF disk.backend = "whp" THEN whp_process_request(r, k) ELSE hvf_process_request(r, k)
  IN  /\ disk.n < MaxBlkRequests
      /\ disk' = [x.d EXCEPT !.n = @ + 1]
      /\ answer' = [ok |-> x.ok, due |-> Due(r),
                    current |-> \A i \in DOMAIN x.got :
                                  x.got[i] \in promised[r.sector * SectorBytes + i - 1]]
      /\ promised' = [b \in Bytes |-> IF b \notin x.maybe THEN promised[b]
                                      ELSE IF x.ok THEN {disk.n + 1} ELSE promised[b] \cup {disk.n + 1}]

DescLists == UNION {[1..m -> Lengths] : m \in 0..MaxSegments}
OverlayNext ==
  \E type \in {"in", "out", "flush", "id", "unknown"} :
    \E descs \in IF type \in {"in", "out"} THEN DescLists ELSE {<<>>} :
      \E sector \in IF type \in {"in", "out"} THEN FirstSectors ELSE {0},
         bad \in IF type = "flush" THEN {0, 1} ELSE 0..Len(descs) :
        \E k \in IF bad = 0 THEN {0} ELSE 0..SectorBytes - 1 :
          BlkRequest([type |-> type, sector |-> sector, descs |-> descs, bad |-> bad], k)

OverlaySpec == OverlayInit /\ [][OverlayNext]_overlayVars

-----------------------------------------------------------------------------
\* What the guest would read of any byte is what the last successful write of
\* it wrote, or what a failed one may have left (ReadDisk and the dirty bits):
\* a request touches no byte outside its descriptors, and a sector that moves to
\* the overlay keeps the bytes it had.
DiskAsPromised == \A b \in Bytes : Visible(disk, b) \in promised[b]

\* With an overlay, or read-only, the image is never written; a dirty sector has
\* been written to the overlay as a whole (WriteDisk, prepare_partial_overlay).
BaseKept ==
  /\ disk.overlaid \/ disk.read_only => disk.base = [b \in Bytes |-> 0]
  /\ \A s \in disk.dirty : \A b \in Bytes : SectorOf(b) = s => disk.overlay[b] # Unwritten

\* A request succeeds exactly when it should: no wrapped offset, part of a sector
\* or byte past the end is accepted and no request inside the image is refused;
\* and the bytes a read returned were current (process_request, CheckRange).
AnsweredExactly == answer.ok = answer.due /\ answer.current

\* The disk reads back what was written, over a base that stays as it was, and
\* exactly the requests inside it are served.
OverlayExact == DiskAsPromised /\ BaseKept /\ AnsweredExactly
=============================================================================
