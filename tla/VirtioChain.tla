----------------------------- MODULE VirtioChain -----------------------------
(***************************************************************************)
(* What the virtio devices do with one chain of descriptors, whatever the  *)
(* guest wrote there: they walk it (block, network, random numbers),       *)
(* gather the frame it holds (transmit) or scatter one over it (receive),  *)
(* and read configuration space.  Each operation is one step on an input   *)
(* chosen freely and leaves its outcome in job, which the properties       *)
(* compare with a definition that does not loop.  In other behaviours the  *)
(* rings are used: the device answers in the used ring with two plain      *)
(* stores while another vCPU of the guest may poll it.                     *)
(*                                                                         *)
(* A descriptor is a record; far says that its buffer is outside memory.   *)
(***************************************************************************)
EXTENDS Naturals, Sequences

CONSTANTS
  TableSize,                 \* descriptors of a table
  DescLens, FrameLens,       \* lengths of a descriptor and of a frame
  HdrBytes, kMaxFrameSize,   \* 12 and 1518 in the code
  RingSize,                  \* entries of a ring, a power of two
  IndexWrap                  \* 2^16 in the code

ASSUME ChainAssumption ==
  /\ {TableSize, RingSize, IndexWrap, HdrBytes} \subseteq Nat \ {0} /\ IndexWrap % RingSize = 0
  /\ kMaxFrameSize \in Nat /\ DescLens \subseteq Nat /\ FrameLens \subseteq Nat

VARIABLES
  job,   \* the operation done, its input and its outcome
  rings  \* the rings in guest memory, both sides' positions, the answer being stored

chainVars == <<job, rings>>

Idx  == 0..(TableSize - 1)
Ring == 0..(RingSize - 1)
Lesser(a, b) == IF a < b THEN a ELSE b

\* Tables with any links, and chains of any buffers.
PlainDesc == [len |-> 1, write |-> TRUE, far |-> FALSE, more |-> FALSE, indirect |-> FALSE, next |-> 0]
LinkTables ==
  [Idx -> {PlainDesc, [PlainDesc EXCEPT !.indirect = TRUE], [PlainDesc EXCEPT !.write = FALSE]}
          \cup {[PlainDesc EXCEPT !.len = 2, !.more = TRUE, !.next = n] : n \in 0..TableSize}]
Descriptors == {[len |-> n, write |-> w, far |-> f] : n \in DescLens, w \in BOOLEAN, f \in BOOLEAN}
DescChains == UNION {[1..n -> Descriptors] : n \in 1..TableSize}

ChainInit ==
  /\ job \in [op : {"none", "rings"}]
  /\ rings \in [kind : {"whp", "kvm", "rng", "hvf"}, avail : {0}, heads : [Ring -> {0}], last_avail : {0},
                used : {0}, ids : [Ring -> {0}], push : {{}}, id : {0}, seen : {0},
                flight : {<<>>}, wrong : {FALSE}]
  /\ job.op = "none" => rings.kind = "whp"

-----------------------------------------------------------------------------
\* Walking a chain.

\* One turn of the loop: the three checks, then the descriptor.
WalkStep(t, s) ==
  IF s.st # "walk" THEN s
  ELSE IF s.idx >= TableSize \/ s.idx \in s.seen \/ t[s.idx].indirect THEN [s EXCEPT !.st = "throws"]
  ELSE [st |-> IF t[s.idx].more THEN "walk" ELSE "ok", idx |-> t[s.idx].next,
        seen |-> s.seen \cup {s.idx}, chain |-> Append(s.chain, s.idx)]

walk_chain_inline(t, head) ==
  LET at[k \in 0..(TableSize + 1)] ==
        IF k = 0 THEN [st |-> "walk", idx |-> head, seen |-> {}, chain |-> <<>>] ELSE WalkStep(t, at[k-1])
  IN  at[TableSize + 1]
kvm_net_walk_chain(t, head) == walk_chain_inline(t, head)
hvf_WalkChain(t, head)      == walk_chain_inline(t, head)

\* The random number device stops quietly where the others throw, takes an
\* indirect descriptor for a buffer, and fills what is writable.
RngStep(t, s) ==
  IF s.st # "walk" \/ s.hops = TableSize \/ s.idx >= TableSize \/ s.idx \in s.seen
  THEN [s EXCEPT !.st = "ok"]
  ELSE [st |-> IF t[s.idx].more THEN "walk" ELSE "ok", idx |-> t[s.idx].next, hops |-> s.hops + 1,
        seen |-> s.seen \cup {s.idx},
        written |-> s.written + (IF t[s.idx].write /\ ~t[s.idx].far THEN t[s.idx].len ELSE 0)]

service_chain(t, head) ==
  LET at[k \in 0..(TableSize + 1)] ==
        IF k = 0 THEN [st |-> "walk", idx |-> head, hops |-> 0, seen |-> {}, written |-> 0]
        ELSE RngStep(t, at[k-1])
  IN  at[TableSize + 1]

Walk ==
  /\ \E t \in LinkTables, head \in 0..TableSize, dev \in {"blk", "kvm_net", "hvf", "rng"} :
       job' = [op |-> "walk", dev |-> dev, table |-> t, head |-> head,
               res |-> CASE dev = "blk" -> walk_chain_inline(t, head)
                         [] dev = "kvm_net" -> kvm_net_walk_chain(t, head)
                         [] dev = "hvf" -> hvf_WalkChain(t, head)
                         [] dev = "rng" -> service_chain(t, head)]
  /\ UNCHANGED rings

-----------------------------------------------------------------------------
\* Frames.

\* The bytes of descriptor i from position p on, which stands for its contents.
BytesFrom(i, d, p) == [k \in 1..(d.len - p) |-> <<i, p + k>>]

\* process_tx skips the header, wherever the descriptors cut it.
kvm_TxStep(i, d, s) ==
  IF s.st # "ok" \/ d.write THEN [s EXCEPT !.st = "throws"]
  ELSE IF s.skip >= d.len THEN [s EXCEPT !.skip = @ - d.len]
  ELSE IF d.far THEN [s EXCEPT !.st = "throws"]
  ELSE [s EXCEPT !.skip = 0, !.frame = @ \o BytesFrom(i, d, s.skip)]
hvf_TxStep(i, d, s) ==
  IF s.st # "ok" \/ d.write \/ d.far THEN [s EXCEPT !.st = "throws"]
  ELSE IF s.skip >= d.len THEN [s EXCEPT !.skip = @ - d.len]
  ELSE IF Len(s.frame) + (d.len - s.skip) > kMaxFrameSize THEN [s EXCEPT !.st = "throws"]
  ELSE [s EXCEPT !.skip = 0, !.frame = @ \o BytesFrom(i, d, s.skip)]

process_tx(dev, c) ==
  LET at[k \in 0..Len(c)] ==
        IF k = 0 THEN [st |-> "ok", skip |-> HdrBytes, frame |-> <<>>]
        ELSE IF dev = "kvm" THEN kvm_TxStep(k, c[k], at[k-1]) ELSE hvf_TxStep(k, c[k], at[k-1])
  IN  at[Len(c)]

SendFrame ==
  /\ \E c \in DescChains, dev \in {"kvm", "hvf"} :
       job' = [op |-> "tx", dev |-> dev, chain |-> c, res |-> process_tx(dev, c)]
  /\ UNCHANGED rings

\* One descriptor of inject_rx_frame: h bytes of header, then f bytes of frame.
RxStep(d, n, s) ==
  IF s.st # "go" THEN s
  ELSE IF ~d.write \/ d.far THEN [s EXCEPT !.st = "throws"]
  ELSE LET h   == IF s.offset < HdrBytes THEN Lesser(d.len, HdrBytes - s.offset) ELSE 0
           off == s.offset + h
           f   == IF off >= HdrBytes /\ h < d.len /\ off < HdrBytes + n
                  THEN Lesser(d.len - h, n - (off - HdrBytes)) ELSE 0
       IN  [st |-> IF off + f >= HdrBytes + n THEN "ok" ELSE "go",
            offset |-> off + f, mem |-> Append(s.mem, [hdr |-> h, frame |-> f])]

scatter(c, n) ==
  LET at[k \in 0..Len(c)] ==
        IF k = 0 THEN [st |-> "go", offset |-> 0, mem |-> <<>>] ELSE RxStep(c[k], n, at[k-1])
  IN  at[Len(c)]

ReceiveFrame ==
  /\ \E c \in DescChains, n \in FrameLens : job' = [op |-> "rx", chain |-> c, n |-> n, res |-> scatter(c, n)]
  /\ UNCHANGED rings

-----------------------------------------------------------------------------
\* Configuration space: bytes, least significant first; the capacity and the
\* address are any that tell their bytes apart.
RegSpace  == 256
BlkConfig == <<1, 2, 3, 4, 5, 6, 7, 8>> \o <<0, 0, 0, 0>> \o <<128, 0, 0, 0>>
NetConfig == <<11, 12, 13, 14, 15, 16>> \o <<1, 0>> \o <<1, 0>> \o <<220, 5>>
Register  == <<201, 202, 203, 204>>

ReadMmio(cfg, off, len) ==
  LET at == off - RegSpace
  IN  [k \in 1..len |-> IF off < RegSpace THEN (IF len = 4 THEN Register[k] ELSE 0)
                        ELSE IF at < Len(cfg) /\ k <= Lesser(len, Len(cfg) - at) THEN cfg[at + k] ELSE 0]

kvm_blk_read_mmio(off, len) == ReadMmio(BlkConfig, off, len)
hvf_blk_read_mmio(off, len) == ReadMmio(BlkConfig, off, len)
whp_blk_read_mmio(off, len) == ReadMmio(BlkConfig, off, len)
kvm_net_read_mmio(off, len) == ReadMmio(NetConfig, off, len)
hvf_net_read_mmio(off, len) == ReadMmio(NetConfig, off, len)

\* What dev answers to a read of len bytes at off.
Answer(dev, off, len) ==
  CASE dev = "kvm_blk" -> kvm_blk_read_mmio(off, len)
    [] dev = "hvf_blk" -> hvf_blk_read_mmio(off, len)
    [] dev = "whp_blk" -> whp_blk_read_mmio(off, len)
    [] dev = "kvm_net" -> kvm_net_read_mmio(off, len)
    [] dev = "hvf_net" -> hvf_net_read_mmio(off, len)

ReadSpace ==
  /\ \E dev \in {"kvm_blk", "hvf_blk", "whp_blk", "kvm_net", "hvf_net"},
        off \in 252..(RegSpace + 18), len \in {1, 2, 4, 8} :
       job' = [op |-> "config", dev |-> dev, off |-> off, len |-> len, res |-> Answer(dev, off, len)]
  /\ UNCHANGED rings

-----------------------------------------------------------------------------
\* The rings.

Advance(i) == (i + 1) % IndexWrap

DriverPosts(head) ==
  /\ Len(rings.flight) < RingSize /\ head \notin {rings.flight[k] : k \in DOMAIN rings.flight}
  /\ rings' = [rings EXCEPT !.heads[rings.avail % RingSize] = head, !.avail = Advance(@),
                            !.flight = Append(@, head)]
  /\ UNCHANGED job

\* The next chain is taken and, once it is done, push_used starts.
TakeHead ==
  /\ rings.push = {} /\ rings.last_avail # rings.avail
  /\ rings' = [rings EXCEPT !.last_avail = Advance(@), !.push = {"entry", "index"},
                            !.id = rings.heads[rings.last_avail % RingSize]]
  /\ UNCHANGED job

\* push_used: the entry goes where the index read at its start points, then the
\* index is stored; both are plain stores.
push_used_inline(r, store) ==
  IF store = "entry"
  THEN [r EXCEPT !.push = @ \ {"entry"},
                 !.ids[(IF "index" \in r.push THEN r.used ELSE (r.used + IndexWrap - 1) % IndexWrap)
                       % RingSize] = r.id]
  ELSE [r EXCEPT !.push = @ \ {"index"}, !.used = Advance(@)]
kvm_push_used(r, store) == push_used_inline(r, store)
rng_push_used(r, store) == push_used_inline(r, store)
hvf_PushUsed(r, store)  == push_used_inline(r, store)

PushStore(store) ==
  rings' = CASE rings.kind = "whp" -> push_used_inline(rings, store)
             [] rings.kind = "kvm" -> kvm_push_used(rings, store)
             [] rings.kind = "rng" -> rng_push_used(rings, store)
             [] rings.kind = "hvf" -> hvf_PushUsed(rings, store)

StoreEntry == "entry" \in rings.push /\ PushStore("entry") /\ UNCHANGED job

\* Plausible bug: the index is published before the entry is written.
StoreIndex_First == "index" \in rings.push /\ PushStore("index") /\ UNCHANGED job

\* An Arm host may show the index before the entry.
StoreIndex ==
  /\ "index" \in rings.push /\ (rings.kind # "hvf" => "entry" \notin rings.push)
  /\ PushStore("index") /\ UNCHANGED job

\* The driver, on any vCPU, takes an answer that the index shows.
DriverCollects ==
  /\ rings.seen # rings.used /\ rings.flight # <<>>
  /\ rings' = [rings EXCEPT !.seen = Advance(@), !.flight = Tail(@),
                 !.wrong = @ \/ rings.ids[rings.seen % RingSize] # Head(rings.flight)]
  /\ UNCHANGED job

ChainNext ==
  \/ job.op = "none" /\ (Walk \/ SendFrame \/ ReceiveFrame \/ ReadSpace)
  \/ /\ job.op = "rings" /\ ~rings.wrong
     /\ \/ \E h \in Ring : DriverPosts(h)
        \/ TakeHead \/ StoreEntry \/ StoreIndex \/ DriverCollects

ChainSpec == ChainInit /\ [][ChainNext]_chainVars

-----------------------------------------------------------------------------
\* s is a chain from head: it stays in the table, follows the links, ends, and
\* has no indirect descriptor.
IsChain(t, head, s) ==
  /\ s[1] = head /\ \A k \in DOMAIN s : s[k] \in Idx /\ ~t[s[k]].indirect
  /\ \A k \in 1..(Len(s) - 1) : t[s[k]].more /\ t[s[k]].next = s[k+1]
  /\ ~t[s[Len(s)]].more
Paths == UNION {[1..n -> Idx] : n \in 1..TableSize}

\* The walk of every backend finds the chain a table holds, and throws exactly
\* when there is none: an index outside the table, an indirect descriptor or a
\* cycle, wherever it lies (walk_chain and its seen array).
WalkExact ==
  job.op = "walk" /\ job.dev # "rng" =>
    LET chains == {s \in Paths : IsChain(job.table, job.head, s)}
    IN  IF chains = {} THEN job.res.st = "throws"
        ELSE job.res.st = "ok" /\ chains = {job.res.chain}

\* The smallest set that holds head and the targets of its members' links.
ReachedFrom(t, head) ==
  LET closed == {S \in SUBSET Idx : /\ head \in Idx => head \in S
                                    /\ \A i \in S : t[i].more /\ t[i].next \in Idx => t[i].next \in S}
  IN  {i \in Idx : \A S \in closed : i \in S}

\* The random number device reports every byte it filled once: the length of
\* the writable descriptors reached, also when the chain is cut short by a
\* cycle or a bad index (service_chain).
RngCountsOnce ==
  job.op = "walk" /\ job.dev = "rng" =>
    LET filled == {i \in ReachedFrom(job.table, job.head) : job.table[i].write /\ ~job.table[i].far}
        sum[n \in 0..TableSize] ==
          IF n = 0 THEN 0 ELSE sum[n-1] + (IF n - 1 \in filled THEN job.table[n-1].len ELSE 0)
    IN  job.res.st = "ok" /\ job.res.written = sum[TableSize]

\* Bytes of the chain before descriptor k.
Before(c, k) ==
  LET sum[n \in 0..Len(c)] == IF n = 0 THEN 0 ELSE sum[n-1] + c[n].len IN sum[k-1]
Concat(c) ==
  LET at[n \in 0..Len(c)] == IF n = 0 THEN <<>> ELSE at[n-1] \o BytesFrom(n, c[n], 0) IN at[Len(c)]

\* The frame sent is what the guest's buffers hold after the header, however
\* they cut header and frame; a chain of good buffers that is not too long is
\* sent, and one the guest offers for writing never is (process_tx).
SentWhole ==
  job.op = "tx" =>
    LET all == Concat(job.chain)
        good == \A k \in DOMAIN job.chain : ~job.chain[k].write /\ ~job.chain[k].far
        fits == Len(all) <= HdrBytes + kMaxFrameSize
    IN  /\ job.res.st = "ok" => /\ job.res.frame = SubSeq(all, HdrBytes + 1, Len(all))
                                /\ \A k \in DOMAIN job.chain : ~job.chain[k].write
        /\ good /\ (job.dev = "hvf" => fits) => job.res.st = "ok"

\* A frame is delivered when the writable buffers hold header and frame: each
\* descriptor then has its share of the two and no byte more, and what lies
\* behind the last one used is not looked at; otherwise the frame is reported
\* as not fitting, or the buffer that is not writable or not in memory as an
\* error (inject_rx_frame).
ReceivedWhole ==
  job.op = "rx" =>
    LET c == job.chain
        need == HdrBytes + job.n
        used == {k \in DOMAIN c : Before(c, k) < need}
        Share(k, from, to) == Lesser(Before(c, k) + c[k].len, to)
                              - (IF Before(c, k) > from THEN Before(c, k) ELSE from)
        bad == \E k \in used : ~c[k].write \/ c[k].far
    IN  /\ job.res.st = "throws" <=> bad
        /\ job.res.st = "ok" <=> ~bad /\ Before(c, Len(c)) + c[Len(c)].len >= need
        /\ ~bad => \A k \in DOMAIN job.res.mem :
             /\ job.res.mem[k].hdr = IF Before(c, k) < HdrBytes THEN Share(k, 0, HdrBytes) ELSE 0
             /\ job.res.mem[k].frame =
                  IF Before(c, k) + c[k].len > HdrBytes THEN Share(k, HdrBytes, need) ELSE 0

\* A read of configuration space of any width is its bytes read one by one, and
\* what lies behind the space reads as zero (read_mmio).
ConfigInParts ==
  job.op = "config" /\ job.off >= RegSpace =>
    \A k \in 1..job.len :
      /\ job.res[k] = Answer(job.dev, job.off + k - 1, 1)[1]
      /\ job.off + k > RegSpace + 16 => job.res[k] = 0

\* A driver that polls the used ring finds the chains it made available, in
\* order, over the wrap of every index; HVF, whose Arm host may show the index
\* before the entry, is left out (push_used).
UsedInOrder == rings.kind # "hvf" => ~rings.wrong

\* Chains of any shape are walked, gathered, scattered and answered as the
\* definitions without loops say.
ChainsExact ==
  WalkExact /\ RngCountsOnce /\ SentWhole /\ ReceivedWhole /\ ConfigInParts /\ UsedInOrder
===============================================================================
