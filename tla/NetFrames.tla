----------------------------- MODULE NetFrames -----------------------------
(***************************************************************************)
(* The frames of the virtio network devices of the KVM backend (class       *)
(* VirtioNet of native/kvm/backend.cc, on a tap or on libslirp) and of the  *)
(* HVF backend (class VirtioNet of native/hvf/backend.cc, on libslirp, a    *)
(* socket_vmnet stream or vmnet).  The device runs under device_mu, so a    *)
(* KVM poll_rx is one step; HVF's reader thread and vmnet callback take     *)
(* only the queue and notification locks, so there drain_notify and each    *)
(* frame are steps of their own.  Frames are numbered as the host emits     *)
(* them; a guest buffer too short for a frame is one of ShortBuffers.       *)
(***************************************************************************)
EXTENDS Naturals, Sequences

CONSTANTS
  NicKinds,      \* among {"kvm_tap", "kvm_slirp", "hvf_slirp", "hvf_socket", "hvf_vmnet"}
  MaxFrames,     \* frames the host emits
  BigFrames,     \* those longer than kMaxFrameSize
  MaxBuffers,    \* receive buffers the driver posts, per initialization
  ShortBuffers,  \* those too short for a frame
  PollLimit,     \* frames per poll_rx: 16 on KVM, 32 on HVF
  Forwards,      \* number of host port forwards of a slirp network
  MaxTransmits, MaxNicResets

ASSUME NetFramesAssumption ==
  /\ NicKinds \subseteq {"kvm_tap", "kvm_slirp", "hvf_slirp", "hvf_socket", "hvf_vmnet"}
  /\ {MaxFrames, MaxBuffers, PollLimit, Forwards, MaxTransmits, MaxNicResets} \subseteq Nat
  /\ PollLimit > 0 /\ BigFrames \subseteq 1..MaxFrames /\ ShortBuffers \subseteq 1..MaxBuffers

VARIABLES
  nic,   \* the device and its rings in guest memory
  feed,  \* the host side: frames not read yet, the reader or callback, the notification pipe
  drv    \* the guest's driver

netFrameVars == <<nic, feed, drv>>

Slirp  == nic.kind \in {"kvm_slirp", "hvf_slirp"}
Hvf    == nic.kind \in {"hvf_slirp", "hvf_socket", "hvf_vmnet"}

\* The constructors; lost and got are history: frames dropped, frames delivered.
NetFramesInit ==
  /\ nic \in [kind : NicKinds, phase : {"new"}, pc : {"idle"}, iter : {0}, capped : {FALSE},
              ready : {FALSE}, last_avail : {0}, posted : {0}, used : {0}, int : {FALSE}, line : {FALSE},
              frames : {<<>>}, got : {<<>>}, lost : {{}}, shorted : {0},
              tx_last : {0}, tx_posted : {0}, tx_used : {0}]
  /\ feed = [source |-> <<>>, sent |-> 0, reader |-> "none", done |-> FALSE,
             pipe |-> 0, pending |-> FALSE, bound |-> {}]
  /\ drv = [kick |-> FALSE, tx_kick |-> FALSE, isr |-> "run", seen |-> 0, resets |-> 0]

-----------------------------------------------------------------------------
(* Start and stop.                                                          *)

\* start_slirp: the forwards are added one by one; the k-th may be refused (its
\* host port is taken), which throws.  KVM runs it in the constructor, so no
\* destructor follows and the Slirp instance stays; HVF runs it on a device
\* whose destructor calls stop_vmnet.
start_slirp(k) ==
  /\ nic.phase = "new" /\ Slirp
  /\ \/ k > Forwards /\ nic' = [nic EXCEPT !.phase = "up"] /\ feed' = [feed EXCEPT !.bound = 1..Forwards]
     \/ k <= Forwards /\ nic' = [nic EXCEPT !.phase = "failed"]
        /\ feed' = [feed EXCEPT !.bound = IF Hvf THEN {} ELSE 1..k - 1]
  /\ UNCHANGED drv
\* start_socket_vmnet, the vmnet interface with its callback, the tap.
start ==
  /\ nic.phase = "new" /\ ~Slirp
  /\ nic' = [nic EXCEPT !.phase = "up"]
  /\ feed' = [feed EXCEPT !.reader = IF nic.kind = "hvf_socket" THEN "read" ELSE "none"]
  /\ UNCHANGED drv

\* The destructor: stop_slirp, then stop_socket_vmnet up to the join.
stop_vmnet ==
  /\ nic.phase = "up" /\ nic.pc = "idle"
  /\ nic' = [nic EXCEPT !.phase = "stopping"]
  /\ feed' = [feed EXCEPT !.bound = {}, !.done = TRUE]
  /\ UNCHANGED drv
JoinReader ==
  /\ nic.phase = "stopping" /\ feed.reader \in {"none", "ended"}
  /\ nic' = [nic EXCEPT !.phase = "gone"]
  /\ UNCHANGED <<feed, drv>>

-----------------------------------------------------------------------------
(* The host side.                                                           *)

NewFrame == feed.sent + 1
Runs == nic.phase = "up"

\* A frame reaches the tap's queue, the socket's stream or vmnet, which then
\* owes a PACKETS_AVAILABLE event.
HostSendsFrame ==
  /\ Runs /\ ~Slirp /\ feed.sent < MaxFrames
  /\ feed' = [feed EXCEPT !.source = Append(@, NewFrame), !.sent = @ + 1,
                          !.reader = IF nic.kind = "hvf_vmnet" THEN "notify" ELSE @]
  /\ UNCHANGED <<nic, drv>>

\* notify_host: one byte in the pipe while none is pending; then every vCPU is
\* woken.
notify_host(f) == IF f.pending THEN f ELSE [f EXCEPT !.pipe = 1, !.pending = TRUE]

\* The socket thread: a frame is read and queued, then notify_host; it ends when it
\* sees socket_done_, and by itself at the end of the stream, a read that fails or a
\* length it refuses: frames still in the stream then stay there.
ReaderQueues ==
  /\ feed.reader = "read" /\ ~feed.done /\ feed.source # <<>>
  /\ feed' = [feed EXCEPT !.source = Tail(@), !.reader = "notify"]
  /\ nic' = [nic EXCEPT !.frames = Append(@, Head(feed.source))]
  /\ UNCHANGED drv
ReaderNotifies ==
  /\ feed.reader = "notify"
  /\ feed' = [notify_host(feed) EXCEPT !.reader = IF nic.kind = "hvf_socket" THEN "read" ELSE "none"]
  /\ UNCHANGED <<nic, drv>>
ReaderEnds ==
  /\ feed.reader = "read"
  /\ feed' = [feed EXCEPT !.reader = "ended"]
  /\ UNCHANGED <<nic, drv>>

-----------------------------------------------------------------------------
(* Receiving.  n is the device, within one handler.                         *)

has_rx_buffer(n) == n.ready /\ n.last_avail < n.posted

signal_queue(n) == [n EXCEPT !.int = TRUE, !.line = TRUE]
signal_net(n)   == [n EXCEPT !.int = TRUE, !.line = TRUE]

\* inject_rx_frame: the buffer is taken before its length is known to suffice.
Suffices(n) == n.last_avail + 1 \notin ShortBuffers
Take(n) == [n EXCEPT !.last_avail = @ + 1, !.shorted = IF Suffices(n) THEN @ ELSE @ + 1]
kvm_inject_rx_frame(n, f) ==
  IF Suffices(n) THEN signal_queue([Take(n) EXCEPT !.used = @ + 1, !.got = Append(@, f)]) ELSE Take(n)
\* HVF throws for a frame above kMaxFrameSize, which ends the VM.
hvf_inject_rx_frame(n, f) ==
  IF f \in BigFrames THEN [n EXCEPT !.phase = "threw", !.lost = @ \cup {f}]
  ELSE IF Suffices(n) THEN signal_net([Take(n) EXCEPT !.used = @ + 1, !.got = Append(@, f)])
  ELSE [Take(n) EXCEPT !.lost = @ \cup {f}]

\* send_packet: libslirp hands a frame over (KVM pads it to 60 bytes).
enqueue_slirp_rx(n, f) == [n EXCEPT !.frames = Append(@, f)]
slirp_send_packet(n, f) == [n EXCEPT !.frames = Append(@, f)]

\* flush_slirp_rx: while a frame goes in; one that does not fit stays in front.
flush_slirp_rx(n) ==
  LET loop[i \in 0..Len(n.frames)] ==
        IF i = 0 THEN [n |-> n, more |-> TRUE]
        ELSE LET x == loop[i - 1]
             IN  IF ~x.more \/ ~has_rx_buffer(x.n) THEN [x EXCEPT !.more = FALSE]
                 ELSE IF ~Suffices(x.n) THEN [n |-> Take(x.n), more |-> FALSE]
                 ELSE [n |-> [kvm_inject_rx_frame(x.n, Head(x.n.frames)) EXCEPT !.frames = Tail(@)],
                       more |-> TRUE]
  IN  loop[Len(n.frames)].n

\* poll_rx on the tap: drain_tap while the queue is not ready, else up to
\* PollLimit frames while there are buffers; a frame that does not fit is gone.
tap_poll_rx(n, src) ==
  LET loop[i \in 0..PollLimit] ==
        IF i = 0 THEN [n |-> n, src |-> src]
        ELSE LET x == loop[i - 1]
             IN  IF ~has_rx_buffer(x.n) \/ x.src = <<>> THEN x
                 ELSE [n |-> IF Suffices(x.n) THEN kvm_inject_rx_frame(x.n, Head(x.src))
                             ELSE [Take(x.n) EXCEPT !.lost = @ \cup {Head(x.src)}],
                       src |-> Tail(x.src)]
  IN  IF ~n.ready THEN [n |-> [n EXCEPT !.lost = @ \cup {src[i] : i \in DOMAIN src}], src |-> <<>>]
      ELSE loop[PollLimit]

\* KVM's poll_rx on device n: emits is whether libslirp has a frame.
kvm_poll_rx(n, emits) ==
  IF nic.kind = "kvm_slirp"
  THEN /\ nic' = flush_slirp_rx(IF emits THEN enqueue_slirp_rx(n, NewFrame) ELSE n)
       /\ feed' = IF emits THEN [feed EXCEPT !.sent = @ + 1] ELSE feed
  ELSE LET x == tap_poll_rx(n, feed.source)
       IN  ~emits /\ nic' = x.n /\ feed' = [feed EXCEPT !.source = x.src]

\* Plausible bug: the pipe is drained, notify_pending_ stays set.
drain_notify_KeepsPending(f) == [f EXCEPT !.pipe = 0]
drain_notify(f) == [f EXCEPT !.pipe = 0, !.pending = FALSE]
\* HVF's poll_rx up to its loop: nothing unless the queue is ready; drain_notify,
\* then poll_slirp, whose frames notify again.
hvf_poll_begin(n, emits) ==
  LET drained == drain_notify(feed)
      m == [n EXCEPT !.pc = "poll", !.iter = 0, !.capped = FALSE]
  IN  \/ ~n.ready /\ ~emits /\ nic' = n /\ feed' = feed
      \/ n.ready /\ ~emits /\ nic' = m /\ feed' = drained
      \/ n.ready /\ emits /\ nic.kind = "hvf_slirp" /\ nic' = slirp_send_packet(m, NewFrame)
         /\ feed' = [notify_host(drained) EXCEPT !.sent = @ + 1]

\* One turn of its loop; capped records that it ended early, at the limit or because
\* vmnet_read failed.
HvfPollTurn ==
  LET waiting == IF nic.kind = "hvf_vmnet" THEN feed.source ELSE nic.frames
      stops == nic.iter = PollLimit \/ ~has_rx_buffer(nic) \/ waiting = <<>>
      popped == IF nic.kind = "hvf_vmnet" THEN nic ELSE [nic EXCEPT !.frames = Tail(@)]
  IN  /\ nic.pc = "poll" /\ Runs
      /\ \/ stops /\ nic' = [nic EXCEPT !.pc = "idle", !.capped = nic.iter = PollLimit] /\ UNCHANGED feed
         \/ ~stops /\ nic.kind = "hvf_vmnet" /\ nic' = [nic EXCEPT !.pc = "idle", !.capped = TRUE]
            /\ UNCHANGED feed
         \/ ~stops /\ nic' = [hvf_inject_rx_frame(popped, Head(waiting)) EXCEPT !.iter = @ + 1]
            /\ feed' = IF nic.kind = "hvf_vmnet" THEN [feed EXCEPT !.source = Tail(@)] ELSE feed
      /\ UNCHANGED drv

CanEmit(emits) == emits => Slirp /\ feed.sent < MaxFrames
poll_rx(n, emits) ==
  CanEmit(emits) /\ IF Hvf THEN hvf_poll_begin(n, emits) ELSE kvm_poll_rx(n, emits)

\* A vCPU between two runs: KVM's first vCPU polls each time; HVF's poll_devices
\* when slirp is used or the pipe is readable.
poll_devices(emits) ==
  /\ Runs /\ nic.pc = "idle"
  /\ Hvf /\ nic.kind # "hvf_slirp" => feed.pipe > 0
  /\ poll_rx(nic, emits)
  /\ UNCHANGED drv
\* A vCPU that traps on WFI polls whatever the pipe holds (HVF).
WfiPolls(emits) == Hvf /\ Runs /\ nic.pc = "idle" /\ poll_rx(nic, emits) /\ UNCHANGED drv

-----------------------------------------------------------------------------
(* The guest's driver, and what the registers it writes do.                 *)

GuestReady ==
  /\ Runs /\ nic.pc = "idle" /\ ~nic.ready
  /\ nic' = [nic EXCEPT !.ready = TRUE] /\ UNCHANGED <<feed, drv>>
GuestPostsBuffer ==
  /\ Runs /\ nic.ready /\ nic.posted < MaxBuffers
  /\ nic' = [nic EXCEPT !.posted = @ + 1] /\ drv' = [drv EXCEPT !.kick = TRUE] /\ UNCHANGED feed
\* QueueNotify 0.
GuestKicks(emits) ==
  /\ Runs /\ nic.pc = "idle" /\ drv.kick
  /\ poll_rx(nic, emits) /\ drv' = [drv EXCEPT !.kick = FALSE]
GuestTransmits ==
  /\ Runs /\ nic.ready /\ nic.tx_posted < MaxTransmits
  /\ nic' = [nic EXCEPT !.tx_posted = @ + 1] /\ drv' = [drv EXCEPT !.tx_kick = TRUE] /\ UNCHANGED feed

\* handle_tx_queue: every available buffer through process_tx (writev to the tap,
\* slirp_input, the socket or vmnet), push_used and a signal for each, then
\* poll_rx.
Sent(n) == IF n.tx_last = n.tx_posted THEN n
           ELSE signal_queue([n EXCEPT !.tx_used = n.tx_used + (n.tx_posted - n.tx_last), !.tx_last = n.tx_posted])
kvm_handle_tx_queue(emits) == poll_rx(Sent(nic), emits)
\* The same on HVF; emits covers a frame that slirp_input answers with.
hvf_handle_tx_queue(emits) == poll_rx(Sent(nic), emits)
GuestKicksTx(emits) ==
  /\ Runs /\ nic.pc = "idle" /\ drv.tx_kick
  /\ IF Hvf THEN hvf_handle_tx_queue(emits) ELSE kvm_handle_tx_queue(emits)
  /\ drv' = [drv EXCEPT !.tx_kick = FALSE]
\* writev fails for good (KVM), which throws out of the vCPU loop.
WriteTapThrows ==
  /\ Runs /\ nic.pc = "idle" /\ drv.tx_kick /\ nic.kind = "kvm_tap" /\ nic.tx_last < nic.tx_posted
  /\ nic' = [nic EXCEPT !.phase = "threw", !.tx_last = @ + 1] /\ UNCHANGED <<feed, drv>>

\* The interrupt handler: acknowledge, then look at the used rings.
Isr ==
  /\ Runs /\ nic.pc = "idle"
  /\ \/ nic.line /\ drv.isr = "run" /\ drv' = [drv EXCEPT !.isr = "ack"] /\ UNCHANGED nic
     \/ drv.isr = "ack" /\ drv' = [drv EXCEPT !.isr = "look"]
        /\ nic' = [nic EXCEPT !.int = FALSE, !.line = FALSE]
     \/ drv.isr = "look" /\ drv' = [drv EXCEPT !.isr = "run", !.seen = nic.used + nic.tx_used] /\ UNCHANGED nic
  /\ UNCHANGED feed

\* reset: the queues and the interrupt; frames that wait are kept.
reset_dev ==
  /\ Runs /\ nic.pc = "idle" /\ drv.isr = "run" /\ drv.resets < MaxNicResets
  /\ nic' = [nic EXCEPT !.ready = FALSE, !.last_avail = 0, !.posted = 0, !.used = 0, !.int = FALSE,
                        !.line = FALSE, !.tx_last = 0, !.tx_posted = 0, !.tx_used = 0]
  /\ drv' = [kick |-> FALSE, tx_kick |-> FALSE, isr |-> "run", seen |-> 0, resets |-> drv.resets + 1]
  /\ UNCHANGED feed

NetFramesNext ==
  \/ (\E k \in 1..Forwards + 1 : start_slirp(k)) \/ start \/ stop_vmnet \/ JoinReader
  \/ HostSendsFrame \/ ReaderQueues \/ ReaderNotifies \/ ReaderEnds \/ HvfPollTurn
  \/ GuestReady \/ GuestPostsBuffer \/ GuestTransmits \/ WriteTapThrows \/ Isr \/ reset_dev
  \/ \E emits \in BOOLEAN : poll_devices(emits) \/ WfiPolls(emits) \/ GuestKicks(emits) \/ GuestKicksTx(emits)

NetFramesSpec == NetFramesInit /\ [][NetFramesNext]_netFrameVars

-----------------------------------------------------------------------------
\* The guest receives frames in the order the host emitted them, none twice, over
\* resets too (flush_slirp_rx and the rx_frames_ queue against the reader).
FramesInOrder == \A i, j \in DOMAIN nic.got : i < j => nic.got[i] < nic.got[j]

\* A frame is with the host, queued, delivered or dropped, and only one of them;
\* KVM on libslirp drops none, HVF one per short buffer (inject_rx_frame).
Elems(s) == {s[i] : i \in DOMAIN s}
NoFrameVanishes ==
  LET places == <<Elems(feed.source), Elems(nic.frames), Elems(nic.got), nic.lost>>
  IN  /\ \A f \in 1..feed.sent : \E p \in 1..4 : f \in places[p] /\ \A q \in 1..4 \ {p} : f \notin places[q]
      /\ nic.kind = "kvm_slirp" => nic.lost = {}
      /\ Hvf /\ nic.shorted = 0 => nic.lost \subseteq BigFrames

\* No lost wake-up on HVF: while a frame and a buffer for it wait, a notification
\* is in the pipe or about to be, or the driver is about to notify (notify_host
\* against drain_notify and poll_rx).  Excepted is a poll that ended early: after
\* its 32 frames, or at a vmnet_read that failed, the pipe is drained and the rest
\* waits for the next frame, notification of the driver or WFI.
PollDue ==
  LET waiting == IF nic.kind = "hvf_vmnet" THEN feed.source ELSE nic.frames
  IN  nic.kind \in {"hvf_socket", "hvf_vmnet"} /\ Runs /\ nic.pc = "idle"
        /\ waiting # <<>> /\ has_rx_buffer(nic)
      => feed.pipe > 0 \/ feed.reader = "notify" \/ drv.kick \/ nic.capped

\* Used buffers the driver has not looked at are announced: the line is up, or its
\* handler has yet to look (signal_queue and the interrupt acknowledge).
NicSignalled ==
  Runs /\ drv.isr = "run" /\ nic.used + nic.tx_used > drv.seen => nic.line

\* A transmit buffer comes back as used unless a notification is outstanding.
TxAnswered == Runs /\ ~drv.tx_kick => nic.tx_used = nic.tx_posted

\* Once the device is gone no thread of it runs, and no host port is bound by a
\* device that is gone or, on HVF, that failed to start (stop_vmnet).
NicReleased ==
  /\ nic.phase = "gone" => feed.reader \in {"none", "ended"} /\ feed.bound = {}
  /\ nic.phase = "failed" /\ Hvf => feed.bound = {}

\* Frames pass in order and none vanishes, somebody polls while one waits unless
\* the last poll ended early, each completion is signalled, and a NIC that is gone
\* holds nothing.
FramesKept ==
  FramesInOrder /\ NoFrameVanishes /\ PollDue /\ NicSignalled /\ TxAnswered /\ NicReleased
=============================================================================
