----------------------------- MODULE DeviceProofs -----------------------------
(***************************************************************************)
(* Proofs about the byte streams, the frames and the disks of the devices,  *)
(* for every queue limit, every number of bytes, frames and buffers, every  *)
(* size of the image and every way their transfers interleave or fail.      *)
(*                                                                         *)
(* What such a device promises compares a stream that was cut, filtered or *)
(* expanded with the one it came from, so each proof rests on what the     *)
(* recursive function that filters or expands does to one element more     *)
(* (OnlyAppend, SerialAppend), which DataInduction turns into what it does *)
(* to a concatenation (OnlyConcat, SerialSplit).                           *)
(***************************************************************************)
EXTENDS GuestConsole, LevelUart, NetFrames, OverlayDisk, DataInduction, FiniteSetTheorems

-----------------------------------------------------------------------------
(* The console of the guest: what the terminal of a command shows goes out   *)
(* on the serial port byte by byte.  HelperSafe is inductive once the stream  *)
(* is known up to the byte the helper is at (GconInv).                        *)

\* What the terminal and the serial port carry.
Chars == {"cr", "nl"} \cup {Keys[i] : i \in Nat \ {0}}

\* What serial_write sends for the byte b behind the byte before.
Sends(b, before) == IF b = "nl" /\ before # "cr" THEN <<"cr", "nl">> ELSE <<b>>
LastOf(s, last) == IF s = <<>> THEN last ELSE s[Len(s)]

\* The transmission of s, byte by byte.
Sending(s, last) ==
  [k \in 1..Len(s) |-> [v \in Seq(Chars) |-> v \o Sends(s[k], IF k = 1 THEN last ELSE s[k-1])]]

\* Each byte is sent as bytes.
LEMMA SendsChars == ASSUME NEW b \in Chars, NEW before PROVE Sends(b, before) \in Seq(Chars)
<1>1. {"cr", "nl"} \subseteq Chars
  BY DEF Chars
<1> QED BY <1>1 DEF Sends

\* The steps of the transmission map byte sequences to byte sequences.
LEMMA SendingType ==
  ASSUME NEW s \in Seq(Chars), NEW last
  PROVE  Sending(s, last) \in [1..Len(s) -> [Seq(Chars) -> Seq(Chars)]]
<1> SUFFICES ASSUME NEW k \in 1..Len(s), NEW v \in Seq(Chars)
             PROVE  v \o Sends(s[k], IF k = 1 THEN last ELSE s[k-1]) \in Seq(Chars)
  BY DEF Sending
<1>1. Sends(s[k], IF k = 1 THEN last ELSE s[k-1]) \in Seq(Chars)
  BY SendsChars
<1> QED BY <1>1

\* SerialBytes unrolls to these steps.
LEMMA SerialRun ==
  ASSUME NEW s \in Seq(Chars), NEW last
  PROVE  \E at \in Unrolled(Seq(Chars), Len(s), <<>>, Sending(s, last)) : SerialBytes(s, last) = at[Len(s)]
<1> DEFINE Body(at, k) == IF k = 0 THEN <<>>
                          ELSE at[k-1] \o (IF s[k] = "nl" /\ (IF k = 1 THEN last ELSE s[k-1]) # "cr"
                                           THEN <<"cr", "nl">> ELSE <<s[k]>>)
           V == Seq(Chars)
           n == Len(s)
           v0 == <<>>
           D == Sending(s, last)
           f == CHOOSE at : at = [k \in 0..Len(s) |-> Body(at, k)]
<1>0. n \in Nat /\ v0 \in V
  OBVIOUS
<1>1. SerialBytes(s, last) = f[Len(s)]
  BY DEF SerialBytes
<1>2. D \in [1..n -> [V -> V]]
  BY SendingType
<1>3. \A h : \A k \in 1..n : h[k-1] \in V => D[k][h[k-1]] = Body(h, k)
  <2> SUFFICES ASSUME NEW h, NEW k \in 1..n, h[k-1] \in V PROVE D[k][h[k-1]] = Body(h, k)
    OBVIOUS
  <2>1. D[k][h[k-1]] = h[k-1] \o Sends(s[k], IF k = 1 THEN last ELSE s[k-1])
    BY DEF Sending
  <2>2. k # 0
    BY <1>0
  <2> QED BY <2>1, <2>2 DEF Sends
<1>4. \A h : Body(h, 0) = v0
  OBVIOUS
<1>5. PICK h \in Unrolled(V, n, v0, D) : TRUE
  <2> HIDE DEF V, n, v0, D
  <2> QED BY <1>0, <1>2, RunExists
<1> HIDE DEF Body, D
<1>6. h = [k \in 0..n |-> Body(h, k)]
  <2>1. h \in [0..n -> V] /\ h[0] = v0 /\ \A k \in 1..n : h[k] = D[k][h[k-1]]
    BY <1>5 DEF Unrolled
  <2>2. \A k \in 1..n : h[k-1] \in V
    BY <1>0, <2>1
  <2>3. \A k \in 0..n : h[k] = Body(h, k)
    BY <1>0, <1>3, <1>4, <2>1, <2>2
  <2> QED BY <2>1, <2>3
<1>7. f = [k \in 0..n |-> Body(f, k)]
  BY <1>6
<1> HIDE DEF f
<1>8. IsOn(f, 0..n) /\ f[0] = v0 /\ \A k \in 1..n : f[k-1] \in V => f[k] = D[k][f[k-1]]
  <2>1. \A k \in 0..n : f[k] = Body(f, k)
    BY <1>7
  <2>2. IsOn(f, 0..n)
    BY <1>7 DEF IsOn
  <2> QED BY <1>0, <1>3, <1>4, <2>1, <2>2
<1>9. f \in Unrolled(V, n, v0, D)
  <2> HIDE DEF V, n, v0
  <2> QED BY <1>0, <1>2, <1>8, RunStays
<1> QED BY <1>1, <1>9 DEF D

\* Nothing is sent for nothing, and a byte more sends what serial_write makes of it.
LEMMA SerialAppend ==
  ASSUME NEW last
  PROVE  /\ SerialBytes(<<>>, last) = <<>>
         /\ \A s \in Seq(Chars), b \in Chars :
              /\ SerialBytes(s, last) \in Seq(Chars)
              /\ SerialBytes(Append(s, b), last) = SerialBytes(s, last) \o Sends(b, LastOf(s, last))
<1>1. SerialBytes(<<>>, last) = <<>>
  <2> DEFINE e == <<>>
  <2>1. e \in Seq(Chars) /\ Len(e) = 0
    OBVIOUS
  <2>2. PICK f \in Unrolled(Seq(Chars), Len(e), <<>>, Sending(e, last)) : SerialBytes(e, last) = f[Len(e)]
    <3> HIDE DEF e
    <3> QED BY <2>1, SerialRun
  <2> QED BY <2>1, <2>2 DEF Unrolled
<1>2. ASSUME NEW s \in Seq(Chars), NEW b \in Chars
      PROVE  /\ SerialBytes(s, last) \in Seq(Chars)
             /\ SerialBytes(Append(s, b), last) = SerialBytes(s, last) \o Sends(b, LastOf(s, last))
  <2> DEFINE t == Append(s, b)
             n == Len(s)
  <2>1. t \in Seq(Chars) /\ Len(t) = n + 1 /\ n \in Nat /\ t[n + 1] = b /\ \A k \in 1..n : t[k] = s[k]
    BY AppendProperties
  <2>2. PICK f \in Unrolled(Seq(Chars), n + 1, <<>>, Sending(t, last)) : SerialBytes(t, last) = f[n + 1]
    <3> HIDE DEF t
    <3> QED BY <2>1, SerialRun
  <2>3. PICK g \in Unrolled(Seq(Chars), n, <<>>, Sending(s, last)) : SerialBytes(s, last) = g[n]
    BY SerialRun
  <2>4. \A k \in 1..n : Sending(t, last)[k] = Sending(s, last)[k]
    <3> SUFFICES ASSUME NEW k \in 1..n PROVE Sending(t, last)[k] = Sending(s, last)[k]
      OBVIOUS
    <3> HIDE DEF t
    <3>1. k \in 1..(n + 1) /\ t[k] = s[k] /\ (k # 1 => t[k-1] = s[k-1])
      BY <2>1
    <3> QED BY <2>1, <3>1 DEF Sending
  <2>5. f[n] = g[n]
    <3> DEFINE v0 == <<>>
               V == Seq(Chars)
               D == Sending(t, last)
               E == Sending(s, last)
               m == n + 1
    <3>1. \A k \in 0..n : f[k] = g[k]
      <4>1. m \in Nat /\ n <= m /\ f \in Unrolled(V, m, v0, D) /\ g \in Unrolled(V, n, v0, E)
        BY <2>1, <2>2, <2>3
      <4> HIDE DEF t, v0, V, D, E, m, n
      <4> QED BY <4>1, <2>1, <2>4, RunsAgree DEF D, E
    <3> QED BY <2>1, <3>1
  <2>6. g[n] \in Seq(Chars)
    BY <2>1, <2>3 DEF Unrolled
  <2>7. f[n + 1] = Sending(t, last)[n + 1][f[n]]
    <3> HIDE DEF t
    <3>1. n + 1 \in 1..(n + 1) /\ (n + 1) - 1 = n
      BY <2>1
    <3> QED BY <3>1, <2>2 DEF Unrolled
  <2>8. Sending(t, last)[n + 1][g[n]] = g[n] \o Sends(b, LastOf(s, last))
    <3>1. (IF n + 1 = 1 THEN last ELSE t[n]) = LastOf(s, last)
      <4>1. CASE n = 0
        <5>1. s = <<>>
          BY <4>1
        <5> QED BY <4>1, <5>1 DEF LastOf
      <4>2. CASE n # 0
        <5>1. s # <<>> /\ n \in 1..n
          BY <4>2
        <5> QED BY <4>2, <5>1, <2>1 DEF LastOf
      <4> QED BY <4>1, <4>2
    <3> HIDE DEF t
    <3>2. n + 1 \in 1..Len(t) /\ (n + 1) - 1 = n
      BY <2>1
    <3> QED BY <2>1, <2>6, <3>1, <3>2 DEF Sending
  <2> QED BY <2>2, <2>3, <2>5, <2>6, <2>7, <2>8
<1> QED BY <1>1, <1>2

\* What is sent for two stretches is what is sent for the first, then what is
\* sent for the second with the first's last byte before it.
LEMMA SerialSplit ==
  ASSUME NEW a \in Seq(Chars), NEW last
  PROVE  \A b \in Seq(Chars) :
           SerialBytes(a \o b, last) = SerialBytes(a, last) \o SerialBytes(b, LastOf(a, last))
<1> DEFINE S == {b \in Seq(Chars) :
                   SerialBytes(a \o b, last) = SerialBytes(a, last) \o SerialBytes(b, LastOf(a, last))}
<1>0. a \in Seq(Chars) /\ a \o <<>> = a
  BY ConcatEmptySeq
<1>1. <<>> \in S
  <2>1. SerialBytes(<<>>, LastOf(a, last)) = <<>>
    BY SerialAppend
  <2>2. SerialBytes(a, last) \in Seq(Chars)
    <3>1. "cr" \in Chars
      BY DEF Chars
    <3> QED BY <3>1, SerialAppend
  <2> QED BY <1>0, <2>1, <2>2, ConcatEmptySeq
<1>2. ASSUME NEW s \in Seq(Chars), s \in S, NEW e \in Chars PROVE Append(s, e) \in S
  <2>1. a \o Append(s, e) = Append(a \o s, e) /\ a \o s \in Seq(Chars) /\ Append(s, e) \in Seq(Chars)
    OBVIOUS
  <2>2. LastOf(a \o s, last) = LastOf(s, LastOf(a, last))
    <3>1. CASE s = <<>>
      BY <1>0, <3>1 DEF LastOf
    <3>2. CASE s # <<>>
      <4>1. Len(s) \in Nat /\ Len(s) # 0 /\ Len(a) \in Nat /\ Len(a \o s) = Len(a) + Len(s)
        BY <3>2
      <4>2. (a \o s)[Len(a) + Len(s)] = s[Len(s)]
        BY <4>1
      <4>3. a \o s # <<>>
        BY <4>1
      <4> QED BY <3>2, <4>1, <4>2, <4>3 DEF LastOf
    <3> QED BY <3>1, <3>2
  <2>3. SerialBytes(Append(a \o s, e), last) = SerialBytes(a \o s, last) \o Sends(e, LastOf(a \o s, last))
    BY <2>1, SerialAppend
  <2>4. SerialBytes(Append(s, e), LastOf(a, last))
           = SerialBytes(s, LastOf(a, last)) \o Sends(e, LastOf(s, LastOf(a, last)))
    BY SerialAppend
  <2> DEFINE x == SerialBytes(a, last)
             y == SerialBytes(s, LastOf(a, last))
             z == Sends(e, LastOf(s, LastOf(a, last)))
  <2>5. x \in Seq(Chars) /\ y \in Seq(Chars) /\ z \in Seq(Chars)
    BY SerialAppend, SendsChars
  <2>6. (x \o y) \o z = x \o (y \o z)
    <3> HIDE DEF x, y, z
    <3> QED BY <2>5, ConcatAssociative
  <2> HIDE DEF S
  <2>7. SerialBytes(a \o s, last) = x \o y
    BY <1>2 DEF S
  <2> QED BY <2>1, <2>2, <2>3, <2>4, <2>6, <2>7 DEF S
<1>3. \A b \in Seq(Chars) : b \in S
  <2> HIDE DEF S
  <2> QED BY <1>1, <1>2, SeqInduction
<1> QED BY <1>3

\* Where a turn stands, between the read of the terminal and its end.
TurnPcs == {"rx", "put", "wait"}

HelperStates ==
  [pc : {"start", "poll", "read", "done"} \cup TurnPcs, child_done : BOOLEAN, ticks : Nat, did_work : BOOLEAN,
   i : Nat, attempts : Nat, ch : Chars \cup {""}, last : Chars \cup {""}, code : Nat, failed : BOOLEAN]
ChildStates == [st : {"none", "running", "exited"}, status : [signal : BOOLEAN, n : Nat],
                background : BOOLEAN, written : Nat]
PtyStates == [out : Seq(Chars), in : Seq(Chars), raw : BOOLEAN, made : Seq(Chars), atExit : Nat]
Com1States == [rx : Seq(Chars), tx : Seq(Chars), typed : Nat]

GconTypeOK ==
  /\ helper \in HelperStates /\ child \in ChildStates /\ pty \in PtyStates /\ com1 \in Com1States
  /\ helper.pc = "put" => helper.ch \in Chars

\* What waits in the terminal is the end of what it made.
Waits == Len(pty.out) <= Len(pty.made) /\ pty.made = Consumed \o pty.out

\* serial_write knows the last byte it sent for.
LastKnown == helper.last = LastOf(Consumed, "")

\* A turn that found the terminal empty with the command already gone has shown
\* all the command left; only such a turn counts as silent.
Drained ==
  /\ helper.pc = "start" => child.st = "none"
  /\ child.st = "none" => helper.pc \in {"start", "done"}
  /\ helper.child_done => child.st = "exited" /\ helper.code = child_status_code(child.status)
  /\ child.st = "exited" => pty.atExit <= Len(pty.made)
  /\ helper.child_done /\ helper.pc \in TurnPcs => Len(Consumed) >= pty.atExit
  /\ helper.pc = "done" /\ ~helper.failed => helper.child_done /\ Len(Consumed) >= pty.atExit

GconInv == GconTypeOK /\ Waits /\ LastKnown /\ SerialIsTerminal /\ Drained

\* The front of a concatenation, cut by the length of its back.
LEMMA FrontOf ==
  ASSUME NEW A, NEW c \in Seq(A), NEW o \in Seq(A)
  PROVE  SubSeq(c \o o, 1, Len(c \o o) - Len(o)) = c
<1>1. Len(c) \in Nat /\ Len(o) \in Nat /\ Len(c \o o) = Len(c) + Len(o) /\ c \o o \in Seq(A)
  OBVIOUS
<1>2. Len(c \o o) - Len(o) = Len(c)
  BY <1>1
<1>3. SubSeq(c \o o, 1, Len(c)) = c
  <2> DEFINE s == SubSeq(c \o o, 1, Len(c))
  <2>1. s \in Seq(A) /\ Len(s) = Len(c) /\ \A i \in 1..Len(c) : s[i] = c[i]
    BY <1>1
  <2> HIDE DEF s
  <2> QED BY <2>1, SeqEqual
<1> QED BY <1>2, <1>3

\* A sequence is its first n elements and the others.
LEMMA CutAt ==
  ASSUME NEW A, NEW s \in Seq(A), NEW n \in 0..Len(s)
  PROVE  /\ SubSeq(s, 1, n) \in Seq(A) /\ SubSeq(s, n + 1, Len(s)) \in Seq(A)
         /\ Len(SubSeq(s, 1, n)) = n /\ \A i \in 1..n : SubSeq(s, 1, n)[i] = s[i]
         /\ Len(SubSeq(s, n + 1, Len(s))) = Len(s) - n
         /\ SubSeq(s, 1, n) \o SubSeq(s, n + 1, Len(s)) = s
<1> DEFINE x == SubSeq(s, 1, n)
           y == SubSeq(s, n + 1, Len(s))
<1>0. Len(s) \in Nat /\ n \in Nat /\ n <= Len(s)
  OBVIOUS
<1>1. x \in Seq(A) /\ Len(x) = n /\ \A i \in 1..n : x[i] = s[i]
  BY <1>0
<1>2. y \in Seq(A) /\ Len(y) = Len(s) - n /\ \A i \in 1..(Len(s) - n) : y[i] = s[n + i]
  BY <1>0
<1>3. x \o y = s
  <2> HIDE DEF x, y
  <2>1. x \o y \in Seq(A) /\ Len(x \o y) = Len(s)
    BY <1>0, <1>1, <1>2
  <2>2. ASSUME NEW i \in 1..Len(s) PROVE (x \o y)[i] = s[i]
    <3>1. (x \o y)[i] = IF i <= Len(x) THEN x[i] ELSE y[i - Len(x)]
      BY <1>0, <1>1, <1>2, ConcatProperties
    <3>2. CASE i <= n
      <4>1. i \in 1..n
        BY <3>2, <1>0
      <4> QED BY <3>1, <3>2, <4>1, <1>1
    <3>3. CASE i > n
      <4>1. i - n \in 1..(Len(s) - n) /\ ~(i <= n) /\ n + (i - n) = i
        BY <3>3, <1>0
      <4>2. y[i - n] = s[n + (i - n)]
        BY <1>2, <4>1
      <4> QED BY <3>1, <4>1, <4>2, <1>1
    <3>4. i \in Int /\ n \in Int
      BY <1>0
    <3>5. i <= n \/ i > n
      BY <3>4
    <3> QED BY <3>2, <3>3, <3>5
  <2> QED BY <2>1, <2>2, SeqEqual
<1> QED BY <1>1, <1>2, <1>3

\* The terminal keeps its split when it makes more: what was consumed stays.
LEMMA MadeMore ==
  ASSUME GconTypeOK, Waits, NEW x \in Seq(Chars), NEW p,
         p.made = pty.made \o x, p.out = pty.out \o x
  PROVE  /\ Len(p.out) <= Len(p.made) /\ Len(p.made) >= Len(pty.made)
         /\ SubSeq(p.made, 1, Len(p.made) - Len(p.out)) = Consumed
         /\ p.made = Consumed \o p.out
<1> DEFINE c == Consumed
           o == pty.out
<1>1. c \in Seq(Chars) /\ o \in Seq(Chars) /\ pty.made = c \o o /\ pty.made \in Seq(Chars)
  <2>1. pty.made \in Seq(Chars) /\ pty.out \in Seq(Chars)
    BY DEF GconTypeOK, PtyStates
  <2>2. Len(pty.made) - Len(pty.out) \in 0..Len(pty.made)
    BY <2>1 DEF Waits
  <2> QED BY <2>1, <2>2, CutAt DEF Waits, Consumed
<1> HIDE DEF c, o
<1>2. p.made = c \o (o \o x) /\ o \o x \in Seq(Chars)
  <2>1. (c \o o) \o x = c \o (o \o x)
    <3>1. c \in Seq(Chars) /\ o \in Seq(Chars) /\ x \in Seq(Chars)
      BY <1>1
    <3> QED BY <3>1, ConcatAssociative
  <2>2. o \o x \in Seq(Chars)
    BY <1>1
  <2> QED BY <1>1, <2>1, <2>2
<1>3. SubSeq(c \o (o \o x), 1, Len(c \o (o \o x)) - Len(o \o x)) = c
  BY <1>1, <1>2, FrontOf
<1>4. p.out = o \o x
  BY DEF o
<1>5. Len(o \o x) <= Len(c \o (o \o x)) /\ Len(pty.made \o x) >= Len(pty.made)
  BY <1>1, <1>2
<1> QED BY <1>2, <1>3, <1>4, <1>5 DEF c

\* Reading n bytes moves them from what waits to what was consumed.
LEMMA ReadMoves ==
  ASSUME GconTypeOK, Waits, NEW n \in 1..Len(pty.out)
  PROVE  LET x == SubSeq(pty.out, 1, n)
             o == SubSeq(pty.out, n + 1, Len(pty.out))
         IN  /\ x \in Seq(Chars) /\ Len(x) = n /\ x # <<>> /\ o \in Seq(Chars)
             /\ Consumed \in Seq(Chars)
             /\ Len(o) <= Len(pty.made)
             /\ SubSeq(pty.made, 1, Len(pty.made) - Len(o)) = Consumed \o x
             /\ pty.made = (Consumed \o x) \o o
<1> DEFINE c == Consumed
           x == SubSeq(pty.out, 1, n)
           o == SubSeq(pty.out, n + 1, Len(pty.out))
<1>0. pty.made \in Seq(Chars) /\ pty.out \in Seq(Chars) /\ n \in 0..Len(pty.out) /\ n \in Nat \ {0}
  <2>1. pty.made \in Seq(Chars) /\ pty.out \in Seq(Chars)
    BY DEF GconTypeOK, PtyStates
  <2>2. Len(pty.out) \in Nat
    BY <2>1
  <2> QED BY <2>1, <2>2
<1>1. c \in Seq(Chars) /\ pty.made = c \o pty.out
  <2>1. Len(pty.made) - Len(pty.out) \in 0..Len(pty.made)
    BY <1>0 DEF Waits
  <2> QED BY <1>0, <2>1, CutAt DEF Waits, Consumed
<1>2. x \in Seq(Chars) /\ Len(x) = n /\ o \in Seq(Chars) /\ x \o o = pty.out
  BY <1>0, CutAt
<1> HIDE DEF c, x, o
<1>3. pty.made = (c \o x) \o o /\ c \o x \in Seq(Chars)
  <2>0. c \in Seq(Chars) /\ x \in Seq(Chars) /\ o \in Seq(Chars)
    BY <1>1, <1>2
  <2>1. (c \o x) \o o = c \o (x \o o)
    BY <2>0, ConcatAssociative
  <2>2. c \o x \in Seq(Chars)
    BY <1>1, <1>2
  <2> QED BY <1>1, <1>2, <2>1, <2>2
<1>4. SubSeq((c \o x) \o o, 1, Len((c \o x) \o o) - Len(o)) = c \o x
  BY <1>2, <1>3, FrontOf
<1>5. Len(o) <= Len((c \o x) \o o) /\ x # <<>>
  BY <1>0, <1>2, <1>3
<1> QED BY <1>1, <1>2, <1>3, <1>4, <1>5 DEF c, x, o

\* What the helper has consumed are bytes.
LEMMA ConsumedType == GconTypeOK /\ Waits => Consumed \in Seq(Chars)
<1> SUFFICES ASSUME GconTypeOK, Waits PROVE Consumed \in Seq(Chars)
  OBVIOUS
<1>1. pty.made \in Seq(Chars) /\ pty.out \in Seq(Chars)
  BY DEF GconTypeOK, PtyStates
<1>2. Len(pty.made) - Len(pty.out) \in 0..Len(pty.made)
  BY <1>1 DEF Waits
<1> QED BY <1>1, <1>2, CutAt DEF Consumed

-----------------------------------------------------------------------------

\* The invariant holds at the start,
LEMMA GconInitInv == GconInit => GconInv
<1> SUFFICES ASSUME GconInit PROVE GconInv
  OBVIOUS
<1>0. /\ pty.out = <<>> /\ pty.in = <<>> /\ pty.made = <<>> /\ pty.atExit = 0 /\ pty.raw = FALSE
      /\ com1.rx = <<>> /\ com1.tx = <<>> /\ com1.typed = 0
      /\ helper.pc = "start" /\ helper.last = "" /\ helper.child_done = FALSE /\ child.st = "none"
  BY DEF GconInit
<1>1. Consumed = <<>>
  <2>1. Len(<<>>) = 0 /\ 0 - 0 = 0
    OBVIOUS
  <2>2. SubSeq(pty.made, 1, 0) = <<>>
    BY SubSeqEmpty
  <2> QED BY <1>0, <2>1, <2>2 DEF Consumed
<1>2. GconTypeOK
  <2>1. <<>> \in Seq(Chars)
    OBVIOUS
  <2>2. pty \in PtyStates
    BY <2>1 DEF GconInit, PtyStates, Com1States
  <2>3. com1 \in Com1States
    BY <2>1 DEF GconInit, PtyStates, Com1States
  <2>4. /\ helper \in HelperStates
        /\ child \in ChildStates
    BY DEF GconInit, HelperStates, ChildStates
  <2> QED BY <1>0, <2>2, <2>3, <2>4 DEF GconTypeOK
<1>3. Waits
  <2>1. <<>> \o <<>> = <<>> /\ Len(<<>>) <= Len(<<>>)
    OBVIOUS
  <2> QED BY <1>0, <1>1, <2>1 DEF Waits
<1>4. LastKnown
  BY <1>1 DEF GconInit, LastKnown, LastOf
<1>5. SerialIsTerminal
  BY <1>1, SerialAppend DEF GconInit, SerialIsTerminal
<1>6. Drained
  BY DEF GconInit, Drained, TurnPcs
<1> QED BY <1>2, <1>3, <1>4, <1>5, <1>6 DEF GconInv

\* A step that leaves the terminal's output and the serial port's alone keeps
\* the bytes in order.
LEMMA OutputKept ==
  ASSUME GconInv, pty'.out = pty.out, pty'.made = pty.made, com1'.tx = com1.tx, helper'.last = helper.last
  PROVE  Waits' /\ LastKnown' /\ SerialIsTerminal' /\ Consumed' = Consumed
<1>1. Consumed' = Consumed
  BY DEF Consumed
<1> QED BY <1>1 DEF GconInv, Waits, LastKnown, SerialIsTerminal

\* So does a step that makes the terminal write x.
LEMMA OutputMade ==
  ASSUME GconInv, NEW x \in Seq(Chars), pty'.out = pty.out \o x, pty'.made = pty.made \o x,
         com1'.tx = com1.tx, helper'.last = helper.last
  PROVE  /\ Waits' /\ LastKnown' /\ SerialIsTerminal' /\ Consumed' = Consumed
         /\ Len(pty'.made) >= Len(pty.made)
<1>1. /\ Len(pty'.out) <= Len(pty'.made) /\ Len(pty'.made) >= Len(pty.made)
      /\ SubSeq(pty'.made, 1, Len(pty'.made) - Len(pty'.out)) = Consumed
      /\ pty'.made = Consumed \o pty'.out
  BY MadeMore DEF GconInv
<1>2. Consumed' = Consumed
  BY <1>1 DEF Consumed
<1> QED BY <1>1, <1>2 DEF GconInv, Waits, LastKnown, SerialIsTerminal

\* and no step of the helper, the child, the terminal or the host breaks it.
LEMMA GconStep == GconInv /\ [GconNext]_gconVars => GconInv'
<1> SUFFICES ASSUME GconInv, [GconNext]_gconVars PROVE GconInv'
  OBVIOUS
<1> USE DEF TurnPcs
<1>0. GconTypeOK /\ Waits /\ LastKnown /\ SerialIsTerminal /\ Drained
  BY DEF GconInv
<1>a. helper \in HelperStates
  BY <1>0 DEF GconTypeOK
<1>b. child \in ChildStates
  BY <1>0 DEF GconTypeOK
<1>c. pty \in PtyStates
  BY <1>0 DEF GconTypeOK
<1>d. com1 \in Com1States
  BY <1>0 DEF GconTypeOK
<1>e. child_status_code(child.status) \in Nat
  BY <1>b DEF child_status_code, ChildStates
<1>f. {"cr", "nl"} \subseteq Chars
  BY DEF Chars
<1>1. CASE Starts
  <2>0. /\ helper.pc = "start" /\ pty' = pty /\ com1' = com1
        /\ \/ helper' = [helper EXCEPT !.pc = "poll"] /\ child' = [child EXCEPT !.st = "running"]
           \/ helper' = [helper EXCEPT !.pc = "done", !.code = 127, !.failed = TRUE] /\ child' = child
    BY <1>1 DEF Starts
  <2>1. /\ helper'.last = helper.last /\ helper'.child_done = helper.child_done
        /\ \/ helper'.pc = "poll" /\ child'.st = "running"
           \/ helper'.pc = "done" /\ helper'.failed /\ child' = child
    BY <2>0, <1>a, <1>b DEF HelperStates, ChildStates
  <2>2. helper' \in HelperStates /\ child' \in ChildStates
    <3>1. helper' \in HelperStates
      <4>1. /\ [helper EXCEPT !.pc = "poll"] \in HelperStates
            /\ [helper EXCEPT !.pc = "done", !.code = 127, !.failed = TRUE] \in HelperStates
        BY <1>a DEF HelperStates
      <4> QED BY <2>0, <4>1
    <3>2. child' \in ChildStates
      BY <2>0, <1>b DEF ChildStates
    <3> QED BY <3>1, <3>2
  <2>3. Waits' /\ LastKnown' /\ SerialIsTerminal' /\ Consumed' = Consumed
    BY <2>0, <2>1, OutputKept
  <2>4. ~helper.child_done /\ child.st = "none"
    BY <2>0, <1>0 DEF Drained
  <2>5. Drained'
    BY <2>0, <2>1, <2>4 DEF Drained
  <2>6. GconTypeOK'
    BY <2>0, <2>1, <2>2, <1>c, <1>d DEF GconTypeOK
  <2> QED BY <2>3, <2>5, <2>6 DEF GconInv
<1>2. CASE PollMaster
  <2>0. /\ helper.pc = "poll" /\ pty' = pty /\ com1' = com1 /\ child' = child
        /\ \/ helper' = [helper EXCEPT !.pc = "read", !.did_work = FALSE]
           \/ helper' = [helper EXCEPT !.pc = "done", !.failed = TRUE]
    BY <1>2 DEF PollMaster
  <2>1. /\ helper'.last = helper.last /\ helper'.child_done = helper.child_done /\ helper'.code = helper.code
        /\ \/ helper'.pc = "read"
           \/ helper'.pc = "done" /\ helper'.failed
    BY <2>0, <1>a DEF HelperStates
  <2>2. helper' \in HelperStates
    BY <2>0, <1>a DEF HelperStates
  <2>3. Waits' /\ LastKnown' /\ SerialIsTerminal' /\ Consumed' = Consumed
    BY <2>0, <2>1, OutputKept
  <2>4. Drained'
    BY <2>0, <2>1, <2>3, <1>0 DEF Drained
  <2>5. GconTypeOK'
    BY <2>0, <2>1, <2>2, <1>b, <1>c, <1>d DEF GconTypeOK
  <2> QED BY <2>3, <2>4, <2>5 DEF GconInv
<1>3. CASE ReadMaster
  <2>1. CASE pty.out = <<>> /\ helper' = [helper EXCEPT !.pc = "rx", !.i = 0] /\ UNCHANGED <<pty, com1, child>>
    <3>1. GconTypeOK'
      BY <2>1, <1>0, <1>a DEF GconTypeOK, HelperStates
    <3>2. Waits' /\ LastKnown' /\ SerialIsTerminal' /\ Consumed' = Consumed
      BY <2>1, <1>a, OutputKept DEF HelperStates
    <3>3. Len(Consumed) = Len(pty.made)
      <4>1. Consumed \in Seq(Chars)
        BY <1>0, ConsumedType
      <4>2. Consumed \o <<>> = Consumed
        BY <4>1
      <4> QED BY <2>1, <4>2, <1>0 DEF Waits
    <3>4. /\ helper'.child_done = helper.child_done /\ helper'.code = helper.code
          /\ helper'.pc = "rx" /\ child' = child /\ pty' = pty
      BY <2>1, <1>a DEF HelperStates
    <3>5. Drained'
      <4>1. pty.atExit \in Nat /\ Len(pty.made) \in Nat
        <5>1. pty.made \in Seq(Chars)
          BY <1>c DEF PtyStates
        <5> QED BY <5>1, <1>c DEF PtyStates
      <4> QED BY <2>1, <3>2, <3>3, <3>4, <4>1, <1>0, <1>3 DEF Drained, ReadMaster
    <3> QED BY <3>1, <3>2, <3>5 DEF GconInv
  <2>2. ASSUME NEW n \in 1..BufBytes, n <= Len(pty.out), helper.pc = "read",
               serial_write(SubSeq(pty.out, 1, n)),
               pty' = [pty EXCEPT !.out = SubSeq(@, n + 1, Len(@))], UNCHANGED child
        PROVE  GconInv'
    <3> DEFINE x == SubSeq(pty.out, 1, n)
               o == SubSeq(pty.out, n + 1, Len(pty.out))
               c == Consumed
    <3>1. n \in 1..Len(pty.out)
      <4>1. Len(pty.out) \in Nat /\ BufBytes \in Nat
        BY <1>c, GuestConsoleAssumption DEF PtyStates
      <4> QED BY <2>2, <4>1
    <3>2. /\ x \in Seq(Chars) /\ Len(x) = n /\ x # <<>> /\ o \in Seq(Chars) /\ c \in Seq(Chars)
          /\ Len(o) <= Len(pty.made)
          /\ SubSeq(pty.made, 1, Len(pty.made) - Len(o)) = c \o x
          /\ pty.made = (c \o x) \o o
      BY <1>0, <3>1, ReadMoves
    <3>3. pty'.out = o /\ pty'.made = pty.made /\ pty'.atExit = pty.atExit /\ pty'.in = pty.in /\ pty'.raw = pty.raw
      BY <2>2, <1>c DEF PtyStates
    <3>4. com1'.tx = com1.tx \o SerialBytes(x, helper.last) /\ com1'.rx = com1.rx /\ com1'.typed = com1.typed
      BY <2>2, <1>d DEF serial_write, Com1States
    <3>5. /\ helper' = [helper EXCEPT !.last = x[Len(x)], !.ticks = 0, !.did_work = TRUE]
          /\ helper'.last = x[Len(x)] /\ helper'.pc = "read" /\ helper'.child_done = helper.child_done
          /\ helper'.code = helper.code /\ helper'.failed = helper.failed
      BY <2>2, <1>a DEF serial_write, HelperStates
    <3> HIDE DEF x, o, c
    <3>6. Consumed' = c \o x
      BY <3>2, <3>3 DEF Consumed
    <3>7. Waits'
      BY <3>2, <3>3, <3>6 DEF Waits
    <3>8. x[Len(x)] \in Chars
      <4>1. Len(x) \in 1..Len(x)
        BY <3>1, <3>2
      <4> QED BY <3>2, <4>1, ElementOfSeq
    <3>9. LastKnown'
      <4>1. /\ Len(c \o x) = Len(c) + Len(x) /\ Len(c) \in Nat /\ Len(x) \in Nat \ {0}
            /\ (c \o x)[Len(c) + Len(x)] = x[Len(x)]
        <5>1. c \in Seq(Chars) /\ x \in Seq(Chars) /\ Len(x) \in Nat \ {0}
          BY <3>1, <3>2
        <5>2. Len(c) \in Nat /\ Len(c \o x) = Len(c) + Len(x) /\ Len(x) \in Nat \ {0}
          BY <5>1
        <5>3. Len(c) + Len(x) \in 1..(Len(c) + Len(x)) /\ ~(Len(c) + Len(x) <= Len(c)) /\ (Len(c) + Len(x)) - Len(c) = Len(x)
          BY <5>2
        <5>4. (c \o x)[Len(c) + Len(x)] = x[Len(x)]
          BY <5>1, <5>3, ConcatProperties
        <5> QED BY <5>2, <5>4
      <4>2. c \o x # <<>>
        BY <4>1
      <4> QED BY <3>5, <3>6, <4>1, <4>2 DEF LastKnown, LastOf
    <3>10. SerialIsTerminal'
      <4>1. SerialBytes(c \o x, "") = SerialBytes(c, "") \o SerialBytes(x, LastOf(c, ""))
        BY <3>2, SerialSplit
      <4>2. helper.last = LastOf(c, "") /\ com1.tx = SerialBytes(c, "")
        BY <1>0 DEF c, LastKnown, SerialIsTerminal
      <4> QED BY <3>4, <3>6, <4>1, <4>2 DEF SerialIsTerminal
    <3>11. GconTypeOK'
      <4>1. SerialBytes(x, helper.last) \in Seq(Chars)
        BY <3>2, <3>8, SerialAppend
      <4>2. com1.tx \in Seq(Chars)
        BY <1>d DEF Com1States
      <4>3. com1.tx \o SerialBytes(x, helper.last) \in Seq(Chars)
        BY <4>1, <4>2
      <4>4. com1' \in Com1States
        <5>1. com1' = [com1 EXCEPT !.tx = @ \o SerialBytes(x, helper.last)]
          BY <2>2 DEF serial_write, x
        <5> QED BY <5>1, <4>3, <1>d DEF Com1States
      <4>5. pty' \in PtyStates
        <5>1. pty' = [pty EXCEPT !.out = o]
          BY <2>2, <1>c DEF o, PtyStates
        <5> QED BY <5>1, <3>2, <1>c DEF PtyStates
      <4>6. helper' \in HelperStates
        BY <3>5, <3>8, <1>a DEF HelperStates
      <4> QED BY <4>4, <4>5, <4>6, <3>5, <2>2, <1>b DEF GconTypeOK, ChildStates
    <3>12. Drained'
      BY <3>3, <3>5, <2>2, <1>0 DEF Drained
    <3> QED BY <3>7, <3>9, <3>10, <3>11, <3>12 DEF GconInv
  <2> QED BY <1>3, <2>1, <2>2 DEF ReadMaster
<1>4. CASE ReadSerial
  <2>0. /\ helper.pc = "rx" /\ pty' = pty /\ child' = child
        /\ \/ /\ com1.rx # <<>> /\ com1' = [com1 EXCEPT !.rx = Tail(@)]
              /\ helper' = [helper EXCEPT !.pc = "put", !.ch = Head(com1.rx), !.attempts = 0]
           \/ com1' = com1 /\ helper' = [helper EXCEPT !.pc = "wait"]
    BY <1>4 DEF ReadSerial
  <2>1. com1.rx # <<>> => Head(com1.rx) \in Chars /\ Tail(com1.rx) \in Seq(Chars)
    <3>1. com1.rx \in Seq(Chars)
      BY <1>d DEF Com1States
    <3> QED BY <3>1, HeadTailProperties
  <2>2. helper' \in HelperStates /\ (helper'.pc = "put" => helper'.ch \in Chars)
    <3>1. [helper EXCEPT !.pc = "wait"] \in HelperStates
      BY <1>a DEF HelperStates
    <3>2. ASSUME NEW b \in Chars, helper' = [helper EXCEPT !.pc = "put", !.ch = b, !.attempts = 0]
          PROVE  helper' \in HelperStates /\ helper'.ch \in Chars
      BY <3>2, <1>a DEF HelperStates
    <3>3. helper' = [helper EXCEPT !.pc = "wait"] => helper'.pc = "wait"
      BY <1>a DEF HelperStates
    <3> QED BY <2>0, <2>1, <3>1, <3>2, <3>3
  <2>3. com1' \in Com1States
    BY <2>0, <2>1, <1>d DEF Com1States
  <2>4. /\ helper'.last = helper.last /\ helper'.child_done = helper.child_done /\ helper'.code = helper.code
        /\ helper'.pc \in TurnPcs /\ com1'.tx = com1.tx
    BY <2>0, <1>a, <1>d DEF HelperStates, Com1States
  <2>5. Waits' /\ LastKnown' /\ SerialIsTerminal' /\ Consumed' = Consumed
    BY <2>0, <2>4, OutputKept
  <2>6. Drained'
    BY <2>0, <2>4, <2>5, <1>0 DEF Drained
  <2>7. GconTypeOK'
    BY <2>0, <2>2, <2>3, <1>b, <1>c DEF GconTypeOK
  <2> QED BY <2>5, <2>6, <2>7 DEF GconInv
<1>5. CASE write_master_byte
  <2>0. helper.ch \in Chars
    BY <1>5, <1>0 DEF write_master_byte, GconTypeOK
  <2>i. helper.i + 1 \in Nat /\ helper.attempts + 1 \in Nat
    <3>1. helper.i \in Nat /\ helper.attempts \in Nat
      BY <1>a DEF HelperStates
    <3> QED BY <3>1
  <2>p. PutDone => helper' \in HelperStates /\ helper'.pc = "rx"
    BY <1>a, <2>i DEF PutDone, HelperStates
  <2>1. CASE pty' = PtyPut(helper.ch, TRUE) /\ PutDone /\ UNCHANGED <<child, com1>> /\ helper.pc = "put"
    <3> DEFINE b == helper.ch
    <3>0. <<b>> \in Seq(Chars)
      BY <2>0
    <3>1. Append(pty.in, b) \in Seq(Chars) /\ Append(pty.out, b) \in Seq(Chars) /\ Append(pty.made, b) \in Seq(Chars)
      <4>1. pty.in \in Seq(Chars) /\ pty.out \in Seq(Chars) /\ pty.made \in Seq(Chars)
        BY <1>c DEF PtyStates
      <4> QED BY <4>1, <2>0, AppendProperties
    <3>2. pty' = [pty EXCEPT !.in = Append(pty.in, b), !.out = Append(pty.out, b), !.made = Append(pty.made, b)]
      BY <2>1, <1>c DEF PtyPut, PtyStates
    <3>3. GconTypeOK'
      <4>1. pty' \in PtyStates
        BY <3>1, <3>2, <1>c DEF PtyStates
      <4> QED BY <2>1, <2>p, <4>1, <1>b, <1>d DEF GconTypeOK
    <3>4. pty'.out = pty.out \o <<b>> /\ pty'.made = pty.made \o <<b>> /\ pty'.atExit = pty.atExit
      <4>1. pty.out \in Seq(Chars) /\ pty.made \in Seq(Chars)
        BY <1>c DEF PtyStates
      <4>2. pty'.out = Append(pty.out, b) /\ pty'.made = Append(pty.made, b) /\ pty'.atExit = pty.atExit
        BY <3>2, <1>c DEF PtyStates
      <4> QED BY <4>1, <4>2, <2>0, AppendIsConcat
    <3>5. /\ com1'.tx = com1.tx /\ helper'.last = helper.last /\ helper'.pc = "rx" /\ child' = child
          /\ helper'.child_done = helper.child_done /\ helper'.code = helper.code /\ helper'.failed = helper.failed
      BY <2>1, <1>a DEF PutDone, HelperStates
    <3>6. /\ Waits' /\ LastKnown' /\ SerialIsTerminal' /\ Consumed' = Consumed
          /\ Len(pty'.made) >= Len(pty.made)
      BY <3>0, <3>4, <3>5, OutputMade
    <3>7. Drained'
      <4>1. pty.atExit \in Nat /\ Len(pty.made) \in Nat /\ Len(pty'.made) \in Nat
        <5>1. pty.made \in Seq(Chars) /\ pty'.made \in Seq(Chars)
          BY <1>c, <3>3 DEF GconTypeOK, PtyStates
        <5> QED BY <5>1, <1>c DEF PtyStates
      <4> QED BY <3>4, <3>5, <3>6, <4>1, <1>0, <2>1 DEF Drained
    <3> QED BY <3>3, <3>6, <3>7 DEF GconInv
  <2>2. CASE pty' = PtyPut(helper.ch, FALSE) /\ PutDone /\ UNCHANGED <<child, com1>> /\ helper.pc = "put"
    <3>1. Append(pty.in, helper.ch) \in Seq(Chars)
      <4>1. pty.in \in Seq(Chars)
        BY <1>c DEF PtyStates
      <4> QED BY <4>1, <2>0, AppendProperties
    <3>2. pty' = [pty EXCEPT !.in = Append(pty.in, helper.ch)]
      BY <2>2, <1>c DEF PtyPut, PtyStates
    <3>3. GconTypeOK'
      <4>1. pty' \in PtyStates
        BY <3>1, <3>2, <1>c DEF PtyStates
      <4> QED BY <2>2, <2>p, <4>1, <1>b, <1>d DEF GconTypeOK
    <3>4. /\ pty'.out = pty.out /\ pty'.made = pty.made /\ pty'.atExit = pty.atExit
          /\ com1'.tx = com1.tx /\ helper'.last = helper.last /\ helper'.pc = "rx" /\ child' = child
          /\ helper'.child_done = helper.child_done /\ helper'.code = helper.code /\ helper'.failed = helper.failed
      BY <2>2, <3>2, <1>a, <1>c DEF PutDone, HelperStates, PtyStates
    <3>5. Waits' /\ LastKnown' /\ SerialIsTerminal' /\ Consumed' = Consumed
      BY <3>4, OutputKept
    <3>6. Drained'
      BY <3>4, <3>5, <1>0, <2>2 DEF Drained
    <3> QED BY <3>3, <3>5, <3>6 DEF GconInv
  <2>3. CASE /\ helper' = [helper EXCEPT !.attempts = @ + 1] \/ PutDone
             /\ UNCHANGED <<pty, child, com1>> /\ helper.pc = "put"
    <3>1. GconTypeOK'
      <4>1. helper' = [helper EXCEPT !.attempts = @ + 1] => helper' \in HelperStates /\ helper'.ch = helper.ch
        BY <1>a, <2>i DEF HelperStates
      <4> QED BY <2>0, <2>3, <2>p, <4>1, <1>b, <1>c, <1>d DEF GconTypeOK
    <3>2. Waits' /\ LastKnown' /\ SerialIsTerminal' /\ Consumed' = Consumed
      BY <2>3, <1>a, OutputKept DEF PutDone, HelperStates
    <3>3. Drained'
      BY <2>3, <3>2, <1>0, <1>a DEF Drained, PutDone, HelperStates
    <3> QED BY <3>1, <3>2, <3>3 DEF GconInv
  <2>4. PtyPut(helper.ch, TRUE) = PtyPut(helper.ch, ~pty.raw /\ Len(pty.out) < PtyLimit)
        \/ PtyPut(helper.ch, FALSE) = PtyPut(helper.ch, ~pty.raw /\ Len(pty.out) < PtyLimit)
    BY DEF PtyPut
  <2> QED BY <1>5, <2>1, <2>2, <2>3, <2>4 DEF write_master_byte
<1>6. CASE TurnEnds
  <2>0. helper.pc = "wait" /\ UNCHANGED <<child, pty, com1>>
    BY <1>6 DEF TurnEnds
  <2>1. Reaped \/ DrainTick \/ helper' = [helper EXCEPT !.pc = "poll"]
    BY <1>6 DEF TurnEnds
  <2>2. GconTypeOK'
    <3>1. Reaped => helper' \in HelperStates /\ helper'.pc = "poll"
      BY <1>a, <1>e DEF Reaped, HelperStates
    <3>2. DrainTick => helper' \in HelperStates /\ helper'.pc # "put"
      <4> SUFFICES ASSUME DrainTick PROVE helper' \in HelperStates /\ helper'.pc # "put"
        OBVIOUS
      <4> DEFINE p == IF helper.ticks + 1 >= kExitDrainPolls THEN "done" ELSE "poll"
      <4>1. /\ [helper EXCEPT !.pc = "poll"] \in HelperStates /\ [helper EXCEPT !.pc = "poll"].pc = "poll"
        BY <1>a DEF HelperStates
      <4>2. p \in {"done", "poll"}
        OBVIOUS
      <4>3. helper' = [helper EXCEPT !.pc = "poll"] \/ helper' = [helper EXCEPT !.ticks = @ + 1, !.pc = p]
        BY DEF DrainTick
      <4> HIDE DEF p
      <4>t. helper.ticks + 1 \in Nat
        <5>1. helper.ticks \in Nat
          BY <1>a DEF HelperStates
        <5> QED BY <5>1
      <4>4. [helper EXCEPT !.ticks = @ + 1, !.pc = p] \in HelperStates /\ [helper EXCEPT !.ticks = @ + 1, !.pc = p].pc = p
        BY <4>2, <4>t, <1>a DEF HelperStates
      <4> QED BY <4>1, <4>2, <4>3, <4>4
    <3>3. helper' = [helper EXCEPT !.pc = "poll"] => helper' \in HelperStates /\ helper'.pc = "poll"
      BY <1>a DEF HelperStates
    <3> QED BY <2>0, <2>1, <3>1, <3>2, <3>3, <1>b, <1>c, <1>d DEF GconTypeOK
  <2>3. Waits' /\ LastKnown' /\ SerialIsTerminal' /\ Consumed' = Consumed
    BY <2>0, <2>1, <1>a, OutputKept DEF Reaped, DrainTick, HelperStates
  <2>4. Drained'
    <3>0. Consumed' = Consumed /\ child' = child /\ pty' = pty /\ Drained
      BY <2>0, <2>3, <1>0
    <3>1. CASE Reaped
      <4>1. child.st = "exited"
        <5>1. child.st # "none"
          BY <2>0, <1>0 DEF Drained
        <5> QED BY <3>1, <5>1, <1>b DEF Reaped, ChildStates
      <4> QED BY <3>0, <3>1, <4>1, <1>a DEF Reaped, Drained, HelperStates
    <3>2. CASE DrainTick
      BY <3>0, <3>2, <2>0, <1>a DEF DrainTick, Drained, HelperStates
    <3>3. CASE helper' = [helper EXCEPT !.pc = "poll"]
      BY <3>0, <3>3, <2>0, <1>a DEF Drained, HelperStates
    <3> QED BY <2>1, <3>1, <3>2, <3>3
  <2> QED BY <2>2, <2>3, <2>4 DEF GconInv
<1>7. ASSUME NEW b \in {"cr", "nl"}, CommandWrites(b) PROVE GconInv'
  <2> DEFINE x == Output(b)
  <2>0. x \in Seq(Chars)
    BY <1>7, <1>f DEF Output
  <2>1. /\ pty' = [pty EXCEPT !.out = @ \o x, !.made = @ \o x] /\ UNCHANGED <<helper, com1>>
        /\ child' = [child EXCEPT !.written = @ + 1]
    BY <1>7 DEF CommandWrites
  <2> HIDE DEF x
  <2>2. pty'.out = pty.out \o x /\ pty'.made = pty.made \o x /\ pty'.atExit = pty.atExit
    BY <2>1, <1>c DEF PtyStates
  <2>3. Waits' /\ LastKnown' /\ SerialIsTerminal' /\ Consumed' = Consumed /\ Len(pty'.made) >= Len(pty.made)
    BY <2>0, <2>1, <2>2, OutputMade
  <2>4. GconTypeOK'
    <3>1. pty.out \o x \in Seq(Chars) /\ pty.made \o x \in Seq(Chars)
      <4>1. pty.out \in Seq(Chars) /\ pty.made \in Seq(Chars)
        BY <1>c DEF PtyStates
      <4> QED BY <4>1, <2>0
    <3>2. pty' \in PtyStates
      BY <2>1, <3>1, <1>c DEF PtyStates
    <3>3. child' \in ChildStates
      BY <2>1, <1>b DEF ChildStates
    <3> QED BY <2>1, <3>2, <3>3, <1>0 DEF GconTypeOK
  <2>5. Drained'
    <3>1. pty.atExit \in Nat /\ Len(pty.made) \in Nat /\ Len(pty'.made) \in Nat
      <4>1. pty.made \in Seq(Chars) /\ pty'.made \in Seq(Chars)
        BY <1>c, <2>4 DEF GconTypeOK, PtyStates
      <4> QED BY <4>1, <1>c DEF PtyStates
    <3>2. child'.st = child.st /\ child'.status = child.status
      BY <2>1, <1>b DEF ChildStates
    <3> QED BY <2>1, <2>2, <2>3, <3>1, <3>2, <1>0 DEF Drained
  <2> QED BY <2>3, <2>4, <2>5 DEF GconInv
<1>8. CASE CommandReads
  <2>1. Tail(pty.in) \in Seq(Chars)
    <3>1. pty.in \in Seq(Chars) /\ pty.in # <<>>
      BY <1>8, <1>c DEF CommandReads, PtyStates
    <3> QED BY <3>1, HeadTailProperties
  <2>2. GconTypeOK'
    BY <1>8, <2>1, <1>0, <1>c DEF GconTypeOK, CommandReads, PtyStates
  <2>3. Waits' /\ LastKnown' /\ SerialIsTerminal' /\ Consumed' = Consumed
    BY <1>8, <1>c, OutputKept DEF CommandReads, PtyStates
  <2>4. Drained'
    BY <1>8, <2>3, <1>0, <1>c DEF Drained, CommandReads, PtyStates
  <2> QED BY <2>2, <2>3, <2>4 DEF GconInv
<1>9. CASE CommandSetsRaw
  <2>2. GconTypeOK'
    BY <1>9, <1>0, <1>c DEF GconTypeOK, CommandSetsRaw, PtyStates
  <2>3. Waits' /\ LastKnown' /\ SerialIsTerminal' /\ Consumed' = Consumed
    BY <1>9, <1>c, OutputKept DEF CommandSetsRaw, PtyStates
  <2>4. Drained'
    BY <1>9, <2>3, <1>0, <1>c DEF Drained, CommandSetsRaw, PtyStates
  <2> QED BY <2>2, <2>3, <2>4 DEF GconInv
<1>10. CASE CommandExits
  <2>1. PICK s \in Statuses, b \in BOOLEAN :
           child' = [child EXCEPT !.st = "exited", !.status = s, !.background = b]
    BY <1>10 DEF CommandExits
  <2>2. s \in [signal : BOOLEAN, n : Nat]
    <3>1. s = [signal |-> FALSE, n |-> 3] \/ s = [signal |-> TRUE, n |-> 2]
      <4>1. s \in Statuses
        BY <2>1
      <4> QED BY <4>1, Zenon DEF Statuses
    <3>2. /\ [signal |-> FALSE, n |-> 3] \in [signal : BOOLEAN, n : Nat]
          /\ [signal |-> TRUE, n |-> 2] \in [signal : BOOLEAN, n : Nat]
      OBVIOUS
    <3> QED BY <3>1, <3>2, Zenon
  <2>3. pty' = [pty EXCEPT !.atExit = Len(pty.made)] /\ UNCHANGED <<helper, com1>> /\ child.st = "running"
    BY <1>10 DEF CommandExits
  <2>4. Len(pty.made) \in Nat
    <3>1. pty.made \in Seq(Chars)
      BY <1>c DEF PtyStates
    <3> QED BY <3>1
  <2>5. GconTypeOK'
    BY <2>1, <2>2, <2>3, <2>4, <1>0, <1>b, <1>c DEF GconTypeOK, ChildStates, PtyStates
  <2>6. pty'.out = pty.out /\ pty'.made = pty.made /\ pty'.atExit = Len(pty.made)
    BY <2>3, <1>c DEF PtyStates
  <2>7. Waits' /\ LastKnown' /\ SerialIsTerminal' /\ Consumed' = Consumed
    BY <2>3, <2>6, OutputKept
  <2>8. ~helper.child_done
    BY <2>3, <1>0 DEF Drained
  <2>9. Drained'
    <3>1. child'.st = "exited"
      BY <2>1, <1>b DEF ChildStates
    <3>2. pty.made \in Seq(Chars) /\ helper' = helper
      BY <2>3, <1>c DEF PtyStates
    <3> QED BY <2>3, <2>4, <2>6, <2>8, <3>1, <3>2, <1>0 DEF Drained
  <2> QED BY <2>5, <2>7, <2>9 DEF GconInv
<1>11. CASE Types
  <2>1. Keys[com1.typed + 1] \in Chars
    BY <1>d DEF Chars, Com1States
  <2>2. Append(com1.rx, Keys[com1.typed + 1]) \in Seq(Chars)
    <3>1. com1.rx \in Seq(Chars)
      BY <1>d DEF Com1States
    <3> QED BY <2>1, <3>1, AppendProperties
  <2>3. GconTypeOK'
    <3>1. com1' \in Com1States
      <4>1. com1.typed + 1 \in Nat
        BY <1>d DEF Com1States
      <4>2. com1' = [com1 EXCEPT !.typed = com1.typed + 1, !.rx = Append(com1.rx, Keys[com1.typed + 1])]
        BY <1>11, <1>d DEF Types, Com1States
      <4> DEFINE r == Append(com1.rx, Keys[com1.typed + 1])
                 t == com1.typed + 1
      <4>3. r \in Seq(Chars) /\ t \in Nat
        BY <2>2, <4>1
      <4> HIDE DEF r, t
      <4>4. [com1 EXCEPT !.typed = t, !.rx = r] \in Com1States
        BY <4>3, <1>d DEF Com1States
      <4> QED BY <4>2, <4>4 DEF r, t
    <3> QED BY <1>11, <3>1, <1>0 DEF GconTypeOK, Types
  <2>4. Waits' /\ LastKnown' /\ SerialIsTerminal' /\ Consumed' = Consumed
    BY <1>11, <1>d, OutputKept DEF Types, Com1States
  <2>5. Drained'
    BY <1>11, <2>4, <1>0 DEF Drained, Types
  <2> QED BY <2>3, <2>4, <2>5 DEF GconInv
<1>12. CASE UNCHANGED gconVars
  <2>1. Consumed' = Consumed
    BY <1>12 DEF gconVars, Consumed
  <2> QED BY <1>12, <1>0, <2>1 DEF gconVars, GconInv, GconTypeOK, Waits, LastKnown, SerialIsTerminal, Drained
<1> QED BY <1>1, <1>2, <1>3, <1>4, <1>5, <1>6, <1>7, <1>8, <1>9, <1>10, <1>11, <1>12 DEF GconNext, HelperRuns

\* The serial line shows what the terminal shows, whatever the reads cut, and all
\* of the command's output before its status.
THEOREM HelperSafeHolds == GconSpec => []HelperSafe
<1>1. GconInit => GconInv
  BY GconInitInv
<1>2. GconInv /\ [GconNext]_gconVars => GconInv'
  BY GconStep
<1>3. GconInv => HelperSafe
  BY DEF GconInv, HelperSafe, CommandShown, Drained
<1> QED BY <1>1, <1>2, <1>3, PTL DEF GconSpec

-----------------------------------------------------------------------------
(* The serial ports of KVM and HVF.  SerialExact is not inductive: that the   *)
(* driver is signalled needs the line to follow its causes (LineFollows) and  *)
(* a high COM1 line to have been latched (EdgeHeld).                          *)

\* The selection, element by element.
Selecting(s, A, B) ==
  [k \in 1..Len(s) |-> [v \in Seq(B) |-> IF s[k] \in A THEN Append(v, s[k]) ELSE v]]

\* Only unrolls to the steps of Selecting.
LEMMA OnlyRun ==
  ASSUME NEW B, NEW s \in Seq(B), NEW A
  PROVE  /\ Selecting(s, A, B) \in [1..Len(s) -> [Seq(B) -> Seq(B)]]
         /\ \E at \in Unrolled(Seq(B), Len(s), <<>>, Selecting(s, A, B)) : Only(s, A) = at[Len(s)]
<1> DEFINE Body(at, k) == IF k = 0 THEN <<>>
                          ELSE IF s[k] \in A THEN Append(at[k-1], s[k]) ELSE at[k-1]
           V == Seq(B)
           n == Len(s)
           v0 == <<>>
           D == Selecting(s, A, B)
           f == CHOOSE at : at = [k \in 0..Len(s) |-> Body(at, k)]
<1>0. n \in Nat /\ v0 \in V
  OBVIOUS
<1>1. Only(s, A) = f[Len(s)]
  BY DEF Only
<1>2. D \in [1..n -> [V -> V]]
  <2> SUFFICES ASSUME NEW k \in 1..Len(s), NEW v \in Seq(B) PROVE Append(v, s[k]) \in Seq(B)
    BY DEF Selecting
  <2>1. s[k] \in B
    BY ElementOfSeq
  <2> QED BY <2>1, AppendProperties
<1>3. \A h : \A k \in 1..n : h[k-1] \in V => D[k][h[k-1]] = Body(h, k)
  <2> SUFFICES ASSUME NEW h, NEW k \in 1..n, h[k-1] \in V PROVE D[k][h[k-1]] = Body(h, k)
    OBVIOUS
  <2>1. D[k][h[k-1]] = IF s[k] \in A THEN Append(h[k-1], s[k]) ELSE h[k-1]
    BY DEF Selecting
  <2>2. k # 0
    BY <1>0
  <2> QED BY <2>1, <2>2
<1>4. \A h : Body(h, 0) = v0
  OBVIOUS
<1>5. PICK h \in Unrolled(V, n, v0, D) : TRUE
  <2> HIDE DEF V, n, v0, D
  <2> QED BY <1>0, <1>2, RunExists
<1> HIDE DEF Body, D
<1>6. h = [k \in 0..n |-> Body(h, k)]
  <2>1. h \in [0..n -> V] /\ h[0] = v0 /\ \A k \in 1..n : h[k] = D[k][h[k-1]]
    BY <1>5 DEF Unrolled
  <2>2. \A k \in 1..n : h[k-1] \in V
    BY <1>0, <2>1
  <2>3. \A k \in 0..n : h[k] = Body(h, k)
    BY <1>0, <1>3, <1>4, <2>1, <2>2
  <2> QED BY <2>1, <2>3
<1>7. f = [k \in 0..n |-> Body(f, k)]
  BY <1>6
<1> HIDE DEF f
<1>8. IsOn(f, 0..n) /\ f[0] = v0 /\ \A k \in 1..n : f[k-1] \in V => f[k] = D[k][f[k-1]]
  <2>1. \A k \in 0..n : f[k] = Body(f, k)
    BY <1>7
  <2>2. IsOn(f, 0..n)
    BY <1>7 DEF IsOn
  <2> QED BY <1>0, <1>3, <1>4, <2>1, <2>2
<1>9. f \in Unrolled(V, n, v0, D)
  <2> HIDE DEF V, n, v0
  <2> QED BY <1>0, <1>2, <1>8, RunStays
<1> QED BY <1>1, <1>2, <1>9 DEF D

\* Nothing is selected from nothing.
LEMMA OnlyEmpty == \A A : Only(<<>>, A) = <<>>
<1> SUFFICES ASSUME NEW A PROVE Only(<<>>, A) = <<>>
  OBVIOUS
<1> DEFINE B == {}
<1> DEFINE e == <<>>
<1>1. e \in Seq(B) /\ Len(e) = 0
  OBVIOUS
<1>2. PICK f \in Unrolled(Seq(B), Len(e), <<>>, Selecting(e, A, B)) : Only(e, A) = f[Len(e)]
  <2> HIDE DEF e
  <2> QED BY <1>1, OnlyRun
<1> QED BY <1>1, <1>2 DEF Unrolled

\* An element more is selected if it is in A.
LEMMA OnlyAppend ==
  ASSUME NEW B, NEW A, NEW s \in Seq(B), NEW b \in B
  PROVE  /\ Only(s, A) \in Seq(B)
         /\ Only(Append(s, b), A) = IF b \in A THEN Append(Only(s, A), b) ELSE Only(s, A)
<1> DEFINE t == Append(s, b)
           n == Len(s)
<1>1. t \in Seq(B) /\ Len(t) = n + 1 /\ n \in Nat /\ t[n + 1] = b /\ \A k \in 1..n : t[k] = s[k]
  BY AppendProperties
<1>2. PICK f \in Unrolled(Seq(B), n + 1, <<>>, Selecting(t, A, B)) : Only(t, A) = f[n + 1]
  <2> HIDE DEF t
  <2> QED BY <1>1, OnlyRun
<1>3. PICK g \in Unrolled(Seq(B), n, <<>>, Selecting(s, A, B)) : Only(s, A) = g[n]
  BY OnlyRun
<1>4. \A k \in 1..n : Selecting(t, A, B)[k] = Selecting(s, A, B)[k]
  <2> SUFFICES ASSUME NEW k \in 1..n PROVE Selecting(t, A, B)[k] = Selecting(s, A, B)[k]
    OBVIOUS
  <2> HIDE DEF t
  <2>1. k \in 1..(n + 1) /\ t[k] = s[k]
    BY <1>1
  <2> QED BY <1>1, <2>1 DEF Selecting
<1>5. f[n] = g[n]
  <2> DEFINE v0 == <<>>
             V == Seq(B)
             D == Selecting(t, A, B)
             E == Selecting(s, A, B)
             m == n + 1
  <2>1. \A k \in 0..n : f[k] = g[k]
    <3>1. m \in Nat /\ n <= m /\ f \in Unrolled(V, m, v0, D) /\ g \in Unrolled(V, n, v0, E)
      BY <1>1, <1>2, <1>3
    <3> HIDE DEF t, v0, V, D, E, m, n
    <3> QED BY <3>1, <1>1, <1>4, RunsAgree DEF D, E
  <2> QED BY <1>1, <2>1
<1>6. g[n] \in Seq(B)
  BY <1>1, <1>3 DEF Unrolled
<1>7. f[n + 1] = Selecting(t, A, B)[n + 1][f[n]]
  <2> HIDE DEF t
  <2>1. n + 1 \in 1..(n + 1) /\ (n + 1) - 1 = n
    BY <1>1
  <2> QED BY <2>1, <1>2 DEF Unrolled
<1>8. Selecting(t, A, B)[n + 1][g[n]] = IF b \in A THEN Append(g[n], b) ELSE g[n]
  <2> HIDE DEF t
  <2>1. n + 1 \in 1..Len(t)
    BY <1>1
  <2> QED BY <1>1, <1>6, <2>1 DEF Selecting
<1> QED BY <1>2, <1>3, <1>5, <1>6, <1>7, <1>8

\* The selection is a sequence over the same set.
LEMMA OnlyType == ASSUME NEW B, NEW A, NEW s \in Seq(B) PROVE Only(s, A) \in Seq(B)
<1>1. CASE B = {}
  <2>1. s = <<>>
    <3>1. Len(s) \in Nat
      OBVIOUS
    <3>2. Len(s) # 0 => s[1] \in B
      BY <3>1, ElementOfSeq
    <3> QED BY <1>1, <3>1, <3>2
  <2> QED BY <2>1, OnlyEmpty
<1>2. CASE B # {}
  <2>1. PICK e \in B : TRUE
    BY <1>2
  <2> QED BY OnlyAppend
<1> QED BY <1>1, <1>2

\* The selection from two stretches is that from the first, then that from the
\* second.
LEMMA OnlyConcat ==
  ASSUME NEW B, NEW A, NEW a \in Seq(B)
  PROVE  \A b \in Seq(B) : Only(a \o b, A) = Only(a, A) \o Only(b, A)
<1> DEFINE S == {b \in Seq(B) : Only(a \o b, A) = Only(a, A) \o Only(b, A)}
<1>0. a \in Seq(B) /\ a \o <<>> = a /\ \A b : Only(<<>>, A) = <<>>
  BY ConcatEmptySeq, OnlyEmpty
<1>t. \A b \in Seq(B) : Only(b, A) \in Seq(B)
  BY OnlyType
<1>1. <<>> \in S
  BY <1>0, <1>t, ConcatEmptySeq
<1>2. ASSUME NEW s \in Seq(B), s \in S, NEW e \in B PROVE Append(s, e) \in S
  <2>1. a \o Append(s, e) = Append(a \o s, e) /\ a \o s \in Seq(B) /\ Append(s, e) \in Seq(B)
    OBVIOUS
  <2>2. /\ Only(Append(a \o s, e), A) = IF e \in A THEN Append(Only(a \o s, A), e) ELSE Only(a \o s, A)
        /\ Only(Append(s, e), A) = IF e \in A THEN Append(Only(s, A), e) ELSE Only(s, A)
    <3> DEFINE z == a \o s
    <3>1. z \in Seq(B)
      BY <2>1
    <3>2. Only(Append(z, e), A) = IF e \in A THEN Append(Only(z, A), e) ELSE Only(z, A)
      <4> HIDE DEF z
      <4> QED BY <3>1, OnlyAppend
    <3>3. Only(Append(s, e), A) = IF e \in A THEN Append(Only(s, A), e) ELSE Only(s, A)
      BY OnlyAppend
    <3> QED BY <3>2, <3>3
  <2> DEFINE x == Only(a, A)
             y == Only(s, A)
  <2>3. x \in Seq(B) /\ y \in Seq(B)
    BY <1>t
  <2>4. x \o Append(y, e) = Append(x \o y, e)
    <3> HIDE DEF x, y
    <3> QED BY <2>3
  <2>5. Only(a \o s, A) = x \o y
    BY <1>2
  <2> HIDE DEF x, y
  <2>6. Only(a \o Append(s, e), A) = x \o Only(Append(s, e), A)
    BY <2>1, <2>2, <2>4, <2>5 DEF y
  <2> QED BY <2>1, <2>6 DEF x
<1>3. \A b \in Seq(B) : b \in S
  <2> HIDE DEF S
  <2> QED BY <1>1, <1>2, SeqInduction
<1> QED BY <1>3

\* The selection from one element.
LEMMA OnlyOne ==
  ASSUME NEW B, NEW A, NEW b \in B
  PROVE  Only(<<b>>, A) = IF b \in A THEN <<b>> ELSE <<>>
<1> DEFINE e == <<>>
<1>1. e \in Seq(B)
  OBVIOUS
<1>2. Only(Append(e, b), A) = IF b \in A THEN Append(Only(e, A), b) ELSE Only(e, A)
  <2> HIDE DEF e
  <2> QED BY <1>1, OnlyAppend
<1>3. Append(e, b) = <<b>> /\ Only(e, A) = e
  BY OnlyEmpty
<1> QED BY <1>2, <1>3

\* Everything is selected from a sequence over A, and nothing from one that
\* avoids A.
LEMMA OnlyAll == ASSUME NEW A PROVE \A s \in Seq(A) : Only(s, A) = s
<1> DEFINE S == {s \in Seq(A) : Only(s, A) = s}
<1>1. <<>> \in S
  BY OnlyEmpty
<1>2. ASSUME NEW s \in Seq(A), s \in S, NEW e \in A PROVE Append(s, e) \in S
  <2>1. Only(Append(s, e), A) = Append(Only(s, A), e)
    BY OnlyAppend
  <2>2. Append(s, e) \in Seq(A)
    OBVIOUS
  <2> QED BY <1>2, <2>1, <2>2
<1>3. \A s \in Seq(A) : s \in S
  <2> HIDE DEF S
  <2> QED BY <1>1, <1>2, SeqInduction
<1> QED BY <1>3

\* Of others, nothing is kept.
LEMMA OnlyNone == ASSUME NEW A, NEW B, A \cap B = {} PROVE \A s \in Seq(B) : Only(s, A) = <<>>
<1> DEFINE S == {s \in Seq(B) : Only(s, A) = <<>>}
<1>1. <<>> \in S
  BY OnlyEmpty
<1>2. ASSUME NEW s \in Seq(B), s \in S, NEW e \in B PROVE Append(s, e) \in S
  <2>1. Only(Append(s, e), A) = Only(s, A)
    BY OnlyAppend
  <2>2. Append(s, e) \in Seq(B)
    OBVIOUS
  <2> QED BY <1>2, <2>1, <2>2
<1>3. \A s \in Seq(B) : s \in S
  <2> HIDE DEF S
  <2> QED BY <1>1, <1>2, SeqInduction
<1> QED BY <1>3

-----------------------------------------------------------------------------
\* How often b stands among the first n elements of s.
Places(s, n, b) == {i \in 1..n : s[i] = b}
Count(s, n, b) == Cardinality(Places(s, n, b))

\* One element more counts if it is b.
LEMMA CountStep ==
  ASSUME NEW s, NEW n \in Nat, NEW b
  PROVE  /\ Count(s, n, b) \in Nat /\ Count(s, 0, b) = 0
         /\ Count(s, n + 1, b) = Count(s, n, b) + (IF s[n + 1] = b THEN 1 ELSE 0)
<1>1. IsFiniteSet(Places(s, n, b))
  <2>1. IsFiniteSet(1..n)
    BY FS_Interval
  <2> QED BY <2>1, FS_Subset DEF Places
<1>2. Count(s, n, b) \in Nat
  BY <1>1, FS_CardinalityType DEF Count
<1>3. Count(s, 0, b) = 0
  <2>1. Places(s, 0, b) = {}
    BY DEF Places
  <2> QED BY <2>1, FS_EmptySet DEF Count
<1>4. CASE s[n + 1] = b
  <2>1. Places(s, n + 1, b) = Places(s, n, b) \cup {n + 1} /\ n + 1 \notin Places(s, n, b)
    BY <1>4 DEF Places
  <2>2. Cardinality(Places(s, n, b) \cup {n + 1}) = Cardinality(Places(s, n, b)) + 1
    BY <1>1, <2>1, FS_AddElement
  <2> QED BY <1>2, <1>3, <1>4, <2>1, <2>2 DEF Count
<1>5. CASE s[n + 1] # b
  <2>1. Places(s, n + 1, b) = Places(s, n, b)
    BY <1>5 DEF Places
  <2> QED BY <1>2, <1>3, <1>5, <2>1 DEF Count
<1> QED BY <1>4, <1>5

\* An answer counts each of its two bytes once.
LEMMA CountAnswer ==
  ASSUME NEW t, NEW p \in Nat, NEW b \in {-1, -2}, NEW c \in Nat, Count(t, p, b) = c,
         t[p + 1] = -1, t[p + 2] = -2
  PROVE  Count(t, p + 2, b) = c + 1
<1>1. PICK q \in Nat : q = p + 1 /\ q + 1 = p + 2
  OBVIOUS
<1>2. Count(t, p + 1, b) = Count(t, p, b) + (IF t[p + 1] = b THEN 1 ELSE 0)
  BY CountStep
<1>3. Count(t, q + 1, b) = Count(t, q, b) + (IF t[q + 1] = b THEN 1 ELSE 0)
  BY CountStep
<1>4. t[q + 1] = -2
  BY <1>1
<1>5. Count(t, q, b) = c + (IF t[p + 1] = b THEN 1 ELSE 0)
  BY <1>1, <1>2
<1>6. Count(t, q + 1, b) = c + 1
  <2>1. CASE b = -1
    BY <2>1, <1>3, <1>4, <1>5
  <2>2. CASE b = -2
    BY <2>2, <1>3, <1>4, <1>5
  <2> QED BY <2>1, <2>2
<1> QED BY <1>1, <1>6

\* Sequences that agree so far count the same.
LEMMA CountSame ==
  ASSUME NEW s, NEW t, NEW n \in Nat, NEW b, \A i \in 1..n : s[i] = t[i]
  PROVE  Count(s, n, b) = Count(t, n, b)
<1>1. Places(s, n, b) = Places(t, n, b)
  BY DEF Places
<1> QED BY <1>1 DEF Count

\* Behind d elements that t has more in front of position p, the counts differ
\* by what those elements count.
Shifted(s, t, p, q, m, b, c) ==
  /\ p \in Nat /\ q \in Nat /\ m \in Nat /\ c \in Nat
  /\ Count(t, q, b) = Count(s, p, b) + c
  /\ \A i \in 1..m : t[q + i] = s[p + i]

\* Whatever the stretch, the count of either moves alike.
LEMMA CountShift ==
  ASSUME NEW s, NEW t, NEW p, NEW q, NEW m, NEW b, NEW c, Shifted(s, t, p, q, m, b, c)
  PROVE  \A i \in 0..m : Count(t, q + i, b) = Count(s, p + i, b) + c
<1>0. /\ p \in Nat /\ q \in Nat /\ m \in Nat /\ c \in Nat
      /\ Count(t, q, b) = Count(s, p, b) + c
      /\ \A i \in 1..m : t[q + i] = s[p + i]
  BY DEF Shifted
<1> DEFINE S == {i \in 0..m : Count(t, q + i, b) = Count(s, p + i, b) + c}
<1>1. 0 \in S
  BY <1>0
<1>2. ASSUME NEW i \in 1..m, i - 1 \in S PROVE i \in S
  <2> DEFINE x == q + (i - 1)
             y == p + (i - 1)
  <2>1. x \in Nat /\ y \in Nat /\ x + 1 = q + i /\ y + 1 = p + i
    BY <1>0
  <2>2. Count(t, x, b) = Count(s, y, b) + c
    BY <1>2
  <2>3. t[x + 1] = s[y + 1]
    BY <2>1, <1>0
  <2> HIDE DEF x, y
  <2>4. /\ Count(t, x + 1, b) = Count(t, x, b) + (IF t[x + 1] = b THEN 1 ELSE 0) /\ Count(t, x, b) \in Nat
        /\ Count(s, y + 1, b) = Count(s, y, b) + (IF s[y + 1] = b THEN 1 ELSE 0) /\ Count(s, y, b) \in Nat
    BY <2>1, CountStep
  <2>5. Count(t, x + 1, b) = Count(s, y + 1, b) + c
    BY <1>0, <2>2, <2>3, <2>4
  <2> QED BY <2>1, <2>5
<1>3. \A i \in 0..m : i \in S
  <2> HIDE DEF S
  <2> QED BY <1>0, <1>1, <1>2, IntervalInduction
<1> QED BY <1>3

\* Elements that differ from b do not count.
LEMMA CountKeeps ==
  ASSUME NEW t, NEW q \in Nat, NEW m \in Nat, NEW b, \A i \in 1..m : t[q + i] # b
  PROVE  \A i \in 0..m : Count(t, q + i, b) = Count(t, q, b)
<1> DEFINE S == {i \in 0..m : Count(t, q + i, b) = Count(t, q, b)}
<1>1. 0 \in S
  OBVIOUS
<1>2. ASSUME NEW i \in 1..m, i - 1 \in S PROVE i \in S
  <2> DEFINE x == q + (i - 1)
  <2>1. x \in Nat /\ x + 1 = q + i
    OBVIOUS
  <2>2. Count(t, x, b) = Count(t, q, b)
    BY <1>2
  <2>3. t[x + 1] # b
    BY <2>1
  <2> HIDE DEF x
  <2>4. Count(t, x + 1, b) = Count(t, x, b) + (IF t[x + 1] = b THEN 1 ELSE 0) /\ Count(t, x, b) \in Nat
    BY <2>1, CountStep
  <2>5. Count(t, x + 1, b) = Count(t, q, b)
    BY <2>2, <2>3, <2>4
  <2> QED BY <2>1, <2>5
<1>3. \A i \in 0..m : i \in S
  <2> HIDE DEF S
  <2> QED BY <1>1, <1>2, IntervalInduction
<1> QED BY <1>3

\* No end of an answer before its beginning.
Whole(all) == \A n \in 1..Len(all) : Count(all, n, -1) >= Count(all, n, -2)

\* The same at every place, the one before the first element included.
LEMMA WholeAt ==
  ASSUME NEW s, Len(s) \in Nat, Whole(s), NEW n \in 0..Len(s)
  PROVE  /\ Count(s, n, -1) >= Count(s, n, -2)
         /\ Count(s, n, -1) \in Nat /\ Count(s, n, -2) \in Nat
<1>1. n \in Nat
  OBVIOUS
<1>2. Count(s, n, -1) \in Nat
  BY <1>1, CountStep
<1>3. Count(s, n, -2) \in Nat
  BY <1>1, CountStep
<1>4. CASE n = 0
  <2>1. Count(s, n, -1) = 0
    BY <1>1, <1>4, CountStep
  <2>2. Count(s, n, -2) = 0
    BY <1>1, <1>4, CountStep
  <2> QED BY <2>1, <2>2
<1>5. CASE n # 0
  <2>1. n \in 1..Len(s)
    BY <1>5
  <2> QED BY <1>2, <1>3, <2>1 DEF Whole
<1> QED BY <1>4, <1>5

\* How two stretches lie in their concatenation.
LEMMA ConcatAt ==
  ASSUME NEW S, NEW x \in Seq(S), NEW y \in Seq(S)
  PROVE  /\ x \o y \in Seq(S) /\ Len(x) \in Nat /\ Len(y) \in Nat
         /\ Len(x \o y) = Len(x) + Len(y)
         /\ \A i \in 1..Len(x) : (x \o y)[i] = x[i]
         /\ \A i \in 1..Len(y) : (x \o y)[Len(x) + i] = y[i]
OBVIOUS

\* That stays so behind bytes that are no answer,
LEMMA WholeGrows ==
  ASSUME NEW s \in Seq(Int), NEW t \in Seq(Int), Whole(s),
         \A i \in 1..Len(t) : t[i] # -1 /\ t[i] # -2
  PROVE  Whole(s \o t)
<1> DEFINE u == s \o t
           p == Len(s)
           m == Len(t)
<1>1. /\ p \in Nat /\ m \in Nat /\ Len(u) = p + m
      /\ \A i \in 1..p : u[i] = s[i]
      /\ \A i \in 1..m : u[p + i] = t[i]
      /\ \A i \in 1..m : t[i] # -1 /\ t[i] # -2
  BY ConcatAt
<1> HIDE DEF u, m
<1>2. ASSUME NEW n \in 0..p PROVE Count(u, n, -1) >= Count(u, n, -2)
  <2>1. n \in Nat /\ \A i \in 1..n : u[i] = s[i]
    BY <1>1
  <2>2. Count(u, n, -1) = Count(s, n, -1)
    BY <2>1, CountSame
  <2>3. Count(u, n, -2) = Count(s, n, -2)
    BY <2>1, CountSame
  <2>4. Count(s, n, -1) >= Count(s, n, -2)
    BY <1>1, WholeAt
  <2> QED BY <2>2, <2>3, <2>4
<1> HIDE DEF p
<1>3. \A i \in 0..m : Count(u, p + i, -1) = Count(u, p, -1)
  <2>1. \A i \in 1..m : u[p + i] # -1
    BY <1>1
  <2> QED BY <1>1, <2>1, CountKeeps
<1>4. \A i \in 0..m : Count(u, p + i, -2) = Count(u, p, -2)
  <2>1. \A i \in 1..m : u[p + i] # -2
    BY <1>1
  <2> QED BY <1>1, <2>1, CountKeeps
<1>5. ASSUME NEW n \in 1..Len(u) PROVE Count(u, n, -1) >= Count(u, n, -2)
  <2>0. n \in Int /\ p \in Int /\ m \in Int
    BY <1>1
  <2>1. CASE n <= p
    <3>1. n \in 0..p
      BY <2>0, <2>1
    <3> QED BY <3>1, <1>2
  <2>2. CASE n > p
    <3>1. PICK i \in 0..m : n = p + i
      <4>1. n - p \in 0..m /\ n = p + (n - p)
        BY <2>0, <2>2, <1>1
      <4> QED BY <4>1
    <3>2. Count(u, n, -1) = Count(u, p, -1) /\ Count(u, n, -2) = Count(u, p, -2)
      BY <3>1, <1>3, <1>4
    <3>3. p \in 0..p
      BY <1>1
    <3>4. Count(u, p, -1) >= Count(u, p, -2)
      BY <3>3, <1>2
    <3> QED BY <3>2, <3>4
  <2> QED BY <2>0, <2>1, <2>2
<1> QED BY <1>5 DEF Whole, u

\* and with a whole answer put in anywhere.
LEMMA WholeInsert ==
  ASSUME NEW x \in Seq(Int), NEW y \in Seq(Int), Whole(x \o y)
  PROVE  Whole((x \o Response) \o y)
<1> DEFINE s == x \o y
           r == x \o Response
           t == r \o y
           p == Len(x)
           m == Len(y)
<1>1. /\ p \in Nat /\ m \in Nat /\ Len(s) = p + m
      /\ \A i \in 1..p : s[i] = x[i]
      /\ \A i \in 1..m : s[p + i] = y[i]
  BY ConcatAt
<1>0. Response \in Seq(Int) /\ Len(Response) = 2 /\ Response[1] = -1 /\ Response[2] = -2
  BY DEF Response
<1>r. /\ r \in Seq(Int) /\ Len(r) = p + 2
      /\ \A i \in 1..p : r[i] = x[i]
      /\ \A i \in 1..2 : r[p + i] = Response[i]
  <2>1. PICK z \in Seq(Int) : z = Response /\ Len(z) = 2
    BY <1>0
  <2>2. /\ x \o z \in Seq(Int) /\ Len(x \o z) = Len(x) + Len(z)
        /\ \A i \in 1..Len(x) : (x \o z)[i] = x[i]
        /\ \A i \in 1..Len(z) : (x \o z)[Len(x) + i] = z[i]
    <3> HIDE DEF r, s, t, p, m
    <3> QED BY ConcatAt
  <2> QED BY <2>1, <2>2
<1>u. r[p + 1] = -1 /\ r[p + 2] = -2
  <2>1. 1 \in 1..2 /\ 2 \in 1..2
    OBVIOUS
  <2> QED BY <2>1, <1>r, <1>0
<1> HIDE DEF r
<1>v. /\ Len(t) = Len(r) + m
      /\ \A i \in 1..Len(r) : t[i] = r[i]
      /\ \A i \in 1..m : t[Len(r) + i] = y[i]
  <2>1. r \in Seq(Int)
    BY <1>r
  <2> QED BY <2>1, ConcatAt
<1> HIDE DEF p, m
<1>2. /\ Len(t) = p + 2 + m
      /\ \A i \in 1..p : t[i] = x[i]
      /\ t[p + 1] = -1 /\ t[p + 2] = -2
      /\ \A i \in 1..m : t[(p + 2) + i] = y[i]
  <2> HIDE DEF t
  <2>1. Len(r) = p + 2
    BY <1>r
  <2>2. 1..p \subseteq 1..(p + 2) /\ p + 1 \in 1..(p + 2) /\ p + 2 \in 1..(p + 2)
    BY <1>1
  <2> QED BY <2>1, <2>2, <1>1, <1>r, <1>u, <1>v
<1> DEFINE Here(n) == Count(t, n, -1) >= Count(t, n, -2)
<1>w. \A n \in 0..(p + m) : /\ Count(s, n, -1) >= Count(s, n, -2)
                            /\ Count(s, n, -1) \in Nat /\ Count(s, n, -2) \in Nat
  <2> SUFFICES ASSUME NEW n \in 0..(p + m)
               PROVE  /\ Count(s, n, -1) >= Count(s, n, -2)
                      /\ Count(s, n, -1) \in Nat /\ Count(s, n, -2) \in Nat
    OBVIOUS
  <2>1. Whole(s)
    OBVIOUS
  <2> HIDE DEF s
  <2>2. n \in 0..Len(s) /\ Len(s) \in Nat
    BY <1>1
  <2> QED BY <2>1, <2>2, WholeAt
<1> HIDE DEF s, t
<1>4. ASSUME NEW n \in 0..p, NEW b PROVE Count(t, n, b) = Count(s, n, b)
  <2>1. n \in Nat /\ \A i \in 1..n : t[i] = s[i]
    BY <1>1, <1>2
  <2> QED BY <2>1, CountSame
<1>5. \A n \in 0..p : Here(n)
  <2> SUFFICES ASSUME NEW n \in 0..p PROVE Here(n)
    OBVIOUS
  <2>1. n \in 0..(p + m)
    BY <1>1
  <2>2. Count(t, n, -1) = Count(s, n, -1)
    BY <1>4
  <2>3. Count(t, n, -2) = Count(s, n, -2)
    BY <1>4
  <2> QED BY <2>1, <2>2, <2>3, <1>w
<1>6. /\ Count(t, p + 1, -1) = Count(s, p, -1) + 1
      /\ Count(t, p + 1, -2) = Count(s, p, -2)
  <2>0. p \in 0..p /\ p \in Nat /\ p \in 0..(p + m)
    BY <1>1
  <2>1. Count(t, p, -1) = Count(s, p, -1)
    BY <2>0, <1>4
  <2>2. Count(t, p, -2) = Count(s, p, -2)
    BY <2>0, <1>4
  <2>3. Count(t, p + 1, -1) = Count(t, p, -1) + (IF t[p + 1] = -1 THEN 1 ELSE 0)
    BY <2>0, CountStep
  <2>4. Count(t, p + 1, -2) = Count(t, p, -2) + (IF t[p + 1] = -2 THEN 1 ELSE 0)
    BY <2>0, CountStep
  <2>5. Count(s, p, -1) \in Nat /\ Count(s, p, -2) \in Nat
    BY <2>0, <1>w
  <2> QED BY <2>1, <2>2, <2>3, <2>4, <2>5, <1>2
<1>7. ASSUME NEW b \in {-1, -2} PROVE Count(t, p + 2, b) = Count(s, p, b) + 1
  <2>1. p \in Nat /\ p \in 0..p
    BY <1>1
  <2>2. Count(s, p, b) \in Nat
    BY <2>1, CountStep
  <2>3. Count(t, p, b) = Count(s, p, b)
    BY <2>1, <1>4
  <2>4. t[p + 1] = -1 /\ t[p + 2] = -2
    BY <1>2
  <2> QED BY <2>1, <2>2, <2>3, <2>4, CountAnswer
<1>8. ASSUME NEW b \in {-1, -2} PROVE \A i \in 0..m : Count(t, (p + 2) + i, b) = Count(s, p + i, b) + 1
  <2>1. PICK q \in Nat : q = p + 2
    BY <1>1
  <2>c. PICK c \in Nat : c = 1
    OBVIOUS
  <2>2. Count(t, q, b) = Count(s, p, b) + c
    BY <2>1, <2>c, <1>7
  <2>3. \A i \in 1..m : t[q + i] = s[p + i]
    BY <2>1, <1>1, <1>2
  <2>m. m \in Nat /\ p \in Nat
    BY <1>1
  <2>4. \A i \in 0..m : Count(t, q + i, b) = Count(s, p + i, b) + c
    <3>1. Shifted(s, t, p, q, m, b, c)
      BY <2>m, <2>2, <2>3 DEF Shifted
    <3> QED BY <3>1, CountShift
  <2> QED BY <2>1, <2>c, <2>4
<1>9. \A i \in 0..m : Count(t, (p + 2) + i, -1) = Count(s, p + i, -1) + 1
  BY <1>8
<1>10. \A i \in 0..m : Count(t, (p + 2) + i, -2) = Count(s, p + i, -2) + 1
  BY <1>8
<1>11. ASSUME NEW n \in 1..Len(t) PROVE Here(n)
  <2>0. n \in Int /\ p \in Int /\ m \in Int
    BY <1>1
  <2>1. CASE n <= p
    <3>1. n \in 0..p
      BY <2>0, <2>1
    <3> QED BY <3>1, <1>5
  <2>2. CASE n = p + 1
    <3>1. p \in 0..(p + m)
      BY <1>1
    <3> QED BY <2>2, <3>1, <1>6, <1>w
  <2>3. CASE n >= p + 2
    <3>1. PICK i \in 0..m : n = (p + 2) + i /\ p + i \in 0..(p + m)
      <4>1. /\ n - (p + 2) \in 0..m /\ n = (p + 2) + (n - (p + 2))
            /\ p + (n - (p + 2)) \in 0..(p + m)
        BY <2>0, <2>3, <1>1, <1>2
      <4> QED BY <4>1
    <3>2. Count(t, n, -1) = Count(s, p + i, -1) + 1
      BY <3>1, <1>9
    <3>3. Count(t, n, -2) = Count(s, p + i, -2) + 1
      BY <3>1, <1>10
    <3>4. /\ Count(s, p + i, -1) >= Count(s, p + i, -2)
          /\ Count(s, p + i, -1) \in Nat /\ Count(s, p + i, -2) \in Nat
      BY <3>1, <1>w
    <3> QED BY <3>2, <3>3, <3>4
  <2> QED BY <2>0, <2>1, <2>2, <2>3
<1> QED BY <1>11 DEF Whole, t, r

\* The smaller of two numbers.
LEMMA MinOf == ASSUME NEW a \in Int, NEW b \in Int PROVE Min({a, b}) = IF a <= b THEN a ELSE b
<1>1. \E x \in {a, b} : \A y \in {a, b} : x <= y
  OBVIOUS
<1>2. PICK x \in {a, b} : x = Min({a, b}) /\ \A y \in {a, b} : x <= y
  BY <1>1 DEF Min
<1> QED BY <1>2

\* A stretch of a sequence.
LEMMA Stretch ==
  ASSUME NEW S, NEW s \in Seq(S), NEW n \in 0..Len(s)
  PROVE  /\ SubSeq(s, 1, n) \in Seq(S) /\ Len(SubSeq(s, 1, n)) = n
         /\ \A i \in 1..n : SubSeq(s, 1, n)[i] = s[i]
<1>1. SubSeq(s, 1, n) \in Seq(S)
  OBVIOUS
<1>2. Len(SubSeq(s, 1, n)) = n /\ \A i \in 1..n : SubSeq(s, 1, n)[i] = s[i]
  OBVIOUS
<1> QED BY <1>1, <1>2

\* What the console keeps of bytes written behind out.
Kept(con, bytes) == con \o SubSeq(bytes, 1, Min({Len(bytes), ConsoleLimit - Len(con)}))

\* Keeping the first ConsoleLimit bytes of each piece keeps those of the whole.
LEMMA PrefixKept ==
  ASSUME SerialAssumption, NEW out \in Seq(Nat), NEW bytes \in Seq(Nat)
  PROVE  LET con == SubSeq(out, 1, Min({Len(out), ConsoleLimit}))
         IN  Kept(con, bytes) = SubSeq(out \o bytes, 1, Min({Len(out \o bytes), ConsoleLimit}))
<1> DEFINE con == SubSeq(out, 1, Min({Len(out), ConsoleLimit}))
           n == Len(out)
           b == Len(bytes)
           all == out \o bytes
<1>1. ConsoleLimit \in Nat
  BY DEF SerialAssumption
<1>2. n \in Nat /\ b \in Nat /\ all \in Seq(Nat) /\ Len(all) = n + b
  OBVIOUS
<1>3. \A i \in 1..n : all[i] = out[i]
  OBVIOUS
<1>4. \A i \in 1..b : all[n + i] = bytes[i]
  OBVIOUS
<1>o. SubSeq(out, 1, Len(out)) = out
  OBVIOUS
<1> HIDE DEF all, n, b
<1>5. CASE n <= ConsoleLimit
  <2>1. Min({n, ConsoleLimit}) = n
    BY <1>1, <1>2, <1>5, MinOf
  <2>2. con = out
    BY <2>1, <1>o DEF n
  <2> DEFINE k == Min({b, ConsoleLimit - n})
             m == Min({n + b, ConsoleLimit})
  <2>3. k \in 0..b /\ m = n + k
    <3>1. k = IF b <= ConsoleLimit - n THEN b ELSE ConsoleLimit - n
      <4>1. ConsoleLimit - n \in Int /\ b \in Int
        BY <1>1, <1>2
      <4> QED BY <4>1, MinOf
    <3>2. m = IF n + b <= ConsoleLimit THEN n + b ELSE ConsoleLimit
      <4>1. ConsoleLimit \in Int /\ n + b \in Int
        BY <1>1, <1>2
      <4> QED BY <4>1, MinOf
    <3> HIDE DEF k, m
    <3> QED BY <3>1, <3>2, <1>1, <1>2, <1>5
  <2> HIDE DEF k, m
  <2> DEFINE x == SubSeq(bytes, 1, k)
             y == SubSeq(all, 1, m)
  <2>4. x \in Seq(Nat) /\ Len(x) = k /\ \A i \in 1..k : x[i] = bytes[i]
    BY <2>3, Stretch DEF b
  <2>5. y \in Seq(Nat) /\ Len(y) = m /\ \A i \in 1..m : y[i] = all[i]
    <3>1. m \in 0..Len(all)
      BY <2>3, <1>2
    <3> QED BY <1>2, <3>1, Stretch
  <2>6. out \o x = y
    <3> HIDE DEF x, y
    <3>1. Len(out \o x) = m /\ out \o x \in Seq(Nat)
      <4>1. Len(out) = n
        BY DEF n
      <4>2. Len(out \o x) = Len(out) + Len(x) /\ out \o x \in Seq(Nat)
        BY <2>4, ConcatAt
      <4> QED BY <2>3, <2>4, <4>1, <4>2
    <3>2. ASSUME NEW i \in 1..m PROVE (out \o x)[i] = y[i]
      <4>1. CASE i <= n
        <5>1. (out \o x)[i] = out[i]
          BY <4>1, <2>4 DEF n
        <5> QED BY <4>1, <5>1, <1>2, <1>3, <2>5
      <4>2. CASE i > n
        <5>1. PICK j \in 1..k : i = n + j
          <6>1. i - n \in 1..k /\ i = n + (i - n)
            BY <4>2, <1>2, <2>3
          <6> QED BY <6>1
        <5>2. (out \o x)[n + j] = x[j]
          BY <2>4 DEF n
        <5>3. j \in 1..b
          BY <1>2, <2>3
        <5> QED BY <5>1, <5>2, <5>3, <2>4, <2>5, <1>4
      <4>3. i <= n \/ i > n
        BY <1>2, <2>3
      <4> QED BY <4>1, <4>2, <4>3
    <3> QED BY <3>1, <3>2, <2>5, SeqEqual
  <2> QED BY <2>2, <2>6, <1>2 DEF Kept, k, m, all, n, b
<1>6. CASE n > ConsoleLimit
  <2>1. Min({n, ConsoleLimit}) = ConsoleLimit
    BY <1>1, <1>2, <1>6, MinOf
  <2>2. Min({n + b, ConsoleLimit}) = ConsoleLimit
    BY <1>1, <1>2, <1>6, MinOf
  <2> DEFINE x == SubSeq(out, 1, ConsoleLimit)
             y == SubSeq(all, 1, ConsoleLimit)
  <2>3. x \in Seq(Nat) /\ Len(x) = ConsoleLimit /\ \A i \in 1..ConsoleLimit : x[i] = out[i]
    <3>1. ConsoleLimit \in 0..Len(out)
      BY <1>1, <1>2, <1>6 DEF n
    <3> QED BY <3>1, Stretch DEF n
  <2>4. y \in Seq(Nat) /\ Len(y) = ConsoleLimit /\ \A i \in 1..ConsoleLimit : y[i] = all[i]
    <3>1. ConsoleLimit \in 0..Len(all)
      BY <1>1, <1>2, <1>6
    <3> QED BY <1>2, <3>1, Stretch
  <2>5. x = y
    <3> HIDE DEF x, y
    <3>1. \A i \in 1..ConsoleLimit : x[i] = y[i]
      <4>1. 1..ConsoleLimit \subseteq 1..n
        BY <1>1, <1>2, <1>6
      <4> QED BY <4>1, <2>3, <2>4, <1>3
    <3> QED BY <2>3, <2>4, <3>1, SeqEqual
  <2>6. con = x
    BY <2>1 DEF n
  <2>7. Min({b, ConsoleLimit - Len(x)}) = 0
    <3>1. ConsoleLimit - Len(x) = 0
      BY <2>3, <1>1
    <3>2. Min({b, 0}) = 0
      BY <1>2, MinOf
    <3> QED BY <3>1, <3>2
  <2>8. x \o SubSeq(bytes, 1, 0) = x
    <3> HIDE DEF x
    <3>1. SubSeq(bytes, 1, 0) = <<>>
      OBVIOUS
    <3> QED BY <3>1, <2>3, ConcatEmptySeq
  <2>9. Kept(con, bytes) = x
    BY <2>6, <2>7, <2>8 DEF Kept, b
  <2>10. SubSeq(out \o bytes, 1, Min({Len(out \o bytes), ConsoleLimit})) = y
    BY <1>2, <2>2 DEF all
  <2> QED BY <2>5, <2>9, <2>10
<1>7. n <= ConsoleLimit \/ n > ConsoleLimit
  BY <1>1, <1>2
<1> QED BY <1>5, <1>6, <1>7

\* A sequence whose elements are all in a set.
LEMMA Retyped ==
  ASSUME NEW A, NEW B, NEW s \in Seq(A), \A i \in 1..Len(s) : s[i] \in B
  PROVE  s \in Seq(B)
<1>1. Len(s) \in Nat /\ s = [i \in 1..Len(s) |-> s[i]]
  OBVIOUS
<1>2. [i \in 1..Len(s) |-> s[i]] \in Seq(B)
  BY <1>1
<1> QED BY <1>1, <1>2

\* The way in: what the queue holds, what was read, accepted, and whether an
\* answer found too little room.
In(rx, read, accepted, torn) ==
  /\ Len(rx) <= RxLimit
  /\ Only(read \o rx, UserBytes) = accepted
  /\ ~torn => Whole(read \o rx)

Answers == {-1, -2}

\* Typed bytes go behind what is queued,
LEMMA InInject ==
  ASSUME NEW rx \in Seq(Int), NEW read \in Seq(Int), NEW accepted \in Seq(Int), NEW torn \in BOOLEAN,
         In(rx, read, accepted, torn),
         NEW new \in Seq(Int), \A i \in 1..Len(new) : new[i] \in UserBytes,
         Len(rx) + Len(new) <= RxLimit
  PROVE  In(rx \o new, read, accepted \o new, torn)
<1> DEFINE all == read \o rx
<1>1. all \in Seq(Int) /\ read \o (rx \o new) = all \o new
  <2>1. all \in Seq(Int)
    BY ConcatAt
  <2>2. (read \o rx) \o new = read \o (rx \o new)
    BY ConcatAssociative
  <2> QED BY <2>1, <2>2
<1>2. Only(all, UserBytes) = accepted
  BY DEF In
<1>3. new \in Seq(UserBytes)
  BY Retyped
<1>4. Only(new, UserBytes) = new
  BY <1>3, OnlyAll
<1>5. ~torn => Whole(all)
  BY DEF In
<1> HIDE DEF all
<1>6. Only(all \o new, UserBytes) = accepted \o new
  <2>1. Only(all \o new, UserBytes) = Only(all, UserBytes) \o Only(new, UserBytes)
    BY <1>1, OnlyConcat
  <2> QED BY <1>2, <1>4, <2>1
<1>7. ASSUME ~torn PROVE Whole(all \o new)
  <2>1. \A i \in 1..Len(new) : new[i] # -1 /\ new[i] # -2
    BY DEF UserBytes
  <2> QED BY <1>1, <1>5, <1>7, <2>1, WholeGrows
<1>8. Len(rx \o new) <= RxLimit
  <2>1. Len(rx \o new) = Len(rx) + Len(new)
    OBVIOUS
  <2> QED BY <2>1
<1> QED BY <1>1, <1>6, <1>7, <1>8 DEF In

\* an answer, or what there is room for of it, in front,
LEMMA InAnswerTorn ==
  ASSUME NEW rx \in Seq(Int), NEW read \in Seq(Int), NEW accepted \in Seq(Int), NEW torn \in BOOLEAN,
         In(rx, read, accepted, torn),
         NEW piece \in Seq(Int), piece \in Seq(Answers), Len(piece) + Len(rx) <= RxLimit
  PROVE  In(piece \o rx, read, accepted, TRUE)
<1> DEFINE all == read \o rx
           half == read \o piece
<1>1. half \in Seq(Int) /\ read \o (piece \o rx) = half \o rx
  OBVIOUS
<1>2. Only(all, UserBytes) = accepted
  BY DEF In
<1>3. Only(piece, UserBytes) = <<>>
  <2>1. UserBytes \cap Answers = {}
    BY DEF UserBytes, Answers
  <2> QED BY <2>1, OnlyNone
<1>4. Only(half, UserBytes) = Only(read, UserBytes)
  <2>1. Only(half, UserBytes) = Only(read, UserBytes) \o Only(piece, UserBytes)
    BY OnlyConcat
  <2>2. Only(read, UserBytes) \in Seq(Int)
    BY OnlyType
  <2> QED BY <1>3, <2>1, <2>2, ConcatEmptySeq
<1> HIDE DEF half
<1>5. Only(half \o rx, UserBytes) = Only(half, UserBytes) \o Only(rx, UserBytes)
  BY <1>1, OnlyConcat
<1>6. Only(all, UserBytes) = Only(read, UserBytes) \o Only(rx, UserBytes)
  BY OnlyConcat
<1>7. Only(read \o (piece \o rx), UserBytes) = accepted
  BY <1>1, <1>2, <1>4, <1>5, <1>6
<1>8. Len(piece \o rx) <= RxLimit
  <2>1. Len(piece \o rx) = Len(piece) + Len(rx)
    OBVIOUS
  <2> QED BY <2>1
<1> QED BY <1>7, <1>8 DEF In

\* all of it in one piece,
LEMMA InAnswerWhole ==
  ASSUME NEW rx \in Seq(Int), NEW read \in Seq(Int), NEW accepted \in Seq(Int),
         In(rx, read, accepted, FALSE), Len(Response) + Len(rx) <= RxLimit
  PROVE  In(Response \o rx, read, accepted, FALSE)
<1>1. PICK piece \in Seq(Int) : piece = Response /\ piece \in Seq(Answers)
  <2>1. Response \in Seq(Int) /\ Response \in Seq(Answers)
    BY DEF Response, Answers
  <2> QED BY <2>1, Zenon
<1>2. In(piece \o rx, read, accepted, TRUE)
  BY <1>1, InAnswerTorn
<1>3. Whole((read \o piece) \o rx)
  <2>1. Whole(read \o rx)
    BY DEF In
  <2> QED BY <1>1, <2>1, WholeInsert
<1>4. (read \o piece) \o rx = read \o (piece \o rx)
  BY ConcatAssociative
<1> QED BY <1>1, <1>2, <1>3, <1>4 DEF In

\* and the guest reads from the front.
LEMMA InRead ==
  ASSUME RxLimit \in Nat,
         NEW rx \in Seq(Int), NEW read \in Seq(Int), NEW accepted \in Seq(Int), NEW torn \in BOOLEAN,
         In(rx, read, accepted, torn), rx # <<>>
  PROVE  In(Tail(rx), Append(read, Head(rx)), accepted, torn)
<1>1. /\ Tail(rx) \in Seq(Int) /\ Head(rx) \in Int /\ Append(read, Head(rx)) \in Seq(Int)
      /\ Len(Tail(rx)) = Len(rx) - 1 /\ Len(rx) \in Nat
  OBVIOUS
<1>2. Append(read, Head(rx)) \o Tail(rx) = read \o rx
  OBVIOUS
<1>3. Len(Tail(rx)) <= RxLimit
  BY <1>1 DEF In
<1> QED BY <1>2, <1>3 DEF In

-----------------------------------------------------------------------------
\* The way out: what is held back, what the caller keeps, what was written out,
\* answered and sent.
Out(held, console, out, answered, sent) ==
  /\ Len(out) + Len(held) + 2 * answered = Len(sent)
  /\ Only(out, PlainBytes) = Only(sent, PlainBytes)
  /\ console = SubSeq(out, 1, Min({Len(out), ConsoleLimit}))

\* Bytes written out,
LEMMA OutWrite ==
  ASSUME SerialAssumption, NEW held, NEW console, NEW out \in Seq(Nat), NEW answered \in Nat,
         NEW sent \in Seq(Nat), NEW c \in Nat, NEW bytes \in Seq(Nat), NEW held2,
         Len(held) \in Nat, Len(held2) \in Nat,
         Out(held, console, out, answered, sent),
         Len(bytes) + Len(held2) = Len(held) + 1,
         Only(bytes, PlainBytes) = Only(<<c>>, PlainBytes)
  PROVE  Out(held2, Kept(console, bytes), out \o bytes, answered, Append(sent, c))
<1>1. /\ Len(out \o bytes) = Len(out) + Len(bytes) /\ Len(Append(sent, c)) = Len(sent) + 1
      /\ Len(out) \in Nat /\ Len(bytes) \in Nat /\ Len(sent) \in Nat
  OBVIOUS
<1>2. Len(out) + Len(held) + 2 * answered = Len(sent)
  BY DEF Out
<1>3. Len(out \o bytes) + Len(held2) + 2 * answered = Len(Append(sent, c))
  <2>1. PICK lo \in Nat, lb \in Nat, ls \in Nat, lh \in Nat, lk \in Nat :
            /\ lo = Len(out) /\ lb = Len(bytes) /\ ls = Len(sent) /\ lh = Len(held) /\ lk = Len(held2)
    BY <1>1
  <2>2. lo + lh + 2 * answered = ls /\ lb + lk = lh + 1
    BY <1>2, <2>1
  <2>3. (lo + lb) + lk + 2 * answered = ls + 1
    BY <2>2
  <2>4. Len(out \o bytes) = lo + lb /\ Len(Append(sent, c)) = ls + 1
    BY <1>1, <2>1
  <2> QED BY <2>1, <2>3, <2>4
<1>4. Only(out \o bytes, PlainBytes) = Only(out, PlainBytes) \o Only(<<c>>, PlainBytes)
  <2>1. Only(out \o bytes, PlainBytes) = Only(out, PlainBytes) \o Only(bytes, PlainBytes)
    BY OnlyConcat
  <2> QED BY <2>1
<1>5. Only(sent \o <<c>>, PlainBytes) = Only(sent, PlainBytes) \o Only(<<c>>, PlainBytes)
  <2>1. PICK z \in Seq(Nat) : z = <<c>>
    <3>1. <<c>> \in Seq(Nat)
      OBVIOUS
    <3> QED BY <3>1, Zenon
  <2>2. Only(sent \o z, PlainBytes) = Only(sent, PlainBytes) \o Only(z, PlainBytes)
    BY OnlyConcat
  <2> QED BY <2>1, <2>2
<1>6. Append(sent, c) = sent \o <<c>>
  OBVIOUS
<1>7. Only(out, PlainBytes) = Only(sent, PlainBytes)
  BY DEF Out
<1>8. Only(out \o bytes, PlainBytes) = Only(Append(sent, c), PlainBytes)
  BY <1>4, <1>5, <1>6, <1>7
<1>9. Kept(console, bytes) = SubSeq(out \o bytes, 1, Min({Len(out \o bytes), ConsoleLimit}))
  <2>1. console = SubSeq(out, 1, Min({Len(out), ConsoleLimit}))
    BY DEF Out
  <2> QED BY <2>1, PrefixKept
<1> QED BY <1>3, <1>8, <1>9 DEF Out

\* held back, or answered.
Swallowed(held, held2, answered, answered2) ==
  /\ Len(held) \in Nat /\ Len(held2) \in Nat /\ answered \in Nat /\ answered2 \in Nat
  /\ Len(held2) + 2 * answered2 = Len(held) + 1 + 2 * answered

\* What was sent then still lies between the console and the answers.
LEMMA OutSwallow ==
  ASSUME NEW held, NEW console, NEW out \in Seq(Nat), NEW answered,
         NEW sent \in Seq(Nat), NEW c \in {Esc, Cpr}, NEW held2, NEW answered2,
         Out(held, console, out, answered, sent),
         Swallowed(held, held2, answered, answered2)
  PROVE  Out(held2, console, out, answered2, Append(sent, c))
<1>0. c \in Nat /\ c \notin PlainBytes
  BY DEF Esc, Cpr, PlainBytes
<1>1. Len(Append(sent, c)) = Len(sent) + 1 /\ Len(out) \in Nat /\ Len(sent) \in Nat
  BY <1>0
<1>2. Len(out) + Len(held) + 2 * answered = Len(sent)
  BY DEF Out
<1>3. Len(out) + Len(held2) + 2 * answered2 = Len(Append(sent, c))
  <2>1. PICK lo \in Nat, ls \in Nat, lh \in Nat, lk \in Nat, a \in Nat, b \in Nat :
            /\ lo = Len(out) /\ ls = Len(sent) /\ lh = Len(held) /\ lk = Len(held2)
            /\ a = answered /\ b = answered2
    BY <1>1 DEF Swallowed
  <2>2. lo + lh + 2 * a = ls /\ lk + 2 * b = lh + 1 + 2 * a
    BY <1>2, <2>1 DEF Swallowed
  <2>3. lo + lk + 2 * b = ls + 1
    BY <2>2
  <2> QED BY <1>1, <2>1, <2>3
<1>4. Only(Append(sent, c), PlainBytes) = Only(sent, PlainBytes)
  BY <1>0, OnlyAppend
<1> QED BY <1>3, <1>4 DEF Out

Ports == [kind : {"kvm", "pl011"}, echo : BOOLEAN, mask : SUBSET {"rx", "tx"},
          ris : SUBSET {"rx", "tx"}, iir : {"none", "rx", "tx"}, line : BOOLEAN,
          rx : Seq(Int), terminal_query : {<<>>, <<Esc>>}, console : Seq(Nat)]
Serials == [typed : Nat, accepted : Seq(Int), read : Seq(Int), sent : Seq(Nat),
            out : Seq(Nat), answered : Nat, torn : BOOLEAN, masks : Nat]

\* The line follows its causes: of KVM's the cause that IIR shows, of the
\* PL011's the raw status, which holds "rx" exactly while bytes are queued.
KvmLine(p) ==
  /\ p.iir = IF "rx" \in p.mask /\ p.rx # <<>> THEN "rx" ELSE IF "tx" \in p.mask THEN "tx" ELSE "none"
  /\ p.line = (p.iir # "none")
Pl011Line(p) ==
  /\ "rx" \in p.ris <=> p.rx # <<>>
  /\ p.line = (p.ris \cap p.mask # {})
LineFollows(p) == IF p.kind = "kvm" THEN KvmLine(p) ELSE Pl011Line(p)

\* A high COM1 line was latched, and the latch is only taken by the handler.
EdgeHeld == port.kind = "kvm" /\ port.line /\ serialIsr = "out" => edge

LineInv ==
  /\ port \in Ports /\ edge \in BOOLEAN /\ serialIsr \in {"out", "in"}
  /\ LineFollows(port)
  /\ EdgeHeld

DataInv ==
  /\ serial \in Serials
  /\ In(port.rx, serial.read, serial.accepted, serial.torn)
  /\ Out(port.terminal_query, port.console, serial.out, serial.answered, serial.sent)

SerialInv == LineInv /\ DataInv

\* Computing the interrupt again sets the line from its causes, and nothing else.
LEMMA RefreshFollows ==
  ASSUME NEW p \in Ports
  PROVE  /\ Refresh(p) \in Ports /\ LineFollows(Refresh(p))
         /\ Refresh(p).kind = p.kind /\ Refresh(p).rx = p.rx
         /\ Refresh(p).terminal_query = p.terminal_query /\ Refresh(p).console = p.console
<1>1. CASE p.kind = "kvm"
  <2> DEFINE cause == IF "rx" \in p.mask /\ p.rx # <<>> THEN "rx"
                      ELSE IF "tx" \in p.mask THEN "tx" ELSE "none"
             q == [p EXCEPT !.iir = cause, !.line = cause # "none"]
  <2>1. Refresh(p) = q
    BY <1>1 DEF Refresh, Uart_update_interrupt_locked
  <2>2. cause \in {"none", "rx", "tx"} /\ (cause # "none") \in BOOLEAN
    OBVIOUS
  <2>3. /\ q.kind = p.kind /\ q.rx = p.rx /\ q.mask = p.mask
        /\ q.terminal_query = p.terminal_query /\ q.console = p.console
        /\ q.iir = cause /\ q.line = (cause # "none")
    BY DEF Ports
  <2>4. q \in Ports
    <3> HIDE DEF cause
    <3> QED BY <2>2 DEF Ports
  <2>5. KvmLine(q)
    <3> HIDE DEF q
    <3> QED BY <2>3 DEF KvmLine
  <2> HIDE DEF q
  <2> QED BY <1>1, <2>1, <2>3, <2>4, <2>5 DEF LineFollows
<1>2. CASE p.kind # "kvm"
  <2> DEFINE ris == IF p.rx # <<>> THEN p.ris \cup {"rx"} ELSE p.ris \ {"rx"}
             q == [p EXCEPT !.ris = ris, !.line = ris \cap p.mask # {}]
  <2>1. Refresh(p) = q
    BY <1>2 DEF Refresh, update_irq_locked
  <2>2. ris \in SUBSET {"rx", "tx"} /\ (ris \cap p.mask # {}) \in BOOLEAN
    BY DEF Ports
  <2>3. /\ q.kind = p.kind /\ q.rx = p.rx /\ q.mask = p.mask
        /\ q.terminal_query = p.terminal_query /\ q.console = p.console
        /\ q.ris = ris /\ q.line = (ris \cap p.mask # {})
    BY DEF Ports
  <2>4. q \in Ports
    <3> HIDE DEF ris
    <3> QED BY <2>2 DEF Ports
  <2>5. Pl011Line(q)
    <3>1. "rx" \in ris <=> p.rx # <<>>
      OBVIOUS
    <3> HIDE DEF q, ris
    <3> QED BY <2>3, <3>1 DEF Pl011Line
  <2> HIDE DEF q
  <2> QED BY <1>2, <2>1, <2>3, <2>4, <2>5 DEF LineFollows
<1> QED BY <1>1, <1>2

\* A call of the device ends with that, and with the line signalled.
LEMMA SignalKeeps ==
  ASSUME LineInv, NEW mid \in Ports, mid.kind = port.kind, Signal(Refresh(mid)), UNCHANGED serialIsr
  PROVE  /\ LineInv' /\ port'.rx = mid.rx
         /\ port'.terminal_query = mid.terminal_query /\ port'.console = mid.console
<1>1. port' = Refresh(mid) /\ edge' = (edge \/ (Refresh(mid).kind = "kvm" /\ ~port.line /\ Refresh(mid).line))
  BY DEF Signal
<1>2. /\ port' \in Ports /\ LineFollows(port') /\ port'.kind = port.kind /\ port'.rx = mid.rx
      /\ port'.terminal_query = mid.terminal_query /\ port'.console = mid.console
  BY <1>1, RefreshFollows
<1>3. edge' \in BOOLEAN
  BY <1>1 DEF LineInv
<1>4. port.line \in BOOLEAN /\ port'.line \in BOOLEAN
  BY <1>2 DEF LineInv, Ports
<1>5. EdgeHeld'
  BY <1>1, <1>2, <1>4 DEF LineInv, EdgeHeld
<1> QED BY <1>2, <1>3, <1>5 DEF LineInv

\* The device starts that way.
LEMMA SerialInitInv == ASSUME SerialAssumption, SerialInit PROVE SerialInv
<1>1. /\ port.kind \in {"kvm", "pl011"} /\ port.echo \in BOOLEAN /\ port.mask = {}
      /\ port.ris = {} /\ port.iir = "none" /\ port.line = FALSE
      /\ port.rx = <<>> /\ port.terminal_query = <<>> /\ port.console = <<>>
  BY DEF SerialInit
<1>2. port \in Ports
  <2>1. port = [kind |-> port.kind, echo |-> port.echo, mask |-> {}, ris |-> {}, iir |-> "none",
                line |-> FALSE, rx |-> <<>>, terminal_query |-> <<>>, console |-> <<>>]
    BY DEF SerialInit
  <2>2. <<>> \in Seq(Int) /\ <<>> \in Seq(Nat) /\ {} \in SUBSET {"rx", "tx"}
    OBVIOUS
  <2> QED BY <1>1, <2>1, <2>2, Zenon DEF Ports
<1>3. LineFollows(port)
  BY <1>1 DEF LineFollows, KvmLine, Pl011Line
<1>4. EdgeHeld /\ edge \in BOOLEAN /\ serialIsr \in {"out", "in"}
  BY <1>1 DEF SerialInit, EdgeHeld
<1>5. serial \in Serials
  BY DEF SerialInit, Serials
<1>6. /\ serial.accepted = <<>> /\ serial.read = <<>> /\ serial.sent = <<>> /\ serial.out = <<>>
      /\ serial.answered = 0 /\ serial.torn = FALSE
  BY DEF SerialInit
<1>7. PICK e \in Seq(Int) : e = <<>> /\ Len(e) = 0 /\ e \o e = e
  <2>1. <<>> \in Seq(Int) /\ Len(<<>>) = 0 /\ <<>> \o <<>> = <<>>
    OBVIOUS
  <2> QED BY <2>1, Zenon
<1>8. In(e, e, e, FALSE)
  <2>1. Only(e, UserBytes) = e
    BY <1>7, OnlyEmpty
  <2>2. Whole(e)
    BY <1>7 DEF Whole
  <2>3. 0 <= RxLimit
    BY DEF SerialAssumption
  <2> QED BY <1>7, <2>1, <2>2, <2>3 DEF In
<1>9. Out(e, e, e, 0, e)
  <2>1. ConsoleLimit \in Int /\ 0 <= ConsoleLimit
    BY DEF SerialAssumption
  <2>2. Min({0, ConsoleLimit}) = 0
    BY <2>1, MinOf
  <2>3. SubSeq(e, 1, 0) = e
    BY <1>7
  <2> QED BY <1>7, <2>2, <2>3 DEF Out
<1>10. DataInv
  BY <1>1, <1>5, <1>6, <1>7, <1>8, <1>9 DEF DataInv
<1> QED BY <1>2, <1>3, <1>4, <1>10 DEF SerialInv, LineInv

\* What the device accepts of n bytes.
LEMMA Accepting ==
  ASSUME NEW rx \in Seq(Int), Len(rx) <= RxLimit, RxLimit \in Nat, NEW bytes \in Seq(Int)
  PROVE  /\ Min({Len(bytes), RxLimit - Len(rx)}) \in 0..Len(bytes)
         /\ Len(rx) + Min({Len(bytes), RxLimit - Len(rx)}) <= RxLimit
<1>1. Len(bytes) \in Nat /\ RxLimit - Len(rx) \in Int /\ RxLimit - Len(rx) >= 0 /\ Len(rx) \in Nat
  OBVIOUS
<1>2. PICK a \in Nat, b \in Int : a = Len(bytes) /\ b = RxLimit - Len(rx)
  BY <1>1
<1>3. Min({a, b}) = IF a <= b THEN a ELSE b
  BY MinOf
<1>4. Min({a, b}) \in 0..a /\ Min({a, b}) <= b
  BY <1>1, <1>2, <1>3
<1> QED BY <1>1, <1>2, <1>4

\* The input thread puts typed bytes behind what is queued.
LEMMA InjectKeeps ==
  ASSUME SerialAssumption, SerialInv, NEW n \in 1..2, Inject(n)
  PROVE  SerialInv'
<1> DEFINE bytes == [i \in 1..n |-> serial.typed + i]
           kept == SubSeq(bytes, 1, Min({n, Room(port)}))
           mid == IF port.kind = "kvm" THEN enqueue_rx(port, bytes) ELSE inject_bytes(port, bytes)
<1>1. /\ Signal(Refresh(mid)) /\ UNCHANGED serialIsr
      /\ serial' = [serial EXCEPT !.typed = @ + n, !.accepted = @ \o kept]
  BY DEF Inject
<1>2. /\ port \in Ports /\ serial \in Serials /\ RxLimit \in Nat /\ port.rx \in Seq(Int)
      /\ serial.typed \in Nat /\ serial.accepted \in Seq(Int) /\ serial.read \in Seq(Int)
      /\ serial.torn \in BOOLEAN
  BY DEF SerialInv, LineInv, DataInv, Ports, Serials, SerialAssumption
<1>3. bytes \in Seq(Int) /\ Len(bytes) = n /\ \A i \in 1..n : bytes[i] \in UserBytes
  BY <1>2 DEF UserBytes
<1> HIDE DEF bytes
<1>4. /\ kept \in Seq(Int) /\ Len(port.rx) + Len(kept) <= RxLimit
      /\ \A i \in 1..Len(kept) : kept[i] \in UserBytes
  <2> DEFINE m == Min({n, Room(port)})
  <2>1. m \in 0..n /\ Len(port.rx) + m <= RxLimit
    <3>1. Len(port.rx) <= RxLimit
      BY DEF SerialInv, DataInv, In
    <3> QED BY <1>2, <1>3, <3>1, Accepting DEF Room
  <2> HIDE DEF m
  <2>2. /\ SubSeq(bytes, 1, m) \in Seq(Int) /\ Len(SubSeq(bytes, 1, m)) = m
        /\ \A i \in 1..m : SubSeq(bytes, 1, m)[i] = bytes[i]
    BY <1>3, <2>1, Stretch
  <2>3. kept = SubSeq(bytes, 1, m)
    BY DEF m
  <2>4. 1..m \subseteq 1..n
    BY <2>1
  <2> HIDE DEF kept
  <2> QED BY <1>3, <2>1, <2>2, <2>3, <2>4
<1>5. /\ mid.kind = port.kind /\ mid.rx = port.rx \o kept
      /\ mid.terminal_query = port.terminal_query /\ mid.console = port.console
  <2>1. kept = SubSeq(bytes, 1, Min({Len(bytes), Room(port)}))
    BY <1>3
  <2> HIDE DEF kept
  <2> QED BY <1>2, <2>1 DEF enqueue_rx, inject_bytes, Ports
<1>6. mid \in Ports
  <2>1. kept = SubSeq(bytes, 1, Min({Len(bytes), Room(port)})) /\ port.rx \o kept \in Seq(Int)
    <3>1. port.rx \o kept \in Seq(Int)
      <4> HIDE DEF kept
      <4> QED BY <1>2, <1>4, ConcatAt
    <3> QED BY <1>3, <3>1
  <2> HIDE DEF kept
  <2>2. port.ris \cup {"rx"} \in SUBSET {"rx", "tx"}
    BY <1>2 DEF Ports
  <2>3. CASE port.kind = "kvm"
    <3>1. mid = [port EXCEPT !.rx = port.rx \o kept]
      BY <2>1, <2>3 DEF enqueue_rx
    <3> QED BY <1>2, <2>1, <3>1 DEF Ports
  <2>4. CASE port.kind # "kvm"
    <3>1. mid = [port EXCEPT !.rx = port.rx \o kept, !.ris = port.ris \cup {"rx"}]
      BY <2>1, <2>4 DEF inject_bytes
    <3> QED BY <1>2, <2>1, <2>2, <3>1 DEF Ports
  <2> QED BY <2>3, <2>4
<1> HIDE DEF mid, kept
<1>7. /\ LineInv' /\ port'.rx = port.rx \o kept
      /\ port'.terminal_query = port.terminal_query /\ port'.console = port.console
  <2>1. LineInv
    BY DEF SerialInv
  <2> QED BY <1>1, <1>5, <1>6, <2>1, SignalKeeps
<1>8. In(port.rx \o kept, serial.read, serial.accepted \o kept, serial.torn)
  <2>1. In(port.rx, serial.read, serial.accepted, serial.torn)
    BY DEF SerialInv, DataInv
  <2> QED BY <1>2, <1>4, <2>1, InInject
<1>9. /\ serial' \in Serials /\ serial'.accepted = serial.accepted \o kept
      /\ serial'.read = serial.read /\ serial'.torn = serial.torn /\ serial'.out = serial.out
      /\ serial'.answered = serial.answered /\ serial'.sent = serial.sent
  <2>1. serial.accepted \o kept \in Seq(Int)
    BY <1>2, <1>4, ConcatAt
  <2>2. serial.typed + n \in Nat
    BY <1>2
  <2> QED BY <1>1, <1>2, <2>1, <2>2 DEF Serials
<1>10. Out(port.terminal_query, port.console, serial.out, serial.answered, serial.sent)
  BY DEF SerialInv, DataInv
<1>11. DataInv'
  BY <1>7, <1>8, <1>9, <1>10 DEF DataInv
<1> QED BY <1>7, <1>11 DEF SerialInv

\* A register write that moves no byte.
LEMMA MaskKeeps ==
  ASSUME SerialInv, NEW mid \in Ports, mid.kind = port.kind, mid.rx = port.rx,
         mid.terminal_query = port.terminal_query, mid.console = port.console,
         Signal(Refresh(mid)), UNCHANGED serialIsr,
         serial' \in Serials, serial'.accepted = serial.accepted,
         serial'.read = serial.read, serial'.torn = serial.torn, serial'.out = serial.out,
         serial'.answered = serial.answered, serial'.sent = serial.sent
  PROVE  SerialInv'
<1>1. /\ LineInv' /\ port'.rx = port.rx
      /\ port'.terminal_query = port.terminal_query /\ port'.console = port.console
  <2>1. LineInv
    BY DEF SerialInv
  <2> QED BY <2>1, SignalKeeps
<1>2. DataInv'
  BY <1>1 DEF SerialInv, DataInv
<1> QED BY <1>1, <1>2 DEF SerialInv

\* The mask register is one,
LEMMA WriteMaskKeeps ==
  ASSUME SerialInv, NEW mask \in SUBSET {"rx", "tx"}, WriteMask(mask)
  PROVE  SerialInv'
<1>1. port \in Ports /\ serial \in Serials /\ serial.masks + 1 \in Nat
  BY DEF SerialInv, LineInv, DataInv, Serials
<1> DEFINE mid == [port EXCEPT !.mask = mask]
<1>2. /\ mid \in Ports /\ mid.kind = port.kind /\ mid.rx = port.rx
      /\ mid.terminal_query = port.terminal_query /\ mid.console = port.console
  BY <1>1 DEF Ports
<1>3. serial' = [serial EXCEPT !.masks = @ + 1] /\ Signal(Refresh(mid)) /\ UNCHANGED serialIsr
  BY DEF WriteMask
<1> HIDE DEF mid
<1>4. /\ serial' \in Serials /\ serial'.accepted = serial.accepted
      /\ serial'.read = serial.read /\ serial'.torn = serial.torn /\ serial'.out = serial.out
      /\ serial'.answered = serial.answered /\ serial'.sent = serial.sent
  BY <1>1, <1>3 DEF Serials
<1> QED BY <1>2, <1>3, <1>4, MaskKeeps

\* and so is the clear register of the PL011.
LEMMA IcrKeeps == ASSUME SerialInv, WriteIcr PROVE SerialInv'
<1>1. port \in Ports /\ serial \in Serials
  BY DEF SerialInv, LineInv, DataInv
<1> DEFINE mid == [port EXCEPT !.ris = {}]
<1>2. /\ mid \in Ports /\ mid.kind = port.kind /\ mid.rx = port.rx
      /\ mid.terminal_query = port.terminal_query /\ mid.console = port.console
  BY <1>1 DEF Ports
<1>3. Signal(Refresh(mid)) /\ UNCHANGED <<serialIsr, serial>>
  BY DEF WriteIcr
<1> HIDE DEF mid
<1> QED BY <1>1, <1>2, <1>3, MaskKeeps

\* What a read of the data register leaves are sequences again.
LEMMA Reading ==
  ASSUME NEW rx \in Seq(Int), rx # <<>>, NEW read \in Seq(Int)
  PROVE  Tail(rx) \in Seq(Int) /\ Append(read, Head(rx)) \in Seq(Int)
OBVIOUS

\* The guest takes one byte from the front of the queue.
LEMMA ReadKeeps == ASSUME SerialAssumption, SerialInv, ReadData PROVE SerialInv'
<1>1. /\ port \in Ports /\ serial \in Serials /\ RxLimit \in Nat /\ port.rx \in Seq(Int)
      /\ serial.accepted \in Seq(Int) /\ serial.read \in Seq(Int) /\ serial.torn \in BOOLEAN
  BY DEF SerialInv, LineInv, DataInv, Ports, Serials, SerialAssumption
<1>2. /\ port.rx # <<>> /\ (Uart_read \/ Pl011_read_mmio)
      /\ serial' = [serial EXCEPT !.read = Append(@, Head(port.rx))] /\ UNCHANGED serialIsr
  BY DEF ReadData
<1>3. Tail(port.rx) \in Seq(Int) /\ Append(serial.read, Head(port.rx)) \in Seq(Int)
  <2>1. port.rx # <<>>
    BY <1>2
  <2> QED BY <1>1, <2>1, Reading
<1>4. PICK mid \in Ports : /\ Signal(Refresh(mid)) /\ mid.kind = port.kind /\ mid.rx = Tail(port.rx)
                          /\ mid.terminal_query = port.terminal_query /\ mid.console = port.console
  <2>1. CASE Uart_read
    <3> DEFINE mid == [port EXCEPT !.rx = Tail(@)]
    <3>1. /\ mid \in Ports /\ Signal(Refresh(mid)) /\ mid.kind = port.kind /\ mid.rx = Tail(port.rx)
          /\ mid.terminal_query = port.terminal_query /\ mid.console = port.console
      BY <1>1, <1>3, <2>1 DEF Uart_read, Ports
    <3> HIDE DEF mid
    <3> QED BY <3>1
  <2>2. CASE Pl011_read_mmio
    <3> DEFINE ris == IF Len(port.rx) = 1 THEN port.ris \ {"rx"} ELSE port.ris
               mid == [port EXCEPT !.rx = Tail(@), !.ris = ris]
    <3>1. Signal(Refresh(mid))
      BY <2>2 DEF Pl011_read_mmio
    <3>2. ris \in SUBSET {"rx", "tx"}
      BY <1>1 DEF Ports
    <3> HIDE DEF ris
    <3>3. /\ mid \in Ports /\ mid.kind = port.kind /\ mid.rx = Tail(port.rx)
          /\ mid.terminal_query = port.terminal_query /\ mid.console = port.console
      BY <1>1, <1>3, <3>2 DEF Ports
    <3> HIDE DEF mid
    <3> QED BY <3>1, <3>3
  <2> QED BY <1>2, <2>1, <2>2
<1>5. /\ LineInv' /\ port'.rx = Tail(port.rx)
      /\ port'.terminal_query = port.terminal_query /\ port'.console = port.console
  <2>1. LineInv
    BY DEF SerialInv
  <2> QED BY <1>2, <1>4, <2>1, SignalKeeps
<1>6. In(Tail(port.rx), Append(serial.read, Head(port.rx)), serial.accepted, serial.torn)
  <2>1. In(port.rx, serial.read, serial.accepted, serial.torn)
    BY DEF SerialInv, DataInv
  <2>2. port.rx # <<>>
    BY <1>2
  <2> QED BY <1>1, <2>1, <2>2, InRead
<1>7. /\ serial' \in Serials /\ serial'.read = Append(serial.read, Head(port.rx))
      /\ serial'.accepted = serial.accepted /\ serial'.torn = serial.torn /\ serial'.out = serial.out
      /\ serial'.answered = serial.answered /\ serial'.sent = serial.sent
  BY <1>1, <1>2, <1>3 DEF Serials
<1>8. Out(port.terminal_query, port.console, serial.out, serial.answered, serial.sent)
  BY DEF SerialInv, DataInv
<1>9. DataInv'
  BY <1>5, <1>6, <1>7, <1>8 DEF DataInv
<1> QED BY <1>5, <1>9 DEF SerialInv

\* The guest takes the interrupt.
LEMMA TakeKeeps == ASSUME SerialInv, TakeInterrupt PROVE SerialInv'
<1>1. serialIsr' = "in" /\ edge' = FALSE /\ port' = port /\ serial' = serial
  BY DEF TakeInterrupt
<1> QED BY <1>1 DEF SerialInv, LineInv, DataInv, EdgeHeld

\* The guest reads the cause and goes on, or leaves its handler.
LEMMA CauseKeeps == ASSUME SerialInv, ReadCause PROVE SerialInv'
<1>1. port \in Ports /\ LineFollows(port) /\ EdgeHeld /\ edge \in BOOLEAN /\ serial' = serial
  BY DEF SerialInv, LineInv, ReadCause
<1>2. CASE port.kind = "kvm" /\ port.iir = "tx"
  <2> DEFINE lowered == [port EXCEPT !.line = FALSE]
             pulsed == Uart_update_interrupt_locked(lowered)
  <2>1. port' = pulsed /\ edge' = (edge \/ pulsed.line) /\ serialIsr' = "in"
    BY <1>2 DEF ReadCause
  <2>2. /\ lowered \in Ports /\ lowered.kind = "kvm" /\ lowered.rx = port.rx
        /\ lowered.terminal_query = port.terminal_query /\ lowered.console = port.console
    BY <1>1, <1>2 DEF Ports
  <2> HIDE DEF lowered
  <2>3. pulsed = Refresh(lowered)
    BY <2>2 DEF Refresh
  <2> HIDE DEF pulsed
  <2>4. /\ pulsed \in Ports /\ LineFollows(pulsed) /\ pulsed.rx = port.rx
        /\ pulsed.terminal_query = port.terminal_query /\ pulsed.console = port.console
    BY <2>2, <2>3, RefreshFollows
  <2>5. LineInv'
    <3>1. edge' \in BOOLEAN
      BY <1>1, <2>1
    <3> QED BY <2>1, <2>4, <3>1 DEF LineInv, EdgeHeld
  <2>6. DataInv'
    BY <1>1, <2>1, <2>4 DEF SerialInv, DataInv
  <2> QED BY <2>5, <2>6 DEF SerialInv
<1>3. CASE ~(port.kind = "kvm" /\ port.iir = "tx")
  <2>1. /\ port' = port /\ edge' = edge
        /\ serialIsr' = IF (port.kind = "kvm" /\ port.iir = "none") \/ (port.kind = "pl011" /\ ~port.line)
                        THEN "out" ELSE "in"
    BY <1>3 DEF ReadCause
  <2>2. EdgeHeld'
    <3>1. port.kind = "kvm" /\ port.iir = "none" => port.line = FALSE
      BY <1>1 DEF LineFollows, KvmLine
    <3> QED BY <2>1, <3>1 DEF EdgeHeld
  <2>3. LineInv'
    BY <1>1, <2>1, <2>2 DEF LineInv
  <2>4. DataInv'
    BY <1>1, <2>1 DEF SerialInv, DataInv
  <2> QED BY <2>3, <2>4 DEF SerialInv
<1> QED BY <1>2, <1>3

\* What a transmitted byte does to the device and to the record, whichever of
\* the handlers ran.
Handled(p, s) ==
  /\ p \in Ports /\ s \in Serials /\ p.kind = port.kind
  /\ In(p.rx, s.read, s.accepted, s.torn)
  /\ Out(p.terminal_query, p.console, s.out, s.answered, s.sent)

Codes == Nat \ {0}

\* Short sequences.
LEMMA Short ==
  ASSUME NEW a \in Nat, NEW b \in Nat
  PROVE  /\ <<a>> \in Seq(Nat) /\ Len(<<a>>) = 1 /\ <<a>>[1] = a
         /\ <<a, b>> \in Seq(Nat) /\ Len(<<a, b>>) = 2 /\ <<a, b>>[1] = a /\ <<a, b>>[2] = b
         /\ Append(<<a>>, b) = <<a, b>> /\ Append(<<>>, b) = <<b>>
<1>1. /\ <<a>> \in Seq(Nat) /\ Len(<<a>>) = 1 /\ <<a>>[1] = a
      /\ <<a, b>> \in Seq(Nat) /\ Len(<<a, b>>) = 2 /\ <<a, b>>[1] = a /\ <<a, b>>[2] = b
  OBVIOUS
<1>2. PICK s \in Seq(Nat), t \in Seq(Nat) : /\ s = <<a>> /\ t = <<a, b>> /\ Len(s) = 1 /\ s[1] = a
                                            /\ Len(t) = 2 /\ t[1] = a /\ t[2] = b
  BY <1>1, Zenon
<1>3. /\ Append(s, b) \in Seq(Nat) /\ Len(Append(s, b)) = 2
      /\ Append(s, b)[1] = s[1] /\ Append(s, b)[2] = b
  BY <1>2, AppendProperties
<1>4. \A i \in 1..2 : Append(s, b)[i] = t[i]
  <2> SUFFICES ASSUME NEW i \in 1..2 PROVE Append(s, b)[i] = t[i]
    OBVIOUS
  <2>1. i = 1 \/ i = 2
    OBVIOUS
  <2> QED BY <1>2, <1>3, <2>1
<1>5. Append(s, b) = t
  BY <1>2, <1>3, <1>4, SeqEqual
<1>6. Append(<<>>, b) = <<b>>
  OBVIOUS
<1> QED BY <1>1, <1>2, <1>5, <1>6

\* No bytes of a sequence.
LEMMA NoStretch == ASSUME NEW S, NEW s \in Seq(S) PROVE SubSeq(s, 1, 0) = <<>>
OBVIOUS

\* All bytes of a sequence.
LEMMA WholeStretch == ASSUME NEW S, NEW s \in Seq(S) PROVE SubSeq(s, 1, Len(s)) = s
OBVIOUS

\* What a prefix has in common with its sequence.
LEMMA PrefixHead ==
  ASSUME NEW s \in Seq(Nat), NEW t \in Seq(Nat), Len(s) >= 1, IsPrefix(s, t)
  PROVE  s[1] = t[1]
<1> DEFINE n == Len(s)
<1>1. n \in 0..Len(s) /\ n \in 0..Len(t) /\ SubSeq(s, 1, n) = SubSeq(t, 1, n) /\ n \in Nat
  BY DEF IsPrefix
<1>2. 1 \in 1..n
  OBVIOUS
<1> HIDE DEF n
<1>3. SubSeq(s, 1, n)[1] = s[1]
  BY <1>1, <1>2, Stretch
<1>4. SubSeq(t, 1, n)[1] = t[1]
  BY <1>1, <1>2, Stretch
<1> QED BY <1>1, <1>3, <1>4

\* A prefix as long as its sequence is the sequence.
LEMMA PrefixFull ==
  ASSUME NEW s \in Seq(Nat), NEW t \in Seq(Nat), Len(s) = Len(t), IsPrefix(s, t)
  PROVE  s = t
<1>1. SubSeq(s, 1, Len(s)) = SubSeq(t, 1, Len(t))
  BY DEF IsPrefix
<1> QED BY <1>1, WholeStretch

\* What a byte sequence that is held back, and a byte behind it, make.
LEMMA Holding ==
  ASSUME NEW q \in {<<>>, <<Esc>>}, NEW c \in Nat
  PROVE  LET held == Append(q, c)
         IN  /\ q \in Seq(Nat) /\ held \in Seq(Nat) /\ Len(held) = Len(q) + 1
             /\ held = SerialQuery => q = <<Esc>> /\ c = Cpr
             /\ held # SerialQuery /\ IsPrefix(held, SerialQuery) => q = <<>> /\ held = <<Esc>> /\ c = Esc
             /\ Only(held, PlainBytes) = Only(<<c>>, PlainBytes)
<1>0. Esc \in Nat /\ Cpr \in Nat /\ Esc \notin PlainBytes
  BY DEF Esc, Cpr, PlainBytes
<1>s. /\ SerialQuery = <<Esc, Cpr>> /\ SerialQuery \in Seq(Nat) /\ Len(SerialQuery) = 2
      /\ SerialQuery[1] = Esc /\ SerialQuery[2] = Cpr
  BY <1>0, Short DEF SerialQuery
<1>1. CASE q = <<>>
  <2>1. Append(q, c) = <<c>> /\ <<c>> \in Seq(Nat) /\ Len(<<c>>) = 1 /\ <<c>>[1] = c
    BY <1>1, Short
  <2>2. <<c>> # SerialQuery
    BY <1>s, <2>1
  <2>3. IsPrefix(<<c>>, SerialQuery) => c = Esc
    <3>1. PICK s \in Seq(Nat) : s = <<c>> /\ Len(s) >= 1 /\ s[1] = c
      <4>1. Len(<<c>>) >= 1
        BY <2>1
      <4> QED BY <2>1, <4>1, Zenon
    <3>2. IsPrefix(s, SerialQuery) => s[1] = SerialQuery[1]
      BY <1>s, <3>1, PrefixHead
    <3> QED BY <1>s, <3>1, <3>2
  <2>4. q \in Seq(Nat) /\ Len(q) = 0
    BY <1>1
  <2> QED BY <1>1, <2>1, <2>2, <2>3, <2>4
<1>2. CASE q = <<Esc>>
  <2>1. /\ Append(q, c) = <<Esc, c>> /\ <<Esc, c>> \in Seq(Nat) /\ Len(<<Esc, c>>) = 2
        /\ <<Esc, c>>[2] = c /\ q \in Seq(Nat) /\ Len(q) = 1 /\ q # <<>>
    BY <1>0, <1>2, Short
  <2>2. <<Esc, c>> = SerialQuery => c = Cpr
    BY <1>s, <2>1
  <2>3. IsPrefix(<<Esc, c>>, SerialQuery) => <<Esc, c>> = SerialQuery
    BY <1>s, <2>1, PrefixFull
  <2>4. Only(Append(q, c), PlainBytes) = Only(<<c>>, PlainBytes)
    <3>3. Only(q, PlainBytes) = <<>>
      BY <1>0, <1>2, OnlyOne
    <3>4. Only(Append(q, c), PlainBytes) = IF c \in PlainBytes THEN Append(<<>>, c) ELSE <<>>
      <4>1. Only(Append(q, c), PlainBytes) = IF c \in PlainBytes THEN Append(Only(q, PlainBytes), c)
                                             ELSE Only(q, PlainBytes)
        <5>1. PICK z \in Seq(Nat) : z = q
          BY <2>1
        <5>2. Only(Append(z, c), PlainBytes) = IF c \in PlainBytes THEN Append(Only(z, PlainBytes), c)
                                               ELSE Only(z, PlainBytes)
          BY OnlyAppend
        <5> QED BY <5>1, <5>2
      <4> QED BY <3>3, <4>1
    <3>5. Only(<<c>>, PlainBytes) = IF c \in PlainBytes THEN <<c>> ELSE <<>>
      BY OnlyOne
    <3> QED BY <3>4, <3>5, Short
  <2> DEFINE h == Append(q, c)
  <2>5. /\ h \in Seq(Nat) /\ Len(h) = 2 /\ (h = SerialQuery => c = Cpr)
        /\ (IsPrefix(h, SerialQuery) => h = SerialQuery) /\ Only(h, PlainBytes) = Only(<<c>>, PlainBytes)
    BY <2>1, <2>2, <2>3, <2>4
  <2> HIDE DEF h
  <2>6. /\ q \in Seq(Nat) /\ h \in Seq(Nat) /\ Len(h) = Len(q) + 1
        /\ h = SerialQuery => q = <<Esc>> /\ c = Cpr
        /\ h # SerialQuery /\ IsPrefix(h, SerialQuery) => q = <<>> /\ h = <<Esc>> /\ c = Esc
        /\ Only(h, PlainBytes) = Only(<<c>>, PlainBytes)
    BY <1>2, <2>1, <2>5
  <2> QED BY <2>6 DEF h
<1> QED BY <1>1, <1>2

\* The piece of the answer that fits.
LEMMA Fitting ==
  ASSUME RxLimit \in Nat, NEW rx \in Seq(Int), Len(rx) <= RxLimit
  PROVE  \E piece \in Seq(Int) : /\ push_front(rx, Response) = piece \o rx
                                 /\ piece \in Seq(Answers) /\ Len(piece) + Len(rx) <= RxLimit
                                 /\ ~(RxLimit - Len(rx) < Len(Response)) => piece = Response
<1> DEFINE n == Min({Len(Response), RxLimit - Len(rx)})
           piece == SubSeq(Response, Len(Response) - n + 1, Len(Response))
<1>1. Len(Response) = 2 /\ Response[1] = -1 /\ Response[2] = -2
  BY DEF Response
<1>2. Len(rx) \in Nat /\ RxLimit - Len(rx) \in Nat
  OBVIOUS
<1>3. PICK r \in Nat : r = RxLimit - Len(rx)
  BY <1>2
<1>4. n = IF 2 <= r THEN 2 ELSE r
  BY <1>1, <1>3, MinOf
<1>5. push_front(rx, Response) = piece \o rx
  BY DEF push_front
<1> HIDE DEF n
<1>6. n \in 0..2 /\ n <= r
  BY <1>4
<1>7. \A i \in (2 - n + 1)..2 : Response[i] \in Int /\ Response[i] \in Answers
  <2> SUFFICES ASSUME NEW i \in (2 - n + 1)..2 PROVE Response[i] \in Int /\ Response[i] \in Answers
    OBVIOUS
  <2>1. i = 1 \/ i = 2
    BY <1>6
  <2> QED BY <1>1, <2>1 DEF Answers
<1>8. 2 - n + 1 \in Int /\ (2 - n + 1 <= 2 => 2 - (2 - n + 1) + 1 = n) /\ (~(2 - n + 1 <= 2) => n = 0)
  BY <1>6
<1> DEFINE z == SubSeq(Response, 2 - n + 1, 2)
<1>9. z \in Seq(Int) /\ Len(z) = n
  BY <1>7, <1>8, SubSeqProperties
<1>10. z \in Seq(Answers)
  BY <1>7, <1>8, SubSeqProperties
<1>11. piece = z
  BY <1>1
<1>12. Len(z) + Len(rx) <= RxLimit
  <2> HIDE DEF z
  <2> QED BY <1>2, <1>3, <1>6, <1>9
<1>13. ASSUME ~(RxLimit - Len(rx) < Len(Response)) PROVE z = Response
  <2>1. n = 2
    BY <1>1, <1>3, <1>4, <1>13
  <2>2. z = SubSeq(Response, 1, 2)
    BY <2>1
  <2>3. SubSeq(Response, 1, 2) = Response
    <3>1. Response \in Seq(Int)
      BY DEF Response
    <3>2. SubSeq(Response, 1, Len(Response)) = Response
      BY <3>1, WholeStretch
    <3> QED BY <1>1, <3>2
  <2> QED BY <2>2, <2>3
<1> HIDE DEF piece, z
<1> QED BY <1>5, <1>9, <1>10, <1>11, <1>12, <1>13

\* The console keeps bytes.
LEMMA KeptType ==
  ASSUME SerialAssumption, NEW con \in Seq(Nat), NEW bytes \in Seq(Nat)
  PROVE  Kept(con, bytes) \in Seq(Nat)
<1> DEFINE n == Min({Len(bytes), ConsoleLimit - Len(con)})
<1>1. /\ Len(bytes) \in Nat /\ Len(bytes) \in Int /\ ConsoleLimit - Len(con) \in Int
  BY DEF SerialAssumption
<1>2. n = IF Len(bytes) <= ConsoleLimit - Len(con) THEN Len(bytes) ELSE ConsoleLimit - Len(con)
  <2>1. PICK a \in Int, b \in Int : a = Len(bytes) /\ b = ConsoleLimit - Len(con)
    BY <1>1, Zenon
  <2>2. Min({a, b}) = IF a <= b THEN a ELSE b
    BY MinOf
  <2> QED BY <2>1, <2>2
<1>3. n \in Int /\ n <= Len(bytes)
  <2> HIDE DEF n
  <2> QED BY <1>1, <1>2
<1> HIDE DEF n
<1>4. \A i \in 1..n : bytes[i] \in Nat
  <2> SUFFICES ASSUME NEW i \in 1..n PROVE bytes[i] \in Nat
    OBVIOUS
  <2>1. i \in 1..Len(bytes)
    BY <1>1, <1>3
  <2> QED BY <2>1, ElementOfSeq
<1>5. SubSeq(bytes, 1, n) \in Seq(Nat)
  BY <1>3, <1>4, SubSeqProperties
<1> QED BY <1>5, ConcatAt DEF Kept, n

\* A plain byte goes out.
LEMMA PlainKeeps ==
  ASSUME SerialAssumption, SerialInv, NEW c \in Codes
  PROVE  Handled(Plain(c).p, Plain(c).s)
<1> DEFINE bytes == <<c>>
<1>1. /\ port \in Ports /\ serial \in Serials /\ c \in Nat /\ serial.sent \in Seq(Nat)
      /\ serial.out \in Seq(Nat) /\ serial.answered \in Nat /\ port.console \in Seq(Nat)
      /\ port.terminal_query \in {<<>>, <<Esc>>}
  BY DEF SerialInv, LineInv, DataInv, Ports, Serials, Codes
<1>2. bytes \in Seq(Nat) /\ Len(bytes) = 1
  BY <1>1, Short
<1> HIDE DEF bytes
<1>3. Kept(port.console, bytes) \in Seq(Nat) /\ serial.out \o bytes \in Seq(Nat) /\ Append(serial.sent, c) \in Seq(Nat)
  BY <1>1, <1>2, KeptType, ConcatAt, AppendProperties
<1> DEFINE p == [port EXCEPT !.console = Kept(port.console, bytes)]
           s == [serial EXCEPT !.sent = Append(@, c), !.out = @ \o bytes]
<1>4. Plain(c).p = p
  BY DEF Plain, KeepConsole, Kept, bytes
<1>5. Plain(c).s = s
  <2>1. Plain(c).s = [[serial EXCEPT !.sent = Append(@, c)] EXCEPT !.out = @ \o bytes]
    BY DEF Plain, WriteOut, emit_tx_locked, Pl011_emit_tx_locked, bytes
  <2> QED BY <1>1, <2>1 DEF Serials
<1>6. /\ p \in Ports /\ p.kind = port.kind /\ p.rx = port.rx /\ p.terminal_query = port.terminal_query
      /\ p.console = Kept(port.console, bytes)
  BY <1>1, <1>3 DEF Ports
<1>7. /\ s \in Serials /\ s.read = serial.read /\ s.accepted = serial.accepted /\ s.torn = serial.torn
      /\ s.out = serial.out \o bytes /\ s.answered = serial.answered /\ s.sent = Append(serial.sent, c)
  BY <1>1, <1>3 DEF Serials
<1> HIDE DEF p, s
<1>8. Out(port.terminal_query, Kept(port.console, bytes), serial.out \o bytes, serial.answered, Append(serial.sent, c))
  <2>1. Out(port.terminal_query, port.console, serial.out, serial.answered, serial.sent)
    BY DEF SerialInv, DataInv
  <2>2. Len(port.terminal_query) \in Nat
    BY <1>1, Holding
  <2>3. Len(bytes) + Len(port.terminal_query) = Len(port.terminal_query) + 1
    BY <1>2, <2>2
  <2>4. Only(bytes, PlainBytes) = Only(<<c>>, PlainBytes)
    BY DEF bytes
  <2> QED BY <1>1, <1>2, <2>1, <2>2, <2>3, <2>4, OutWrite
<1>9. In(port.rx, serial.read, serial.accepted, serial.torn)
  BY DEF SerialInv, DataInv
<1> QED BY <1>4, <1>5, <1>6, <1>7, <1>8, <1>9 DEF Handled

\* Any other byte completes a query, is held back, or releases what was.
LEMMA QueryKeeps ==
  ASSUME SerialAssumption, SerialInv, NEW c \in Codes
  PROVE  Handled(HandleQuery(c).p, HandleQuery(c).s)
<1> DEFINE q == port.terminal_query
           held == Append(q, c)
           s1 == [serial EXCEPT !.sent = Append(@, c)]
<1>1. /\ port \in Ports /\ serial \in Serials /\ c \in Nat /\ serial.sent \in Seq(Nat)
      /\ serial.out \in Seq(Nat) /\ serial.answered \in Nat /\ port.console \in Seq(Nat)
      /\ q \in {<<>>, <<Esc>>} /\ port.rx \in Seq(Int) /\ serial.read \in Seq(Int)
      /\ serial.accepted \in Seq(Int) /\ serial.torn \in BOOLEAN /\ RxLimit \in Nat
  BY DEF SerialInv, LineInv, DataInv, Ports, Serials, Codes, SerialAssumption
<1>2. /\ q \in Seq(Nat) /\ held \in Seq(Nat) /\ Len(held) = Len(q) + 1
      /\ held = SerialQuery => q = <<Esc>> /\ c = Cpr
      /\ held # SerialQuery /\ IsPrefix(held, SerialQuery) => q = <<>> /\ held = <<Esc>> /\ c = Esc
      /\ Only(held, PlainBytes) = Only(<<c>>, PlainBytes)
  BY <1>1, Holding
<1>3. /\ Out(q, port.console, serial.out, serial.answered, serial.sent)
      /\ In(port.rx, serial.read, serial.accepted, serial.torn)
  BY DEF SerialInv, DataInv
<1>4. Append(serial.sent, c) \in Seq(Nat)
  BY <1>1, AppendProperties
<1>e. PICK e \in Seq(Nat) : e = <<>> /\ Len(e) = 0
  <2>1. <<>> \in Seq(Nat) /\ Len(<<>>) = 0
    OBVIOUS
  <2> QED BY <2>1, Zenon
<1>f. Len(<<Esc>>) = 1
  BY Short DEF Esc
<1>q. Len(q) \in Nat
  BY <1>2
<1>5. CASE held = SerialQuery
  <2> DEFINE p == [port EXCEPT !.terminal_query = <<>>, !.rx = push_front(@, Response)]
             s == [s1 EXCEPT !.answered = @ + 1, !.torn = @ \/ Room(port) < Len(Response)]
             torn2 == serial.torn \/ Room(port) < Len(Response)
  <2>1. HandleQuery(c).p = p /\ HandleQuery(c).s = s
    BY <1>5 DEF HandleQuery
  <2>2. torn2 \in BOOLEAN
    BY <1>1
  <2> HIDE DEF torn2
  <2>3. PICK piece \in Seq(Int) :
             /\ push_front(port.rx, Response) = piece \o port.rx
             /\ piece \in Seq(Answers) /\ Len(piece) + Len(port.rx) <= RxLimit
             /\ (~(RxLimit - Len(port.rx) < Len(Response)) => piece = Response)
    <3>1. Len(port.rx) <= RxLimit
      BY <1>3 DEF In
    <3> QED BY <1>1, <3>1, Fitting
  <2>4. ~torn2 => ~serial.torn /\ piece = Response
    BY <2>3 DEF torn2, Room
  <2>5. In(piece \o port.rx, serial.read, serial.accepted, torn2)
    <3>1. CASE torn2 = TRUE
      <4>1. In(piece \o port.rx, serial.read, serial.accepted, TRUE)
        BY <1>1, <1>3, <2>3, InAnswerTorn
      <4> QED BY <3>1, <4>1
    <3>2. CASE torn2 = FALSE
      <4>1. serial.torn = FALSE /\ piece = Response
        BY <1>1, <3>2, <2>4
      <4>2. In(port.rx, serial.read, serial.accepted, FALSE)
        BY <1>3, <4>1
      <4>3. Len(Response) + Len(port.rx) <= RxLimit
        BY <2>3, <4>1
      <4>4. In(Response \o port.rx, serial.read, serial.accepted, FALSE)
        BY <1>1, <4>2, <4>3, InAnswerWhole
      <4> QED BY <3>2, <4>1, <4>4
    <3> QED BY <2>2, <3>1, <3>2
  <2>6. Out(e, port.console, serial.out, serial.answered + 1, Append(serial.sent, c))
    <3>1. c \in {Esc, Cpr} /\ Len(q) = 1
      BY <1>2, <1>5, <1>f
    <3>2. /\ Len(e) + 2 * (serial.answered + 1) = Len(q) + 1 + 2 * serial.answered
          /\ Len(e) \in Nat /\ serial.answered + 1 \in Nat
      <4>1. PICK a \in Nat : a = serial.answered
        BY <1>1
      <4>2. 2 * (a + 1) = 1 + 1 + 2 * a /\ a + 1 \in Nat
        OBVIOUS
      <4> QED BY <3>1, <1>e, <4>1, <4>2
    <3>3. Swallowed(q, e, serial.answered, serial.answered + 1)
      BY <1>1, <1>q, <3>2 DEF Swallowed
    <3> HIDE DEF q
    <3> QED BY <1>1, <1>3, <3>1, <3>3, OutSwallow
  <2>7. /\ p \in Ports /\ p.kind = port.kind /\ p.rx = piece \o port.rx /\ p.terminal_query = e
        /\ p.console = port.console
    <3>1. piece \o port.rx \in Seq(Int)
      BY <1>1, ConcatAt
    <3>2. p = [port EXCEPT !.terminal_query = <<>>, !.rx = piece \o port.rx]
      BY <1>1, <2>3 DEF Ports
    <3> HIDE DEF p
    <3> QED BY <1>1, <1>e, <3>1, <3>2 DEF Ports
  <2>8. /\ s \in Serials /\ s.read = serial.read /\ s.accepted = serial.accepted /\ s.torn = torn2
        /\ s.out = serial.out /\ s.answered = serial.answered + 1 /\ s.sent = Append(serial.sent, c)
    <3>1. s = [serial EXCEPT !.sent = Append(serial.sent, c), !.answered = serial.answered + 1, !.torn = torn2]
      BY <1>1 DEF Serials, torn2
    <3>2. serial.answered + 1 \in Nat
      BY <1>1
    <3> HIDE DEF s
    <3> QED BY <1>1, <1>4, <2>2, <3>1, <3>2 DEF Serials
  <2> HIDE DEF p, s
  <2> QED BY <2>1, <2>5, <2>6, <2>7, <2>8 DEF Handled
<1>6. CASE held # SerialQuery /\ IsPrefix(held, SerialQuery)
  <2> DEFINE p == [port EXCEPT !.terminal_query = held]
  <2>1. HandleQuery(c).p = p /\ HandleQuery(c).s = s1
    BY <1>6 DEF HandleQuery
  <2>2. q = <<>> /\ held = <<Esc>> /\ c = Esc
    BY <1>2, <1>6
  <2>3. /\ p \in Ports /\ p.kind = port.kind /\ p.rx = port.rx /\ p.terminal_query = <<Esc>>
        /\ p.console = port.console
    <3>1. p = [port EXCEPT !.terminal_query = <<Esc>>]
      BY <2>2
    <3> HIDE DEF p
    <3> QED BY <1>1, <3>1 DEF Ports
  <2>4. /\ s1 \in Serials /\ s1.read = serial.read /\ s1.accepted = serial.accepted /\ s1.torn = serial.torn
        /\ s1.out = serial.out /\ s1.answered = serial.answered /\ s1.sent = Append(serial.sent, c)
    BY <1>1, <1>4 DEF Serials
  <2>5. Out(<<Esc>>, port.console, serial.out, serial.answered, Append(serial.sent, c))
    <3>1. c \in {Esc, Cpr} /\ Len(q) = 0
      BY <2>2, <1>e
    <3>3. PICK h \in Seq(Nat) : h = <<Esc>> /\ Len(h) = 1
      BY <1>f, Zenon, Short DEF Esc
    <3>4. Len(h) + 2 * serial.answered = Len(q) + 1 + 2 * serial.answered /\ Len(h) \in Nat
      BY <1>1, <3>1, <3>3
    <3>5. Out(h, port.console, serial.out, serial.answered, Append(serial.sent, c))
      <4>1. Swallowed(q, h, serial.answered, serial.answered)
        BY <1>1, <1>q, <3>4 DEF Swallowed
      <4>2. /\ Out(q, port.console, serial.out, serial.answered, serial.sent)
            /\ serial.out \in Seq(Nat) /\ serial.sent \in Seq(Nat) /\ c \in {Esc, Cpr}
        BY <1>1, <1>3, <3>1
      <4> HIDE DEF q
      <4> QED BY <4>1, <4>2, OutSwallow, ZenonT(60)
    <3> QED BY <3>3, <3>5
  <2> HIDE DEF p, s1
  <2> QED BY <1>3, <2>1, <2>3, <2>4, <2>5 DEF Handled
<1>7. CASE held # SerialQuery /\ ~IsPrefix(held, SerialQuery)
  <2> DEFINE p0 == [port EXCEPT !.terminal_query = <<>>]
             p == KeepConsole(p0, held)
             s == WriteOut(s1, held)
  <2>1. HandleQuery(c).p = p /\ HandleQuery(c).s = s
    BY <1>7 DEF HandleQuery
  <2>2. Kept(port.console, held) \in Seq(Nat) /\ serial.out \o held \in Seq(Nat)
    <3> HIDE DEF held
    <3> QED BY <1>1, <1>2, KeptType, ConcatAt
  <2>3. /\ p \in Ports /\ p.kind = port.kind /\ p.rx = port.rx /\ p.terminal_query = e
        /\ p.console = Kept(port.console, held)
    <3> HIDE DEF held
    <3>1. p = [port EXCEPT !.terminal_query = <<>>, !.console = Kept(port.console, held)]
      BY <1>1 DEF KeepConsole, Kept, Ports
    <3> HIDE DEF p
    <3> QED BY <1>1, <1>e, <2>2, <3>1 DEF Ports
  <2>4. /\ s \in Serials /\ s.read = serial.read /\ s.accepted = serial.accepted /\ s.torn = serial.torn
        /\ s.out = serial.out \o held /\ s.answered = serial.answered /\ s.sent = Append(serial.sent, c)
    <3> HIDE DEF held
    <3>1. s = [serial EXCEPT !.sent = Append(serial.sent, c), !.out = serial.out \o held]
      BY <1>1 DEF WriteOut, emit_tx_locked, Pl011_emit_tx_locked, Serials
    <3> HIDE DEF s
    <3> QED BY <1>1, <1>4, <2>2, <3>1 DEF Serials
  <2> HIDE DEF p, s, held
  <2>5. Out(e, Kept(port.console, held), serial.out \o held, serial.answered, Append(serial.sent, c))
    <3>1. Len(held) + Len(e) = Len(q) + 1 /\ Len(e) \in Nat
      BY <1>2, <1>e, <1>q
    <3> HIDE DEF q
    <3> QED BY <1>1, <1>2, <1>3, <1>q, <3>1, OutWrite
  <2> QED BY <1>3, <2>1, <2>3, <2>4, <2>5 DEF Handled
<1> QED BY <1>5, <1>6, <1>7

\* What the handler did is then shown on the line.
LEMMA HandledKeeps ==
  ASSUME SerialInv, NEW p, NEW s, Handled(p, s), NEW mid \in Ports, mid.kind = p.kind,
         mid.rx = p.rx, mid.terminal_query = p.terminal_query, mid.console = p.console,
         Signal(Refresh(mid)), serial' = s, UNCHANGED serialIsr
  PROVE  SerialInv'
<1>1. /\ p.kind = port.kind /\ s \in Serials
      /\ In(p.rx, s.read, s.accepted, s.torn)
      /\ Out(p.terminal_query, p.console, s.out, s.answered, s.sent)
  BY DEF Handled
<1>2. /\ LineInv' /\ port'.rx = p.rx
      /\ port'.terminal_query = p.terminal_query /\ port'.console = p.console
  <2>1. LineInv
    BY DEF SerialInv
  <2> QED BY <1>1, <2>1, SignalKeeps
<1>3. DataInv'
  BY <1>1, <1>2 DEF DataInv
<1> QED BY <1>2, <1>3 DEF SerialInv

\* The guest writes the data register.
LEMMA TransmitKeeps ==
  ASSUME SerialAssumption, SerialInv, NEW c \in Codes, Transmit(c)
  PROVE  SerialInv'
<1>1. UNCHANGED serialIsr /\ (Uart_write(c) \/ Pl011_write_mmio(c))
  BY DEF Transmit
<1>2. CASE Uart_write(c)
  <2> DEFINE h == kvm_handle_tx_byte(c)
  <2>1. Handled(h.p, h.s)
    BY PlainKeeps, QueryKeeps DEF kvm_handle_tx_byte
  <2>2. Signal(Refresh(h.p)) /\ serial' = h.s
    BY <1>2 DEF Uart_write
  <2> HIDE DEF h
  <2>3. h.p \in Ports
    BY <2>1 DEF Handled
  <2> QED BY <1>1, <2>1, <2>2, <2>3, HandledKeeps
<1>3. CASE Pl011_write_mmio(c)
  <2> DEFINE h == handle_tx_locked(c)
             mid == [h.p EXCEPT !.ris = @ \cup {"tx"}]
  <2>1. Handled(h.p, h.s)
    BY PlainKeeps, QueryKeeps DEF handle_tx_locked
  <2>2. Signal(Refresh(mid)) /\ serial' = h.s
    BY <1>3 DEF Pl011_write_mmio
  <2> HIDE DEF h
  <2>3. h.p \in Ports
    BY <2>1 DEF Handled
  <2>4. h.p.ris \cup {"tx"} \in SUBSET {"rx", "tx"}
    BY <2>3 DEF Ports
  <2>5. /\ mid \in Ports /\ mid.kind = h.p.kind /\ mid.rx = h.p.rx
        /\ mid.terminal_query = h.p.terminal_query /\ mid.console = h.p.console
    BY <2>3, <2>4 DEF Ports
  <2> HIDE DEF mid
  <2> QED BY <1>1, <2>1, <2>2, <2>5, HandledKeeps
<1> QED BY <1>1, <1>2, <1>3

\* Every step of the serial port and of its two users keeps the invariant,
LEMMA SerialStep ==
  ASSUME SerialAssumption, SerialInv, [SerialNext]_serialVars
  PROVE  SerialInv'
<1>1. ASSUME NEW n \in 1..2, Inject(n) PROVE SerialInv'
  BY <1>1, InjectKeeps
<1>2. ASSUME NEW c \in {Esc, Cpr, 3 + Len(serial.sent)}, Transmit(c) PROVE SerialInv'
  <2>1. Len(serial.sent) \in Nat
    BY DEF SerialInv, DataInv, Serials
  <2>2. c \in Codes
    BY <2>1 DEF Codes, Esc, Cpr
  <2> QED BY <1>2, <2>2, TransmitKeeps
<1>3. ASSUME NEW mask \in SUBSET {"rx", "tx"}, WriteMask(mask) PROVE SerialInv'
  BY <1>3, WriteMaskKeeps
<1>4. CASE WriteIcr
  BY <1>4, IcrKeeps
<1>5. CASE ReadData
  BY <1>5, ReadKeeps
<1>6. CASE TakeInterrupt
  BY <1>6, TakeKeeps
<1>7. CASE ReadCause
  BY <1>7, CauseKeeps
<1>8. CASE UNCHANGED serialVars
  <2>1. port' = port /\ edge' = edge /\ serialIsr' = serialIsr /\ serial' = serial
    BY <1>8 DEF serialVars
  <2> QED BY <2>1 DEF SerialInv, LineInv, DataInv, EdgeHeld
<1> QED BY <1>1, <1>2, <1>3, <1>4, <1>5, <1>6, <1>7, <1>8 DEF SerialNext

\* The console is never longer than its limit.
LEMMA ConsoleShort ==
  ASSUME SerialAssumption, NEW out \in Seq(Nat)
  PROVE  Len(SubSeq(out, 1, Min({Len(out), ConsoleLimit}))) <= ConsoleLimit
<1>1. PICK a \in Int, b \in Int : a = Len(out) /\ b = ConsoleLimit /\ a >= 0 /\ b >= 0
  <2>1. Len(out) \in Int /\ ConsoleLimit \in Int /\ Len(out) >= 0 /\ ConsoleLimit >= 0
    BY DEF SerialAssumption
  <2> QED BY <2>1
<1>2. Min({a, b}) = IF a <= b THEN a ELSE b
  BY MinOf
<1>3. Min({a, b}) \in 0..Len(out) /\ Min({a, b}) <= b
  BY <1>1, <1>2
<1>4. Len(SubSeq(out, 1, Min({a, b}))) = Min({a, b})
  BY <1>3, Stretch
<1> QED BY <1>1, <1>3, <1>4

\* which says all that the serial line promises.
LEMMA SerialInvExact == ASSUME SerialAssumption, SerialInv PROVE SerialExact
<1>1. /\ port \in Ports /\ serial \in Serials /\ LineFollows(port) /\ EdgeHeld
      /\ edge \in BOOLEAN /\ serialIsr \in {"out", "in"}
      /\ In(port.rx, serial.read, serial.accepted, serial.torn)
      /\ Out(port.terminal_query, port.console, serial.out, serial.answered, serial.sent)
  BY DEF SerialInv, LineInv, DataInv
<1>2. SerialTypeOK
  <2>1. Len(port.rx) <= RxLimit
    BY <1>1 DEF In
  <2>2. Len(port.console) <= ConsoleLimit
    BY <1>1, ConsoleShort DEF Out, Serials
  <2>3. IsStrictPrefix(port.terminal_query, SerialQuery)
    <3>0. Esc \in Nat /\ Cpr \in Nat
      BY DEF Esc, Cpr
    <3>1. PICK s \in Seq(Nat) : s = SerialQuery /\ Len(s) = 2 /\ s[1] = Esc
      <4>1. <<Esc, Cpr>> \in Seq(Nat) /\ Len(<<Esc, Cpr>>) = 2 /\ <<Esc, Cpr>>[1] = Esc
        BY <3>0, Short
      <4> QED BY <4>1, Zenon DEF SerialQuery
    <3>2. CASE port.terminal_query = <<>>
      <4>1. PICK e \in Seq(Nat) : e = <<>> /\ Len(e) = 0
        <5>1. <<>> \in Seq(Nat) /\ Len(<<>>) = 0
          OBVIOUS
        <5> QED BY <5>1, Zenon
      <4>2. SubSeq(e, 1, 0) = <<>> /\ SubSeq(s, 1, 0) = <<>>
        BY NoStretch
      <4>3. e # s
        <5> SUFFICES ASSUME e = s PROVE FALSE
          OBVIOUS
        <5>1. Len(s) = 2 /\ Len(s) = 0
          BY <3>1, <4>1
        <5> QED BY <5>1
      <4> QED BY <3>1, <3>2, <4>1, <4>2, <4>3 DEF IsStrictPrefix, IsPrefix
    <3>3. CASE port.terminal_query = <<Esc>>
      <4>1. PICK e \in Seq(Nat) : e = <<Esc>> /\ Len(e) = 1 /\ e[1] = Esc
        <5>1. <<Esc>> \in Seq(Nat) /\ Len(<<Esc>>) = 1 /\ <<Esc>>[1] = Esc
          BY <3>0, Short
        <5> QED BY <5>1, Zenon
      <4>2. /\ SubSeq(s, 1, 1) \in Seq(Nat) /\ Len(SubSeq(s, 1, 1)) = 1 /\ SubSeq(s, 1, 1)[1] = s[1]
        <5>1. 1 \in 0..Len(s) /\ 1 \in 1..1
          BY <3>1
        <5> QED BY <5>1, Stretch
      <4>3. SubSeq(e, 1, 1) = e
        BY <4>1, WholeStretch
      <4>4. \A i \in 1..1 : e[i] = SubSeq(s, 1, 1)[i]
        <5>1. \A i \in 1..1 : i = 1
          OBVIOUS
        <5> QED BY <5>1, <3>1, <4>1, <4>2
      <4>5. e = SubSeq(s, 1, 1)
        BY <4>1, <4>2, <4>4, SeqEqual
      <4>6. e # s
        BY <3>1, <4>1
      <4> QED BY <3>1, <3>3, <4>1, <4>3, <4>5, <4>6 DEF IsStrictPrefix, IsPrefix
    <3> QED BY <1>1, <3>2, <3>3 DEF Ports
  <2> QED BY <1>1, <2>1, <2>2, <2>3 DEF SerialTypeOK, Ports
<1>3. SerialInOrder
  BY <1>1 DEF SerialInOrder, In
<1>4. SerialSignalled
  <2> SUFFICES ASSUME port.rx # <<>>, "rx" \in port.mask, serialIsr = "out"
               PROVE  IF port.kind = "kvm" THEN edge ELSE port.line
    BY DEF SerialSignalled
  <2>1. CASE port.kind = "kvm"
    <3>1. port.iir = "rx" /\ port.line
      BY <1>1, <2>1 DEF LineFollows, KvmLine
    <3> QED BY <1>1, <2>1, <3>1 DEF EdgeHeld
  <2>2. CASE port.kind # "kvm"
    BY <1>1, <2>2 DEF LineFollows, Pl011Line
  <2> QED BY <2>1, <2>2
<1>5. NothingSwallowed
  <2>1. Len(SerialQuery) = 2
    BY DEF SerialQuery
  <2> QED BY <1>1, <2>1 DEF NothingSwallowed, Out
<1>6. AnswerWhole
  <2> SUFFICES ASSUME ~serial.torn, NEW n \in 1..Len(serial.read \o port.rx)
               PROVE  Cardinality({i \in 1..n : (serial.read \o port.rx)[i] = -1})
                        >= Cardinality({i \in 1..n : (serial.read \o port.rx)[i] = -2})
    BY DEF AnswerWhole
  <2>1. Whole(serial.read \o port.rx)
    BY <1>1 DEF In
  <2> QED BY <2>1 DEF Whole, Count, Places
<1> QED BY <1>2, <1>3, <1>4, <1>5, <1>6 DEF SerialExact

\* The serial line loses, reorders and invents nothing.
THEOREM SerialExactHolds == SerialSpec => []SerialExact
<1>1. SerialInit => SerialInv
  BY SerialAssumption, SerialInitInv
<1>2. SerialInv /\ [SerialNext]_serialVars => SerialInv'
  BY SerialAssumption, SerialStep
<1>3. SerialInv => SerialExact
  BY SerialAssumption, SerialInvExact
<1> QED BY <1>1, <1>2, <1>3, PTL DEF SerialSpec

-----------------------------------------------------------------------------
(***************************************************************************)
(* The frames of the network devices.  FramesKept asks of every frame that  *)
(* it is in one place; what is inductive is where those places lie: what    *)
(* the guest has got comes before what the device holds, that before what   *)
(* the host still has, each in order (Passing).  One frame then moves on,   *)
(* at the head of one queue, in every step that moves any, and two loops    *)
(* (flush_slirp_rx and the tap's poll_rx) are such steps repeated.          *)
(***************************************************************************)

\* What the fields of the device and of the host side hold.
Nics ==
  [kind : NicKinds, phase : {"new", "up", "failed", "stopping", "gone", "threw"}, pc : {"idle", "poll"},
   iter : Nat, capped : BOOLEAN, ready : BOOLEAN, last_avail : Nat, posted : Nat, used : Nat,
   int : BOOLEAN, line : BOOLEAN, frames : Seq(Nat), got : Seq(Nat), lost : SUBSET Nat, shorted : Nat,
   tx_last : Nat, tx_posted : Nat, tx_used : Nat]
Feeds ==
  [source : Seq(Nat), sent : Nat, reader : {"none", "read", "notify", "ended"}, done : BOOLEAN,
   pipe : Nat, pending : BOOLEAN, bound : SUBSET Nat]
NicDrivers ==
  [kick : BOOLEAN, tx_kick : BOOLEAN, isr : {"run", "ack", "look"}, seen : Nat, resets : Nat]

\* Frames on their way: what was delivered lies before what waits on the device,
\* that before what waits on the host, each in order; the rest is lost.
Rising(s) == \A i, j \in 1..Len(s) : i < j => s[i] < s[j]
Before(s, t) == \A x \in Elems(s), y \in Elems(t) : x < y
Passing(got, frames, source, lost, sent) ==
  /\ Rising(got) /\ Rising(frames) /\ Rising(source)
  /\ Before(got, frames) /\ Before(got, source) /\ Before(frames, source)
  /\ Elems(got) \cup Elems(frames) \cup Elems(source) \cup lost = 1..sent
  /\ \A f \in lost : f \notin Elems(got) /\ f \notin Elems(frames) /\ f \notin Elems(source)

\* What a device holds between two accesses to its fields, beside its types.
Sound(n) ==
  /\ n \in Nics
  /\ n.kind \in {"kvm_tap", "hvf_vmnet"} => n.frames = <<>>
  /\ n.kind = "kvm_slirp" => n.lost = {}
  /\ n.kind \in {"hvf_slirp", "hvf_socket", "hvf_vmnet"} /\ n.shorted = 0 => n.lost \subseteq BigFrames
  /\ ~n.ready => n.posted = 0
  /\ n.phase = "up" => n.tx_used = n.tx_last /\ n.tx_last <= n.tx_posted

HostInv(n, f) ==
  /\ f \in Feeds
  /\ n.kind \in {"kvm_slirp", "hvf_slirp"} => f.source = <<>>
  /\ f.reader \in {"read", "ended"} => n.kind = "hvf_socket"
  /\ f.reader = "notify" => n.kind \in {"hvf_socket", "hvf_vmnet"}
  /\ f.pending => f.pipe > 0
  /\ n.phase \in {"new", "stopping", "gone"} => f.bound = {}
  /\ n.phase = "new" => f.reader = "none"

\* A device that has not started holds nothing, and only HVF's poll is a loop.
Fresh == nic.phase = "new" => ~nic.ready /\ nic.used = 0 /\ nic.tx_used = 0 /\ nic.tx_last = 0 /\ nic.tx_posted = 0
Looping == nic.pc = "poll" => Hvf

FramesInv ==
  /\ Fresh /\ Looping /\ Sound(nic) /\ HostInv(nic, feed) /\ drv \in NicDrivers
  /\ Passing(nic.got, nic.frames, feed.source, nic.lost, feed.sent)
  /\ PollDue /\ NicSignalled /\ TxAnswered /\ NicReleased

-----------------------------------------------------------------------------
\* What a sequence of frames loses at its head.
LEMMA TailIs ==
  ASSUME NEW s \in Seq(Nat), s # <<>>
  PROVE  /\ Head(s) \in Nat /\ Tail(s) \in Seq(Nat) /\ Head(s) \in Elems(s) /\ Elems(Tail(s)) \subseteq Elems(s)
         /\ Elems(s) = {Head(s)} \cup Elems(Tail(s))
         /\ Rising(s) => Rising(Tail(s)) /\ \A y \in Elems(Tail(s)) : Head(s) < y
<1>1. /\ Len(s) \in Nat \ {0} /\ Head(s) = s[1] /\ Head(s) \in Nat /\ Tail(s) \in Seq(Nat)
      /\ Len(Tail(s)) = Len(s) - 1 /\ \A i \in 1..Len(s) : s[i] \in Nat
      /\ \A i \in 1..Len(s) - 1 : Tail(s)[i] = s[i+1]
  OBVIOUS
<1>2. DOMAIN s = 1..Len(s) /\ DOMAIN Tail(s) = 1..Len(s) - 1
  BY <1>1
<1>3. Elems(s) = {Head(s)} \cup Elems(Tail(s))
  <2>1. ASSUME NEW x \in Elems(s) PROVE x \in {Head(s)} \cup Elems(Tail(s))
    <3>1. PICK i \in 1..Len(s) : x = s[i]
      BY <1>2 DEF Elems
    <3>2. CASE i = 1
      BY <1>1, <3>1, <3>2
    <3>3. CASE i # 1
      <4>1. i - 1 \in 1..Len(s) - 1 /\ (i - 1) + 1 = i
        BY <1>1, <3>3
      <4>2. x = Tail(s)[i-1]
        BY <1>1, <3>1, <4>1
      <4> QED BY <1>2, <4>1, <4>2 DEF Elems
    <3> QED BY <3>2, <3>3
  <2>2. Head(s) \in Elems(s)
    BY <1>1, <1>2 DEF Elems
  <2>3. ASSUME NEW x \in Elems(Tail(s)) PROVE x \in Elems(s)
    <3>1. PICK i \in 1..Len(s) - 1 : x = Tail(s)[i]
      BY <1>2 DEF Elems
    <3>2. i + 1 \in 1..Len(s) /\ x = s[i+1]
      BY <1>1, <3>1
    <3> QED BY <1>2, <3>2 DEF Elems
  <2> QED BY <2>1, <2>2, <2>3
<1>4. ASSUME Rising(s) PROVE Rising(Tail(s)) /\ \A y \in Elems(Tail(s)) : Head(s) < y
  <2>1. ASSUME NEW i \in 1..Len(s) - 1, NEW j \in 1..Len(s) - 1, i < j PROVE Tail(s)[i] < Tail(s)[j]
    <3>1. i + 1 \in 1..Len(s) /\ j + 1 \in 1..Len(s) /\ i + 1 < j + 1
      BY <1>1, <2>1
    <3> QED BY <1>1, <1>4, <3>1 DEF Rising
  <2>2. ASSUME NEW y \in Elems(Tail(s)) PROVE Head(s) < y
    <3>1. PICK i \in 1..Len(s) - 1 : y = Tail(s)[i]
      BY <1>2 DEF Elems
    <3>2. 1 \in 1..Len(s) /\ i + 1 \in 1..Len(s) /\ 1 < i + 1
      BY <1>1
    <3>3. s[1] < s[i+1]
      BY <1>4, <3>2 DEF Rising
    <3> QED BY <1>1, <3>1, <3>3
  <2> QED BY <1>1, <2>1, <2>2 DEF Rising
<1> QED BY <1>1, <1>3, <1>4

\* What it gains at its end.
LEMMA AppendIs ==
  ASSUME NEW s \in Seq(Nat), NEW x \in Nat
  PROVE  /\ Append(s, x) \in Seq(Nat) /\ Append(s, x) # <<>> /\ Elems(Append(s, x)) = Elems(s) \cup {x}
         /\ Rising(s) /\ (\A y \in Elems(s) : y < x) => Rising(Append(s, x))
<1>1. /\ Append(s, x) \in Seq(Nat) /\ Len(s) \in Nat /\ Len(Append(s, x)) = Len(s) + 1
      /\ Append(s, x)[Len(s) + 1] = x /\ \A i \in 1..Len(s) : Append(s, x)[i] = s[i]
      /\ \A i \in 1..Len(s) : s[i] \in Nat
  OBVIOUS
<1>2. DOMAIN s = 1..Len(s) /\ DOMAIN Append(s, x) = 1..Len(s) + 1
  BY <1>1
<1>3. Append(s, x) # <<>>
  OBVIOUS
<1> DEFINE t == Append(s, x)
<1> HIDE DEF t
<1>4. Elems(t) = Elems(s) \cup {x}
  <2>1. \A i \in 1..Len(s) + 1 : i \in 1..Len(s) \/ i = Len(s) + 1
    BY <1>1
  <2>2. Len(s) + 1 \in 1..Len(s) + 1 /\ \A i \in 1..Len(s) : i \in 1..Len(s) + 1
    BY <1>1
  <2>3. t[Len(s) + 1] = x /\ (\A i \in 1..Len(s) : t[i] = s[i]) /\ DOMAIN t = 1..Len(s) + 1
    BY <1>1, <1>2 DEF t
  <2>4. ASSUME NEW y \in Elems(t) PROVE y \in Elems(s) \cup {x}
    <3>1. PICK i \in 1..Len(s) + 1 : y = t[i]
      BY <2>3 DEF Elems
    <3> QED BY <1>2, <2>1, <2>3, <3>1 DEF Elems
  <2>5. ASSUME NEW y \in Elems(s) PROVE y \in Elems(t)
    <3>1. PICK i \in 1..Len(s) : y = s[i]
      BY <1>2 DEF Elems
    <3> QED BY <2>2, <2>3, <3>1 DEF Elems
  <2>6. x \in Elems(t)
    BY <2>2, <2>3 DEF Elems
  <2> QED BY <2>4, <2>5, <2>6
<1>5. ASSUME Rising(s), \A y \in Elems(s) : y < x PROVE Rising(t)
  <2>1. SUFFICES ASSUME NEW i \in 1..Len(s) + 1, NEW j \in 1..Len(s) + 1, i < j PROVE t[i] < t[j]
    BY <1>1 DEF Rising, t
  <2>2. i \in 1..Len(s) /\ t[i] = s[i] /\ s[i] \in Elems(s)
    BY <1>1, <1>2, <2>1 DEF Elems, t
  <2>3. CASE j = Len(s) + 1
    BY <1>1, <1>5, <2>2, <2>3 DEF t
  <2>4. CASE j # Len(s) + 1
    <3>1. j \in 1..Len(s) /\ t[j] = s[j]
      BY <1>1, <2>4 DEF t
    <3> QED BY <1>5, <2>1, <2>2, <3>1 DEF Rising
  <2> QED BY <2>3, <2>4
<1> QED BY <1>1, <1>3, <1>4, <1>5 DEF t

\* Nothing holds no frame.
LEMMA EmptyIs == Elems(<<>>) = {} /\ Rising(<<>>) /\ <<>> \in Seq(Nat)
BY DEF Elems, Rising

\* The next frame moves on, from the device to the guest,
LEMMA PassToGuest ==
  ASSUME NEW g \in Seq(Nat), NEW w \in Seq(Nat), NEW h \in Seq(Nat), NEW l, NEW n \in Nat,
         Passing(g, w, h, l, n), w # <<>>
  PROVE  Passing(Append(g, Head(w)), Tail(w), h, l, n)
<1> DEFINE x == Head(w)
           t == Tail(w)
           a == Append(g, x)
<1>1. /\ x \in Nat /\ t \in Seq(Nat) /\ Elems(w) = {x} \cup Elems(t)
      /\ Rising(t) /\ \A y \in Elems(t) : x < y
  BY TailIs DEF Passing
<1>2. x \in Elems(w) /\ \A y \in Elems(g) : y < x
  BY <1>1 DEF Passing, Before
<1>3. a \in Seq(Nat) /\ Elems(a) = Elems(g) \cup {x} /\ Rising(a)
  <2> HIDE DEF x
  <2> QED BY <1>1, <1>2, AppendIs DEF Passing
<1> HIDE DEF x, t, a
<1>4. Before(a, t) /\ Before(a, h) /\ Before(t, h)
  BY <1>1, <1>2, <1>3 DEF Passing, Before
<1>5. Elems(a) \cup Elems(t) \cup Elems(h) \cup l = 1..n
  BY <1>1, <1>3 DEF Passing
<1>6. \A f \in l : f \notin Elems(a) /\ f \notin Elems(t) /\ f \notin Elems(h)
  BY <1>1, <1>2, <1>3 DEF Passing
<1>7. Passing(a, t, h, l, n)
  BY <1>1, <1>3, <1>4, <1>5, <1>6 DEF Passing
<1> QED BY <1>7 DEF a, t, x

\* from the host to the device,
LEMMA PassToDevice ==
  ASSUME NEW g \in Seq(Nat), NEW w \in Seq(Nat), NEW h \in Seq(Nat), NEW l, NEW n \in Nat,
         Passing(g, w, h, l, n), h # <<>>
  PROVE  Passing(g, Append(w, Head(h)), Tail(h), l, n)
<1> DEFINE x == Head(h)
           t == Tail(h)
           a == Append(w, x)
<1>1. /\ x \in Nat /\ t \in Seq(Nat) /\ Elems(h) = {x} \cup Elems(t)
      /\ Rising(t) /\ \A y \in Elems(t) : x < y
  BY TailIs DEF Passing
<1>2. x \in Elems(h) /\ (\A y \in Elems(w) : y < x) /\ (\A y \in Elems(g) : y < x)
  BY <1>1 DEF Passing, Before
<1>3. a \in Seq(Nat) /\ Elems(a) = Elems(w) \cup {x} /\ Rising(a)
  <2> HIDE DEF x
  <2> QED BY <1>1, <1>2, AppendIs DEF Passing
<1> HIDE DEF x, t, a
<1>4. Before(g, a) /\ Before(g, t) /\ Before(a, t)
  BY <1>1, <1>2, <1>3 DEF Passing, Before
<1>5. Elems(g) \cup Elems(a) \cup Elems(t) \cup l = 1..n
  BY <1>1, <1>3 DEF Passing
<1>6. \A f \in l : f \notin Elems(g) /\ f \notin Elems(a) /\ f \notin Elems(t)
  BY <1>1, <1>2, <1>3 DEF Passing
<1>7. Passing(g, a, t, l, n)
  BY <1>1, <1>3, <1>4, <1>5, <1>6 DEF Passing
<1> QED BY <1>7 DEF a, t, x

\* and from the host to the guest at once.
LEMMA PassThrough ==
  ASSUME NEW g \in Seq(Nat), NEW h \in Seq(Nat), NEW l, NEW n \in Nat,
         Passing(g, <<>>, h, l, n), h # <<>>
  PROVE  Passing(Append(g, Head(h)), <<>>, Tail(h), l, n)
<1> DEFINE w == Append(<<>>, Head(h))
<1>1. Head(h) \in Nat /\ Tail(h) \in Seq(Nat)
  BY TailIs
<1>2. w \in Seq(Nat) /\ w # <<>> /\ Head(w) = Head(h) /\ Tail(w) = <<>> /\ <<>> \in Seq(Nat)
  BY <1>1
<1>3. Passing(g, w, Tail(h), l, n)
  BY <1>2, PassToDevice
<1> HIDE DEF w
<1> QED BY <1>1, <1>2, <1>3, PassToGuest

\* A frame is dropped by the device,
LEMMA DropWaiting ==
  ASSUME NEW g \in Seq(Nat), NEW w \in Seq(Nat), NEW h \in Seq(Nat), NEW l, NEW n \in Nat,
         Passing(g, w, h, l, n), w # <<>>
  PROVE  Passing(g, Tail(w), h, l \cup {Head(w)}, n)
<1> DEFINE x == Head(w)
           t == Tail(w)
<1>1. /\ x \in Nat /\ t \in Seq(Nat) /\ Elems(w) = {x} \cup Elems(t)
      /\ Rising(t) /\ \A y \in Elems(t) : x < y
  BY TailIs DEF Passing
<1>2. (\A y \in Elems(g) : y < x /\ y \in Nat) /\ (\A y \in Elems(h) : x < y)
  <2>1. \A y \in Elems(g) : y \in Nat
    BY DEF Elems
  <2> QED BY <1>1, <2>1 DEF Passing, Before
<1>3. x \notin Elems(g) /\ x \notin Elems(t) /\ x \notin Elems(h)
  BY <1>1, <1>2
<1> HIDE DEF x, t
<1>4. Before(g, t) /\ Before(g, h) /\ Before(t, h)
  BY <1>1 DEF Passing, Before
<1>5. Elems(g) \cup Elems(t) \cup Elems(h) \cup (l \cup {x}) = 1..n
  BY <1>1 DEF Passing
<1>6. \A f \in l \cup {x} : f \notin Elems(g) /\ f \notin Elems(t) /\ f \notin Elems(h)
  BY <1>1, <1>3 DEF Passing
<1>7. Passing(g, t, h, l \cup {x}, n)
  BY <1>1, <1>4, <1>5, <1>6 DEF Passing
<1> QED BY <1>7 DEF t, x

\* or on its way to the guest,
LEMMA DropPassing ==
  ASSUME NEW g \in Seq(Nat), NEW h \in Seq(Nat), NEW l, NEW n \in Nat,
         Passing(g, <<>>, h, l, n), h # <<>>
  PROVE  Passing(g, <<>>, Tail(h), l \cup {Head(h)}, n)
<1> DEFINE w == Append(<<>>, Head(h))
<1>1. Head(h) \in Nat /\ Tail(h) \in Seq(Nat)
  BY TailIs
<1>2. w \in Seq(Nat) /\ w # <<>> /\ Head(w) = Head(h) /\ Tail(w) = <<>> /\ <<>> \in Seq(Nat)
  BY <1>1
<1>3. Passing(g, w, Tail(h), l, n)
  BY <1>2, PassToDevice
<1> HIDE DEF w
<1> QED BY <1>1, <1>2, <1>3, DropWaiting

\* or all that wait with the host are.
LEMMA DropAll ==
  ASSUME NEW g \in Seq(Nat), NEW w \in Seq(Nat), NEW h \in Seq(Nat), NEW l, NEW n \in Nat,
         Passing(g, w, h, l, n)
  PROVE  Passing(g, w, <<>>, l \cup Elems(h), n)
<1>1. (\A y \in Elems(g) : y \in Nat) /\ (\A y \in Elems(w) : y \in Nat)
  BY DEF Elems
<1>2. \A y \in Elems(h) : y \notin Elems(g) /\ y \notin Elems(w)
  BY <1>1 DEF Passing, Before
<1>3. Before(g, <<>>) /\ Before(w, <<>>)
  BY EmptyIs DEF Before
<1>4. Elems(g) \cup Elems(w) \cup Elems(<<>>) \cup (l \cup Elems(h)) = 1..n
  BY EmptyIs DEF Passing
<1>5. \A f \in l \cup Elems(h) : f \notin Elems(g) /\ f \notin Elems(w) /\ f \notin Elems(<<>>)
  BY <1>2, EmptyIs DEF Passing
<1> QED BY <1>3, <1>4, <1>5, EmptyIs DEF Passing

\* A new frame waits with the host,
LEMMA NewPassing ==
  ASSUME NEW g \in Seq(Nat), NEW w \in Seq(Nat), NEW h \in Seq(Nat), NEW l, NEW n \in Nat,
         Passing(g, w, h, l, n)
  PROVE  Passing(g, w, Append(h, n + 1), l, n + 1)
<1> DEFINE x == n + 1
           a == Append(h, x)
<1>1. x \in Nat /\ 1..x = 1..n \cup {x} /\ x \notin 1..n /\ \A y \in 1..n : y < x
  OBVIOUS
<1> HIDE DEF x
<1>2. (\A y \in Elems(h) : y < x) /\ (\A y \in Elems(g) : y < x) /\ (\A y \in Elems(w) : y < x)
  BY <1>1 DEF Passing
<1>3. a \in Seq(Nat) /\ Elems(a) = Elems(h) \cup {x} /\ Rising(a)
  BY <1>1, <1>2, AppendIs DEF Passing
<1> HIDE DEF a
<1>4. Before(g, a) /\ Before(w, a)
  BY <1>2, <1>3 DEF Passing, Before
<1>5. Elems(g) \cup Elems(w) \cup Elems(a) \cup l = 1..x
  BY <1>1, <1>3 DEF Passing
<1>6. \A f \in l : f \notin Elems(a)
  <2>1. l \subseteq 1..n /\ \A f \in l : f \notin Elems(h)
    BY DEF Passing
  <2>2. x \notin l
    BY <1>1, <2>1
  <2> QED BY <1>3, <2>1, <2>2
<1>7. Passing(g, w, a, l, x)
  BY <1>3, <1>4, <1>5, <1>6 DEF Passing
<1> QED BY <1>7 DEF a, x

\* or with a device that takes it at once.
LEMMA NewWaiting ==
  ASSUME NEW g \in Seq(Nat), NEW w \in Seq(Nat), NEW l, NEW n \in Nat,
         Passing(g, w, <<>>, l, n)
  PROVE  Passing(g, Append(w, n + 1), <<>>, l, n + 1)
<1> DEFINE h == Append(<<>>, n + 1)
<1>1. h \in Seq(Nat) /\ h # <<>> /\ Head(h) = n + 1 /\ Tail(h) = <<>> /\ <<>> \in Seq(Nat)
  OBVIOUS
<1>2. Passing(g, w, h, l, n + 1)
  BY <1>1, NewPassing
<1> HIDE DEF h
<1>3. Passing(g, Append(w, Head(h)), Tail(h), l, n + 1)
  <2> DEFINE m == n + 1
  <2>1. m \in Nat
    OBVIOUS
  <2>2. Passing(g, w, h, l, m)
    BY <1>2
  <2> HIDE DEF m
  <2>3. Passing(g, Append(w, Head(h)), Tail(h), l, m)
    BY <1>1, <2>1, <2>2, PassToDevice
  <2> QED BY <2>3 DEF m
<1> QED BY <1>1, <1>3

-----------------------------------------------------------------------------
\* What receiving leaves alone, and that a used buffer raises the line.
Announced(m, n) ==
  /\ m.kind = n.kind /\ m.phase = n.phase /\ m.pc = n.pc /\ m.ready = n.ready /\ m.posted = n.posted
  /\ m.tx_last = n.tx_last /\ m.tx_posted = n.tx_posted /\ m.tx_used = n.tx_used
  /\ m.used >= n.used /\ (m.used # n.used => m.line) /\ (n.line => m.line)

\* A buffer that is too short is taken and holds nothing.
LEMMA TakeIs ==
  ASSUME NEW n \in Nics, ~Suffices(n)
  PROVE  /\ Take(n) \in Nics /\ Announced(Take(n), n)
         /\ Take(n).got = n.got /\ Take(n).frames = n.frames /\ Take(n).lost = n.lost
         /\ Take(n).shorted = n.shorted + 1
<1>1. Take(n) \in Nics
  <2>1. n.last_avail + 1 \in Nat /\ n.shorted + 1 \in Nat
    BY DEF Nics
  <2>2. Take(n) = [n EXCEPT !.last_avail = n.last_avail + 1, !.shorted = n.shorted + 1]
    BY DEF Take, Nics
  <2> QED BY <2>1, <2>2 DEF Nics
<1>2. Announced(Take(n), n)
  BY DEF Take, Nics, Announced
<1>3. Take(n).got = n.got /\ Take(n).frames = n.frames /\ Take(n).lost = n.lost
  BY DEF Take, Nics
<1>4. Take(n).shorted = n.shorted + 1
  BY DEF Take, Nics
<1> QED BY <1>1, <1>2, <1>3, <1>4

\* A frame that fits is delivered and signalled.
LEMMA InjectIs ==
  ASSUME NEW n \in Nics, NEW f \in Nat, Suffices(n)
  PROVE  LET m == kvm_inject_rx_frame(n, f)
         IN  /\ m \in Nics /\ Announced(m, n)
             /\ m.got = Append(n.got, f) /\ m.frames = n.frames /\ m.lost = n.lost /\ m.shorted = n.shorted
<1>1. n.got \in Seq(Nat) /\ n.used \in Nat
  BY DEF Nics
<1>2. Append(n.got, f) \in Seq(Nat)
  BY <1>1
<1> DEFINE g == Append(n.got, f)
<1>3. kvm_inject_rx_frame(n, f) =
        [n EXCEPT !.last_avail = n.last_avail + 1, !.shorted = n.shorted, !.used = n.used + 1, !.got = g,
                  !.int = TRUE, !.line = TRUE]
  BY DEF kvm_inject_rx_frame, signal_queue, Take, Nics
<1> HIDE DEF g
<1>4. g \in Seq(Nat)
  BY <1>2 DEF g
<1>5. n.last_avail + 1 \in Nat /\ n.used + 1 \in Nat
  BY DEF Nics
<1> DEFINE m == [n EXCEPT !.last_avail = n.last_avail + 1, !.shorted = n.shorted, !.used = n.used + 1,
                          !.got = g, !.int = TRUE, !.line = TRUE]
<1>6. m \in Nics
  BY <1>4, <1>5 DEF Nics
<1>7. Announced(m, n)
  BY <1>1 DEF Nics, Announced
<1>8. m.got = g /\ m.frames = n.frames /\ m.lost = n.lost /\ m.shorted = n.shorted
  BY DEF Nics
<1> HIDE DEF m
<1>9. kvm_inject_rx_frame(n, f) = m
  BY <1>3 DEF m
<1> HIDE DEF kvm_inject_rx_frame
<1> QED BY <1>6, <1>7, <1>8, <1>9 DEF g

\* HVF delivers a frame, takes a buffer too short for it, or throws.
LEMMA HvfInjectIs ==
  ASSUME NEW n \in Nics, NEW f \in Nat
  PROVE  LET m == hvf_inject_rx_frame(n, f)
         IN  /\ m \in Nics /\ m.frames = n.frames /\ m.kind = n.kind /\ m.pc = n.pc
             /\ m.ready = n.ready /\ m.posted = n.posted /\ m.shorted >= n.shorted
             /\ \/ m.phase = "threw" /\ f \in BigFrames /\ m.got = n.got /\ m.lost = n.lost \cup {f}
                \/ Announced(m, n) /\ m.got = Append(n.got, f) /\ m.lost = n.lost
                \/ Announced(m, n) /\ m.got = n.got /\ m.lost = n.lost \cup {f} /\ m.shorted > 0
<1>1. CASE f \in BigFrames
  <2> DEFINE m == [n EXCEPT !.phase = "threw", !.lost = n.lost \cup {f}]
  <2>1. n.lost \cup {f} \in SUBSET Nat
    BY DEF Nics
  <2>2. m \in Nics
    <3> DEFINE l == n.lost \cup {f}
    <3> HIDE DEF l
    <3> QED BY <2>1 DEF Nics, l
  <2>3. /\ m.frames = n.frames /\ m.kind = n.kind /\ m.pc = n.pc /\ m.ready = n.ready
        /\ m.posted = n.posted /\ m.shorted = n.shorted
    BY DEF Nics
  <2>4. m.phase = "threw" /\ m.got = n.got /\ m.lost = n.lost \cup {f}
    BY DEF Nics
  <2>5. hvf_inject_rx_frame(n, f) = m
    BY <1>1 DEF hvf_inject_rx_frame
  <2>6. n.shorted \in Nat
    BY DEF Nics
  <2> HIDE DEF m, hvf_inject_rx_frame
  <2> QED BY <1>1, <2>2, <2>3, <2>4, <2>5, <2>6
<1>2. CASE f \notin BigFrames /\ Suffices(n)
  <2>1. hvf_inject_rx_frame(n, f) = kvm_inject_rx_frame(n, f)
    BY <1>2 DEF hvf_inject_rx_frame, kvm_inject_rx_frame, signal_net, signal_queue
  <2> HIDE DEF hvf_inject_rx_frame, kvm_inject_rx_frame
  <2>2. n.shorted \in Nat
    BY DEF Nics
  <2> QED BY <1>2, <2>1, <2>2, InjectIs DEF Announced
<1>3. CASE f \notin BigFrames /\ ~Suffices(n)
  <2>1. hvf_inject_rx_frame(n, f) = [Take(n) EXCEPT !.lost = n.lost \cup {f}]
    <3>1. Take(n).lost = n.lost
      BY <1>3, TakeIs
    <3> QED BY <1>3, <3>1 DEF hvf_inject_rx_frame
  <2>2. /\ Take(n) \in Nics /\ Announced(Take(n), n)
        /\ Take(n).got = n.got /\ Take(n).frames = n.frames /\ Take(n).lost = n.lost
        /\ Take(n).shorted = n.shorted + 1
    BY <1>3, TakeIs
  <2> HIDE DEF Take
  <2>3. n.shorted \in Nat /\ n.lost \subseteq Nat
    BY DEF Nics
  <2> DEFINE t == Take(n)
             l == n.lost \cup {f}
             m == [t EXCEPT !.lost = l]
  <2>4. l \in SUBSET Nat
    BY <2>3
  <2> HIDE DEF l
  <2>5. t \in Nics
    BY <2>2
  <2> HIDE DEF t
  <2>6. m \in Nics
    BY <2>4, <2>5 DEF Nics
  <2>7. Announced(m, t)
    BY <2>5 DEF Nics, Announced
  <2>8. m.lost = l /\ m.got = t.got /\ m.frames = t.frames /\ m.shorted = t.shorted
    BY <2>5 DEF Nics
  <2> HIDE DEF m
  <2>9. hvf_inject_rx_frame(n, f) = m /\ t.shorted = n.shorted + 1 /\ Announced(t, n)
    BY <2>1, <2>2 DEF m, t, l
  <2>10. t.used \in Nat /\ n.used \in Nat /\ m.used \in Nat
    BY <2>5, <2>6 DEF Nics
  <2>11. Announced(m, n)
    BY <2>7, <2>9, <2>10 DEF Announced
  <2>12. t.got = n.got /\ t.frames = n.frames
    BY <2>2 DEF t
  <2> HIDE DEF hvf_inject_rx_frame
  <2>13. m.kind = n.kind /\ m.pc = n.pc /\ m.ready = n.ready /\ m.posted = n.posted
    BY <2>11 DEF Announced
  <2> QED BY <2>3, <2>6, <2>8, <2>9, <2>11, <2>12, <2>13 DEF l
<1> QED BY <1>1, <1>2, <1>3

\* A device that has received since it was n, with h on the host's side.
Receiving(m, n, h, s) == Sound(m) /\ Announced(m, n) /\ Passing(m.got, m.frames, h, m.lost, s)

\* The parts of it.
LEMMA ReceivingIs ==
  ASSUME NEW m, NEW n, NEW h, NEW s, Receiving(m, n, h, s)
  PROVE  /\ m \in Nics /\ m.frames \in Seq(Nat) /\ m.got \in Seq(Nat) /\ m.lost \subseteq Nat /\ m.kind = n.kind
         /\ m.phase = n.phase /\ m.ready = n.ready /\ m.posted = n.posted
         /\ m.used \in Nat /\ m.shorted \in Nat
<1>1. m \in Nics /\ Announced(m, n)
  BY DEF Receiving, Sound
<1>2. m.frames \in Seq(Nat) /\ m.got \in Seq(Nat) /\ m.lost \subseteq Nat /\ m.used \in Nat /\ m.shorted \in Nat
  BY <1>1 DEF Nics
<1> QED BY <1>1, <1>2 DEF Announced

\* It receives more, and announces what it has used since.
LEMMA ReceivesMore ==
  ASSUME NEW n \in Nics, NEW y, NEW h, NEW s, Receiving(y, n, h, s),
         NEW m \in Nics, NEW j, Announced(m, y), Passing(m.got, m.frames, j, m.lost, s),
         m.kind \in {"kvm_tap", "hvf_vmnet"} => m.frames = <<>>,
         m.kind = "kvm_slirp" => m.lost = y.lost,
         m.kind \in {"hvf_slirp", "hvf_socket", "hvf_vmnet"} => m.shorted > 0 \/ (m.lost = y.lost /\ m.shorted = y.shorted)
  PROVE  Receiving(m, n, j, s)
<1>1. y \in Nics /\ Announced(y, n) /\ Sound(y)
  BY DEF Receiving, Sound
<1>2. m.used \in Nat /\ y.used \in Nat /\ n.used \in Nat
  BY <1>1 DEF Nics
<1>3. Announced(m, n)
  BY <1>1, <1>2 DEF Announced
<1>4. Sound(m)
  BY <1>1 DEF Sound, Announced
<1> QED BY <1>3, <1>4 DEF Receiving

\* What one turn of flush_slirp_rx does.
FlushTurn(x) ==
  IF ~x.more \/ ~has_rx_buffer(x.n) THEN [x EXCEPT !.more = FALSE]
  ELSE IF ~Suffices(x.n) THEN [n |-> Take(x.n), more |-> FALSE]
  ELSE [n |-> [kvm_inject_rx_frame(x.n, Head(x.n.frames)) EXCEPT !.frames = Tail(@)], more |-> TRUE]

\* It moves the next frame on.
LEMMA FlushTurnKeeps ==
  ASSUME NEW n \in Nics, n.kind = "kvm_slirp", NEW h \in Seq(Nat), NEW s \in Nat, NEW y, NEW more \in BOOLEAN,
         Receiving(y, n, h, s), more => y.frames # <<>>
  PROVE  \E z : \E b \in BOOLEAN :
           /\ FlushTurn([n |-> y, more |-> more]) = [n |-> z, more |-> b] /\ Receiving(z, n, h, s)
           /\ b => more /\ z.frames = Tail(y.frames)
<1>1. /\ y \in Nics /\ y.frames \in Seq(Nat) /\ y.got \in Seq(Nat) /\ y.kind = "kvm_slirp"
      /\ Passing(y.got, y.frames, h, y.lost, s)
  BY ReceivingIs DEF Receiving
<1>2. CASE ~more \/ ~has_rx_buffer(y)
  <2>1. FlushTurn([n |-> y, more |-> more]) = [n |-> y, more |-> FALSE]
    BY <1>2 DEF FlushTurn
  <2> QED BY <2>1
<1>3. CASE more /\ has_rx_buffer(y) /\ ~Suffices(y)
  <2> DEFINE z == Take(y)
  <2>1. FlushTurn([n |-> y, more |-> more]) = [n |-> z, more |-> FALSE]
    BY <1>3 DEF FlushTurn
  <2>2. z \in Nics /\ Announced(z, y) /\ z.got = y.got /\ z.frames = y.frames /\ z.lost = y.lost
    BY <1>1, <1>3, TakeIs
  <2> HIDE DEF z
  <2>3. z.kind = "kvm_slirp"
    BY <1>1, <2>2 DEF Announced
  <2>4. Receiving(z, n, h, s)
    BY <1>1, <2>2, <2>3, ReceivesMore
  <2> QED BY <2>1, <2>4
<1>4. CASE more /\ has_rx_buffer(y) /\ Suffices(y)
  <2> DEFINE q == Head(y.frames)
             t == Tail(y.frames)
             m == kvm_inject_rx_frame(y, q)
             z == [m EXCEPT !.frames = t]
  <2>1. y.frames # <<>>
    BY <1>4
  <2>2. q \in Nat /\ t \in Seq(Nat)
    BY <1>1, <2>1
  <2>3. Passing(Append(y.got, q), t, h, y.lost, s)
    BY <1>1, <2>1, PassToGuest, ReceivingIs
  <2> HIDE DEF q, t
  <2>4. m \in Nics /\ Announced(m, y) /\ m.got = Append(y.got, q) /\ m.frames = y.frames /\ m.lost = y.lost
    BY <1>1, <1>4, <2>2, InjectIs
  <2>5. FlushTurn([n |-> y, more |-> more]) = [n |-> z, more |-> TRUE]
    <3>1. FlushTurn([n |-> y, more |-> more]) = [n |-> [m EXCEPT !.frames = Tail(@)], more |-> TRUE]
      BY <1>4 DEF FlushTurn, q
    <3> HIDE DEF m
    <3> QED BY <2>4, <3>1 DEF t
  <2> HIDE DEF m
  <2>6. z \in Nics
    BY <2>2, <2>4 DEF Nics
  <2>7. Announced(z, m)
    BY <2>4 DEF Nics, Announced
  <2>8. z.got = m.got /\ z.lost = m.lost /\ z.frames = t
    BY <2>4 DEF Nics
  <2> HIDE DEF z
  <2>9. y.used \in Nat /\ m.used \in Nat /\ z.used \in Nat
    BY <1>1, <2>4, <2>6 DEF Nics
  <2>10. Announced(z, y)
    BY <2>4, <2>7, <2>9 DEF Announced
  <2>11. z.kind = "kvm_slirp"
    BY <1>1, <2>10 DEF Announced
  <2>12. Receiving(z, n, h, s)
    BY <1>1, <2>3, <2>4, <2>6, <2>8, <2>10, <2>11, ReceivesMore
  <2> QED BY <1>4, <2>5, <2>8, <2>12 DEF t
<1> QED BY <1>2, <1>3, <1>4

\* flush_slirp_rx moves frames on, in order.
LEMMA FlushKeeps ==
  ASSUME NEW n \in Nics, n.kind = "kvm_slirp", NEW h \in Seq(Nat), NEW s \in Nat, Receiving(n, n, h, s)
  PROVE  Receiving(flush_slirp_rx(n), n, h, s)
<1> DEFINE N == Len(n.frames)
           v == [n |-> n, more |-> TRUE]
           Body(at, i) == IF i = 0 THEN v ELSE FlushTurn(at[i - 1])
           f == CHOOSE at : at = [i \in 0..N |-> Body(at, i)]
           X == {m \in 0..N : \E at : at = [i \in 0..m |-> Body(at, i)]}
           Y == {i \in 0..N : \E y : \E more \in BOOLEAN :
                                /\ f[i] = [n |-> y, more |-> more] /\ Receiving(y, n, h, s)
                                /\ more => Len(y.frames) = N - i}
<1>0. n.frames \in Seq(Nat) /\ N \in Nat
  BY DEF Nics
<1>1. flush_slirp_rx(n) = f[N].n
  BY DEF flush_slirp_rx, FlushTurn
<1> HIDE DEF N, FlushTurn
<1>b. \A at : Body(at, 0) = v /\ \A k \in 1..N : Body(at, k) = FlushTurn(at[k - 1])
  BY <1>0
<1>c. \A k \in 1..N : \A at, e : at[k - 1] = e[k - 1] => Body(at, k) = Body(e, k)
  BY <1>0
<1> HIDE DEF Body, v
<1>2. N \in X
  <2>1. 0 \in X
    <3> DEFINE at == [j \in 0..0 |-> v]
    <3>1. \A i \in 0..0 : at[i] = Body(at, i)
      <4>1. \A i \in 0..0 : i = 0 /\ at[i] = v
        OBVIOUS
      <4> HIDE DEF at
      <4> QED BY <1>b, <4>1
    <3>2. at = [i \in 0..0 |-> at[i]]
      OBVIOUS
    <3> HIDE DEF at
    <3>3. at = [i \in 0..0 |-> Body(at, i)]
      BY <3>1, <3>2
    <3> QED BY <1>0, <3>3
  <2>2. ASSUME NEW k \in 1..N, k - 1 \in X PROVE k \in X
    <3>1. PICK at : at = [i \in 0..k - 1 |-> Body(at, i)]
      BY <2>2
    <3> DEFINE e == [i \in 0..k |-> IF i = k THEN Body(at, k) ELSE at[i]]
    <3>2. \A i \in 0..k : e[i] = Body(e, i)
      <4> SUFFICES ASSUME NEW i \in 0..k PROVE e[i] = Body(e, i)
        OBVIOUS
      <4>1. CASE i = k
        <5>1. k - 1 \in 0..k /\ k - 1 # k /\ k \in 0..k
          BY <1>0
        <5>2. e[k] = Body(at, k) /\ e[k - 1] = at[k - 1]
          BY <5>1
        <5> HIDE DEF e
        <5> QED BY <1>c, <4>1, <5>2
      <4>2. CASE i # k
        <5>1. i \in 0..k - 1 /\ e[i] = at[i]
          BY <1>0, <4>2
        <5>2. at[i] = Body(at, i)
          BY <3>1, <5>1
        <5>3. CASE i = 0
          BY <1>b, <5>1, <5>2, <5>3
        <5>4. CASE i # 0
          <6>1. i \in 1..N /\ i - 1 \in 0..k /\ i - 1 # k
            BY <1>0, <5>1, <5>4
          <6>2. e[i - 1] = at[i - 1]
            BY <6>1
          <6> HIDE DEF e
          <6> QED BY <1>c, <5>1, <5>2, <6>1, <6>2
        <5> QED BY <5>3, <5>4
      <4> QED BY <4>1, <4>2
    <3>3. e = [i \in 0..k |-> e[i]]
      OBVIOUS
    <3> HIDE DEF e
    <3>4. e = [i \in 0..k |-> Body(e, i)]
      BY <3>2, <3>3
    <3>5. k \in 0..N
      BY <1>0
    <3> QED BY <3>4, <3>5
  <2> HIDE DEF X
  <2>3. \A k \in 0..N : k \in X
    BY <1>0, <2>1, <2>2, IntervalInduction
  <2> QED BY <1>0, <2>3
<1>3. f = [i \in 0..N |-> Body(f, i)]
  BY <1>2
<1> HIDE DEF f
<1>4. f[0] = v /\ \A k \in 1..N : f[k] = FlushTurn(f[k - 1])
  <2>1. \A k \in 0..N : f[k] = Body(f, k)
    BY <1>3
  <2> QED BY <1>0, <1>b, <2>1
<1>5. N \in Y
  <2>1. 0 \in Y
    <3>1. N = N - 0
      BY <1>0
    <3>2. f[0] = [n |-> n, more |-> TRUE] /\ Len(n.frames) = N
      BY <1>4 DEF v, N
    <3>3. 0 \in 0..N
      BY <1>0
    <3> HIDE DEF N
    <3> QED BY <3>1, <3>2, <3>3
  <2>2. ASSUME NEW k \in 1..N, k - 1 \in Y PROVE k \in Y
    <3>1. PICK y : \E more \in BOOLEAN :
            /\ f[k - 1] = [n |-> y, more |-> more] /\ Receiving(y, n, h, s)
            /\ more => Len(y.frames) = N - (k - 1)
      BY <2>2
    <3>p. PICK more \in BOOLEAN :
            /\ f[k - 1] = [n |-> y, more |-> more] /\ Receiving(y, n, h, s)
            /\ more => Len(y.frames) = N - (k - 1)
      BY <3>1
    <3>2. y.frames \in Seq(Nat) /\ (more => y.frames # <<>> /\ Len(Tail(y.frames)) = N - k)
      <4>1. y.frames \in Seq(Nat)
        BY <3>p, ReceivingIs
      <4>2. more => Len(y.frames) = N - (k - 1) /\ N - (k - 1) >= 1
        BY <1>0, <3>p
      <4> DEFINE q == y.frames
      <4> HIDE DEF q
      <4>3. \A l \in Nat : q \in Seq(Nat) /\ Len(q) = l /\ l >= 1 => q # <<>> /\ Len(Tail(q)) = l - 1
        OBVIOUS
      <4> QED BY <1>0, <4>1, <4>2, <4>3 DEF q
    <3>3. PICK z : \E b \in BOOLEAN :
           /\ FlushTurn([n |-> y, more |-> more]) = [n |-> z, more |-> b] /\ Receiving(z, n, h, s)
           /\ b => more /\ z.frames = Tail(y.frames)
      BY <3>p, <3>2, FlushTurnKeeps
    <3>q. PICK b \in BOOLEAN :
           /\ FlushTurn([n |-> y, more |-> more]) = [n |-> z, more |-> b] /\ Receiving(z, n, h, s)
           /\ b => more /\ z.frames = Tail(y.frames)
      BY <3>3
    <3>4. f[k] = [n |-> z, more |-> b]
      BY <1>4, <3>p, <3>q
    <3>5. k \in 0..N
      BY <1>0
    <3> QED BY <3>2, <3>q, <3>4, <3>5
  <2> HIDE DEF Y
  <2>3. \A k \in 0..N : k \in Y
    BY <1>0, <2>1, <2>2, IntervalInduction
  <2> QED BY <1>0, <2>3
<1>6. PICK y : \E more \in BOOLEAN : f[N] = [n |-> y, more |-> more] /\ Receiving(y, n, h, s)
  BY <1>5
<1> QED BY <1>1, <1>6

\* What one turn of the tap's poll_rx does.
TapTurn(x) ==
  IF ~has_rx_buffer(x.n) \/ x.src = <<>> THEN x
  ELSE [n |-> IF Suffices(x.n) THEN kvm_inject_rx_frame(x.n, Head(x.src))
              ELSE [Take(x.n) EXCEPT !.lost = @ \cup {Head(x.src)}],
        src |-> Tail(x.src)]

\* It delivers the next frame, or drops it with a buffer that is too short.
LEMMA TapTurnKeeps ==
  ASSUME NEW y \in Nics, NEW h \in Seq(Nat)
  PROVE  \E z \in Nics : \E j \in Seq(Nat) :
           /\ TapTurn([n |-> y, src |-> h]) = [n |-> z, src |-> j]
           /\ \A n \in Nics : \A s \in Nat : n.kind = "kvm_tap" /\ Receiving(y, n, h, s) => Receiving(z, n, j, s)
<1>1. CASE ~has_rx_buffer(y) \/ h = <<>>
  <2>1. TapTurn([n |-> y, src |-> h]) = [n |-> y, src |-> h]
    BY <1>1 DEF TapTurn
  <2> QED BY <2>1
<1>2. CASE has_rx_buffer(y) /\ h # <<>>
  <2> DEFINE q == Head(h)
             t == Tail(h)
  <2>1. q \in Nat /\ t \in Seq(Nat)
    BY <1>2
  <2>2. \A g \in Seq(Nat) : \A l : \A s \in Nat : Passing(g, <<>>, h, l, s) =>
            Passing(Append(g, q), <<>>, t, l, s) /\ Passing(g, <<>>, t, l \cup {q}, s)
    BY <1>2, PassThrough, DropPassing
  <2>3. CASE Suffices(y)
    <3> DEFINE z == kvm_inject_rx_frame(y, q)
    <3>1. TapTurn([n |-> y, src |-> h]) = [n |-> z, src |-> t]
      BY <1>2, <2>3 DEF TapTurn
    <3> HIDE DEF q, t
    <3>2. z \in Nics /\ Announced(z, y) /\ z.got = Append(y.got, q) /\ z.frames = y.frames /\ z.lost = y.lost
      BY <2>1, <2>3, InjectIs
    <3> HIDE DEF z
    <3>3. ASSUME NEW n \in Nics, NEW s \in Nat, n.kind = "kvm_tap", Receiving(y, n, h, s)
          PROVE  Receiving(z, n, t, s)
      <4>1. y.kind = "kvm_tap" /\ y.got \in Seq(Nat) /\ Passing(y.got, y.frames, h, y.lost, s) /\ Sound(y)
        BY <3>3, ReceivingIs DEF Receiving
      <4>2. y.frames = <<>> /\ z.kind = "kvm_tap"
        BY <3>2, <4>1 DEF Sound, Announced
      <4>3. Passing(z.got, z.frames, t, z.lost, s)
        BY <2>2, <3>2, <4>1, <4>2
      <4> QED BY <3>2, <3>3, <4>2, <4>3, ReceivesMore
    <3> QED BY <2>1, <3>1, <3>2, <3>3
  <2>4. CASE ~Suffices(y)
    <3> DEFINE m == Take(y)
               l == y.lost \cup {q}
               z == [m EXCEPT !.lost = l]
    <3>1. m \in Nics /\ Announced(m, y) /\ m.got = y.got /\ m.frames = y.frames /\ m.lost = y.lost
      BY <2>4, TakeIs
    <3>2. TapTurn([n |-> y, src |-> h]) = [n |-> z, src |-> t]
      <4>1. TapTurn([n |-> y, src |-> h]) = [n |-> [m EXCEPT !.lost = @ \cup {q}], src |-> t]
        BY <1>2, <2>4 DEF TapTurn
      <4> HIDE DEF m, q
      <4> QED BY <3>1, <4>1
    <3>3. y.lost \subseteq Nat
      BY DEF Nics
    <3>4. l \in SUBSET Nat
      BY <2>1, <3>3
    <3> HIDE DEF q, t, m
    <3>5. z.lost = l /\ z.got = m.got /\ z.frames = m.frames /\ Announced(z, m) /\ z \in Nics
      <4> HIDE DEF l
      <4>1. z.lost = l /\ z.got = m.got /\ z.frames = m.frames
        BY <3>1 DEF Nics
      <4>2. Announced(z, m)
        BY <3>1 DEF Nics, Announced
      <4>3. z \in Nics
        BY <3>1, <3>4 DEF Nics
      <4> QED BY <4>1, <4>2, <4>3
    <3> HIDE DEF z
    <3>6. y.used \in Nat /\ m.used \in Nat /\ z.used \in Nat
      BY <3>1, <3>5 DEF Nics
    <3>7. Announced(z, y)
      BY <3>1, <3>5, <3>6 DEF Announced
    <3>8. ASSUME NEW n \in Nics, NEW s \in Nat, n.kind = "kvm_tap", Receiving(y, n, h, s)
          PROVE  Receiving(z, n, t, s)
      <4>1. y.kind = "kvm_tap" /\ y.got \in Seq(Nat) /\ Passing(y.got, y.frames, h, y.lost, s) /\ Sound(y)
        BY <3>8, ReceivingIs DEF Receiving
      <4>2. y.frames = <<>> /\ z.kind = "kvm_tap"
        BY <3>7, <4>1 DEF Sound, Announced
      <4>3. Passing(z.got, z.frames, t, z.lost, s)
        BY <2>2, <3>1, <3>5, <4>1, <4>2
      <4> QED BY <3>1, <3>5, <3>7, <3>8, <4>2, <4>3, ReceivesMore
    <3> QED BY <2>1, <3>2, <3>5, <3>8
  <2> QED BY <2>3, <2>4
<1> QED BY <1>1, <1>2

\* The tap's poll_rx delivers or drops what it takes from the host.
LEMMA TapKeeps ==
  ASSUME NetFramesAssumption, NEW n \in Nics, n.kind = "kvm_tap", NEW h \in Seq(Nat), NEW s \in Nat,
         Receiving(n, n, h, s)
  PROVE  \E z : \E j \in Seq(Nat) : tap_poll_rx(n, h) = [n |-> z, src |-> j] /\ Receiving(z, n, j, s)
<1>1. CASE ~n.ready
  <2> DEFINE l == n.lost \cup Elems(h)
             z == [n EXCEPT !.lost = l]
  <2>1. tap_poll_rx(n, h) = [n |-> z, src |-> <<>>]
    BY <1>1 DEF tap_poll_rx, Elems
  <2>2. l \in SUBSET Nat
    <3>1. n.lost \subseteq Nat
      BY DEF Nics
    <3>2. Elems(h) \subseteq Nat
      BY DEF Elems
    <3> QED BY <3>1, <3>2
  <2>3. Passing(n.got, n.frames, <<>>, l, s)
    <3>1. n.got \in Seq(Nat) /\ n.frames \in Seq(Nat) /\ Passing(n.got, n.frames, h, n.lost, s)
      BY ReceivingIs DEF Receiving
    <3> QED BY <3>1, DropAll
  <2> HIDE DEF l
  <2>4. z \in Nics
    BY <2>2 DEF Nics
  <2>5. Announced(z, n)
    BY DEF Nics, Announced
  <2>6. z.lost = l /\ z.got = n.got /\ z.frames = n.frames /\ z.kind = "kvm_tap"
    BY DEF Nics
  <2>7. n.frames = <<>>
    BY DEF Receiving, Sound
  <2> HIDE DEF z
  <2>8. Receiving(z, n, <<>>, s)
    <3>1. Passing(z.got, z.frames, <<>>, z.lost, s) /\ z.frames = <<>>
      BY <2>3, <2>6, <2>7
    <3> QED BY <2>4, <2>5, <2>6, <3>1, ReceivesMore
  <2> QED BY <2>1, <2>8, EmptyIs
<1>2. CASE n.ready
  <2> DEFINE V == [n : Nics, src : Seq(Nat)]
             v == [n |-> n, src |-> h]
             N == PollLimit
             D == [k \in 1..N |-> [x \in V |-> TapTurn(x)]]
             Body(at, i) == IF i = 0 THEN v ELSE TapTurn(at[i - 1])
             f == CHOOSE at : at = [i \in 0..N |-> Body(at, i)]
             Y == {i \in 0..N : \E z \in Nics : \E j \in Seq(Nat) :
                                  f[i] = [n |-> z, src |-> j] /\ Receiving(z, n, j, s)}
  <2>1. tap_poll_rx(n, h) = f[N]
    BY <1>2 DEF tap_poll_rx, TapTurn
  <2>2. N \in Nat /\ v \in V
    BY DEF NetFramesAssumption
  <2>3. D \in [1..N -> [V -> V]]
    <3>1. \A x \in V : TapTurn(x) \in V
      <4> SUFFICES ASSUME NEW x \in V PROVE TapTurn(x) \in V
        OBVIOUS
      <4>1. x = [n |-> x.n, src |-> x.src] /\ x.n \in Nics /\ x.src \in Seq(Nat)
        OBVIOUS
      <4>2. \E z \in Nics : \E j \in Seq(Nat) : TapTurn([n |-> x.n, src |-> x.src]) = [n |-> z, src |-> j]
        BY <4>1, TapTurnKeeps
      <4> QED BY <4>1, <4>2
    <3> HIDE DEF V, TapTurn
    <3> QED BY <3>1
  <2>4. PICK e \in Unrolled(V, N, v, D) : TRUE
    <3> HIDE DEF V, N, v, D
    <3>1. Unrolled(V, N, v, D) # {}
      BY <2>2, <2>3, RunExists
    <3> HIDE DEF Body, f, Y
    <3> QED BY <3>1
  <2>5. e = [i \in 0..N |-> Body(e, i)]
    <3>1. e \in [0..N -> V] /\ e[0] = v /\ \A k \in 1..N : e[k] = D[k][e[k - 1]]
      BY <2>4 DEF Unrolled
    <3> HIDE DEF V, v, N
    <3>2. \A k \in 1..N : e[k] = TapTurn(e[k - 1])
      <4> SUFFICES ASSUME NEW k \in 1..N PROVE e[k] = TapTurn(e[k - 1])
        OBVIOUS
      <4>1. k - 1 \in 0..N
        BY <2>2
      <4>2. e[k - 1] \in V
        BY <3>1, <4>1
      <4> QED BY <3>1, <4>2
    <3>3. \A i \in 0..N : e[i] = Body(e, i)
      <4> SUFFICES ASSUME NEW i \in 0..N PROVE e[i] = Body(e, i)
        OBVIOUS
      <4>1. i # 0 => i \in 1..N
        BY <2>2
      <4> QED BY <3>1, <3>2, <4>1
    <3> HIDE DEF Body
    <3> QED BY <3>1, <3>3
  <2>6. f = [i \in 0..N |-> Body(f, i)]
    BY <2>5
  <2> HIDE DEF f, N
  <2>7. f[0] = v /\ \A k \in 1..N : f[k] = TapTurn(f[k - 1])
    <3>1. \A i \in 0..N : f[i] = Body(f, i)
      <4> HIDE DEF Body
      <4> QED BY <2>6
    <3>2. 0 \in 0..N /\ \A k \in 1..N : k \in 0..N /\ k # 0
      BY <2>2
    <3> QED BY <3>1, <3>2
  <2>8. N \in Y
    <3>1. 0 \in Y
      <4>1. 0 \in 0..N
        BY <2>2
      <4> QED BY <2>7, <4>1
    <3>2. ASSUME NEW k \in 1..N, k - 1 \in Y PROVE k \in Y
      <4>1. PICK y \in Nics : \E j \in Seq(Nat) : f[k - 1] = [n |-> y, src |-> j] /\ Receiving(y, n, j, s)
        BY <3>2
      <4>2. PICK j \in Seq(Nat) : f[k - 1] = [n |-> y, src |-> j] /\ Receiving(y, n, j, s)
        BY <4>1
      <4>3. PICK z \in Nics : \E i \in Seq(Nat) :
              /\ TapTurn([n |-> y, src |-> j]) = [n |-> z, src |-> i]
              /\ Receiving(z, n, i, s)
        BY <4>2, TapTurnKeeps
      <4>4. f[k] = TapTurn([n |-> y, src |-> j]) /\ k \in 0..N
        BY <2>2, <2>7, <4>2
      <4> QED BY <4>3, <4>4
    <3> HIDE DEF Y
    <3>3. \A k \in 0..N : k \in Y
      BY <2>2, <3>1, <3>2, IntervalInduction
    <3> QED BY <2>2, <3>3
  <2> QED BY <2>1, <2>8
<1> QED BY <1>1, <1>2

\* The device on which poll_rx starts: nic, or nic with its transmit buffers answered.
Polls(n) ==
  /\ Sound(n) /\ n.kind = nic.kind /\ n.phase = "up" /\ n.pc = "idle" /\ n.ready = nic.ready /\ n.posted = nic.posted
  /\ n.frames = nic.frames /\ n.got = nic.got /\ n.lost = nic.lost
  /\ n.used = nic.used /\ n.tx_posted = nic.tx_posted /\ n.tx_used >= nic.tx_used
  /\ (nic.line => n.line) /\ (n.tx_used # nic.tx_used => n.line)

\* What poll_rx leaves.
Polled(n) ==
  /\ Sound(nic') /\ HostInv(nic', feed') /\ Passing(nic'.got, nic'.frames, feed'.source, nic'.lost, feed'.sent)
  /\ nic'.kind = nic.kind /\ nic'.phase = "up" /\ nic'.tx_posted = nic.tx_posted /\ nic'.tx_used = n.tx_used
  /\ nic'.used >= n.used /\ (nic'.used # n.used => nic'.line) /\ (n.line => nic'.line)
  /\ nic'.pc = "poll" => Hvf
  /\ nic'.pc = "idle" /\ nic'.kind \in {"hvf_socket", "hvf_vmnet"} => ~has_rx_buffer(nic')

\* The types of the parts.
LEMMA FieldTypes ==
  ASSUME FramesInv
  PROVE  /\ nic \in Nics /\ feed \in Feeds /\ drv \in NicDrivers
         /\ nic.got \in Seq(Nat) /\ nic.frames \in Seq(Nat) /\ nic.lost \subseteq Nat /\ feed.source \in Seq(Nat)
         /\ feed.sent \in Nat /\ nic.used \in Nat /\ nic.posted \in Nat /\ nic.last_avail \in Nat
         /\ nic.tx_used \in Nat /\ nic.tx_posted \in Nat /\ nic.tx_last \in Nat /\ drv.seen \in Nat
         /\ nic.shorted \in Nat
<1>1. nic \in Nics /\ feed \in Feeds /\ drv \in NicDrivers
  BY DEF FramesInv, Sound, HostInv
<1>2. /\ nic.got \in Seq(Nat) /\ nic.frames \in Seq(Nat) /\ nic.lost \subseteq Nat
      /\ nic.used \in Nat /\ nic.posted \in Nat /\ nic.last_avail \in Nat
  BY <1>1 DEF Nics
<1>3. nic.tx_used \in Nat /\ nic.tx_posted \in Nat /\ nic.tx_last \in Nat /\ nic.shorted \in Nat
  BY <1>1 DEF Nics
<1>4. feed.source \in Seq(Nat) /\ feed.sent \in Nat /\ drv.seen \in Nat
  BY <1>1 DEF Feeds, NicDrivers
<1> QED BY <1>1, <1>2, <1>3, <1>4

\* Nothing to answer, and all that was posted.
LEMMA NicPolls ==
  ASSUME FramesInv, Runs, nic.pc = "idle"
  PROVE  Polls(nic)
<1>1. nic.tx_used \in Nat
  BY FieldTypes
<1> QED BY <1>1 DEF FramesInv, Polls, Runs
\* With the transmit buffers answered too.
LEMMA SentPolls ==
  ASSUME FramesInv, Runs, nic.pc = "idle"
  PROVE  Polls(Sent(nic)) /\ Sent(nic).tx_used = nic.tx_posted
<1>1. /\ nic.tx_used \in Nat /\ nic.tx_posted \in Nat /\ nic.tx_last \in Nat
      /\ nic.tx_used = nic.tx_last /\ nic.tx_last <= nic.tx_posted /\ nic \in Nics
  BY FieldTypes DEF FramesInv, Sound, Runs
<1>2. CASE nic.tx_last = nic.tx_posted
  BY <1>1, <1>2, NicPolls DEF Sent
<1>3. CASE nic.tx_last # nic.tx_posted
  <2> DEFINE p == nic.tx_posted
             n == [nic EXCEPT !.tx_used = p, !.tx_last = p, !.int = TRUE, !.line = TRUE]
  <2>1. nic.tx_used + (p - nic.tx_last) = p
    BY <1>1
  <2>2. Sent(nic) = n
    BY <1>1, <1>3, <2>1 DEF Sent, signal_queue, Nics
  <2>3. p \in Nat /\ p > nic.tx_used
    BY <1>1, <1>3
  <2>4. n \in Nics
    <3> HIDE DEF p
    <3> QED BY <1>1, <2>3 DEF Nics
  <2>5. n.kind = nic.kind /\ n.phase = nic.phase /\ n.pc = nic.pc /\ n.ready = nic.ready /\ n.posted = nic.posted
    BY <1>1 DEF Nics
  <2>6. n.frames = nic.frames /\ n.got = nic.got /\ n.lost = nic.lost /\ n.shorted = nic.shorted /\ n.used = nic.used
    BY <1>1 DEF Nics
  <2>7. n.tx_posted = p /\ n.tx_used = p /\ n.tx_last = p /\ n.line
    BY <1>1 DEF Nics
  <2> HIDE DEF n, p
  <2>8. Sound(n)
    BY <1>1, <2>3, <2>4, <2>5, <2>6, <2>7 DEF FramesInv, Sound
  <2>9. nic.phase = "up"
    BY DEF Runs
  <2>10. Polls(n) /\ n.tx_used = nic.tx_posted
    BY <1>1, <2>3, <2>5, <2>6, <2>7, <2>8, <2>9 DEF Polls, p
  <2> QED BY <2>2, <2>10
<1> QED BY <1>2, <1>3

\* A frame of libslirp is put behind those that wait.
LEMMA QueuedIs ==
  ASSUME FramesInv, nic.kind \in {"kvm_slirp", "hvf_slirp"}, NEW n, Polls(n), NEW m, m = [n EXCEPT !.frames = Append(@, NewFrame)]
  PROVE  /\ Sound(m) /\ Announced(m, n) /\ m.frames \in Seq(Nat) /\ m.got = n.got /\ m.lost = n.lost
         /\ Passing(m.got, m.frames, feed.source, m.lost, feed.sent + 1)
<1>1. n \in Nics /\ Sound(n) /\ n.kind = nic.kind
  BY DEF Polls, Sound
<1>2. n.frames \in Seq(Nat) /\ n.used \in Nat /\ feed.sent \in Nat /\ n.got \in Seq(Nat)
  BY <1>1, FieldTypes DEF Nics
<1> DEFINE w == Append(n.frames, feed.sent + 1)
<1>3. w \in Seq(Nat)
  BY <1>2
<1>4. feed.source = <<>>
  BY DEF FramesInv, HostInv
<1>5. Passing(n.got, n.frames, <<>>, n.lost, feed.sent)
  BY <1>4 DEF FramesInv, Polls
<1>6. Passing(n.got, w, <<>>, n.lost, feed.sent + 1)
  BY <1>2, <1>5, NewWaiting
<1> HIDE DEF w
<1>7. m = [n EXCEPT !.frames = w]
  BY DEF NewFrame, w
<1>8. m \in Nics
  BY <1>1, <1>3, <1>7 DEF Nics
<1>9. Announced(m, n)
  BY <1>1, <1>7 DEF Nics, Announced
<1>10. m.frames = w /\ m.got = n.got /\ m.lost = n.lost /\ m.shorted = n.shorted
  BY <1>1, <1>7 DEF Nics
<1>11. Sound(m)
  BY <1>1, <1>8, <1>9, <1>10 DEF Sound, Announced
<1> QED BY <1>3, <1>4, <1>6, <1>9, <1>10, <1>11

\* KVM's poll_rx on libslirp and on the tap.
LEMMA KvmPolled ==
  ASSUME NetFramesAssumption, FramesInv, Runs, NEW n, Polls(n), NEW emits \in BOOLEAN, CanEmit(emits), ~Hvf,
         kvm_poll_rx(n, emits)
  PROVE  Polled(n)
<1>1. /\ n \in Nics /\ Sound(n) /\ n.kind = nic.kind /\ n.used \in Nat /\ n.kind \in {"kvm_slirp", "kvm_tap"}
      /\ feed.source \in Seq(Nat) /\ feed.sent \in Nat /\ feed \in Feeds /\ n.phase = "up"
  <2>1. n \in Nics /\ Sound(n) /\ n.kind = nic.kind /\ n.phase = "up"
    BY DEF Polls, Sound
  <2>2. n.kind \in NicKinds /\ n.used \in Nat
    BY <2>1 DEF Nics
  <2> QED BY <2>1, <2>2, FieldTypes DEF NetFramesAssumption, Hvf
<1>2. Announced(n, n)
  BY <1>1 DEF Announced
<1>3. SUFFICES ASSUME Receiving(nic', n, feed'.source, feed'.sent), HostInv(nic', feed') PROVE Polled(n)
  <2>1. Receiving(nic', n, feed'.source, feed'.sent) /\ HostInv(nic', feed')
    <3>1. CASE nic.kind = "kvm_slirp" /\ ~emits
      <4>1. nic' = flush_slirp_rx(n) /\ feed' = feed
        BY <3>1 DEF kvm_poll_rx
      <4>2. Receiving(n, n, feed.source, feed.sent)
        BY <1>1, <1>2 DEF Receiving, FramesInv, Polls
      <4>3. Receiving(nic', n, feed.source, feed.sent)
        BY <1>1, <3>1, <4>1, <4>2, FlushKeeps
      <4>4. nic'.kind = nic.kind /\ nic'.phase = "up"
        BY <1>1, <4>3 DEF Receiving, Announced
      <4> QED BY <4>1, <4>3, <4>4 DEF FramesInv, HostInv
    <3>2. CASE nic.kind = "kvm_slirp" /\ emits
      <4> DEFINE m == enqueue_slirp_rx(n, NewFrame)
      <4>1. nic' = flush_slirp_rx(m) /\ feed' = [feed EXCEPT !.sent = @ + 1]
        BY <3>2 DEF kvm_poll_rx
      <4>2. m = [n EXCEPT !.frames = Append(@, NewFrame)]
        BY DEF enqueue_slirp_rx
      <4> HIDE DEF m
      <4>3. /\ Sound(m) /\ Announced(m, n) /\ m.lost = n.lost /\ Passing(m.got, m.frames, feed.source, m.lost, feed.sent + 1)
        BY <3>2, <4>2, QueuedIs
      <4>4. m \in Nics /\ m.kind = "kvm_slirp" /\ m.used \in Nat
        <5>1. m \in Nics
          BY <4>3 DEF Sound
        <5>2. m.used \in Nat
          BY <5>1 DEF Nics
        <5> QED BY <1>1, <3>2, <4>3, <5>1, <5>2 DEF Announced
      <4>5. Receiving(m, m, feed.source, feed.sent + 1)
        BY <4>3, <4>4 DEF Receiving, Announced
      <4>6. Receiving(nic', m, feed.source, feed.sent + 1)
        <5> DEFINE s == feed.sent + 1
        <5>1. s \in Nat /\ Receiving(m, m, feed.source, s)
          BY <1>1, <4>5
        <5> HIDE DEF s
        <5>2. Receiving(nic', m, feed.source, s)
          BY <1>1, <4>1, <4>4, <5>1, FlushKeeps
        <5> QED BY <5>2 DEF s
      <4>7. nic' \in Nics /\ nic'.used \in Nat /\ Announced(nic', m)
        BY <4>6, ReceivingIs DEF Receiving
      <4>8. Announced(nic', n)
        BY <1>1, <4>3, <4>4, <4>7 DEF Announced
      <4>9. feed'.sent = feed.sent + 1 /\ feed'.source = feed.source /\ feed' \in Feeds
        <5> DEFINE s == feed.sent + 1
        <5>1. s \in Nat /\ feed' = [feed EXCEPT !.sent = s]
          BY <1>1, <4>1
        <5> HIDE DEF s
        <5>2. feed' \in Feeds
          BY <1>1, <5>1 DEF Feeds
        <5>3. feed'.source = feed.source /\ feed'.sent = s
          BY <1>1, <5>1 DEF Feeds
        <5> QED BY <5>2, <5>3 DEF s
      <4>10. feed'.reader = feed.reader /\ feed'.pending = feed.pending /\ feed'.pipe = feed.pipe
        BY <1>1, <4>1 DEF Feeds
      <4>11. nic'.kind = nic.kind /\ nic'.phase = "up"
        BY <1>1, <4>8 DEF Announced
      <4>12. Receiving(nic', n, feed'.source, feed'.sent)
        BY <4>6, <4>8, <4>9 DEF Receiving
      <4> QED BY <4>9, <4>10, <4>11, <4>12 DEF FramesInv, HostInv
    <3>3. CASE nic.kind = "kvm_tap"
      <4>1. Receiving(n, n, feed.source, feed.sent)
        BY <1>1, <1>2 DEF Receiving, FramesInv, Polls
      <4>2. PICK z : \E j \in Seq(Nat) : tap_poll_rx(n, feed.source) = [n |-> z, src |-> j] /\ Receiving(z, n, j, feed.sent)
        BY <1>1, <3>3, <4>1, TapKeeps
      <4>3. PICK j \in Seq(Nat) : tap_poll_rx(n, feed.source) = [n |-> z, src |-> j] /\ Receiving(z, n, j, feed.sent)
        BY <4>2
      <4>4. nic' = z /\ feed' = [feed EXCEPT !.source = j]
        BY <3>3, <4>3 DEF kvm_poll_rx
      <4>5. feed'.sent = feed.sent /\ feed'.source = j /\ feed' \in Feeds
        BY <1>1, <4>4 DEF Feeds
      <4>6. feed'.reader = feed.reader /\ feed'.pending = feed.pending /\ feed'.pipe = feed.pipe
        BY <1>1, <4>4 DEF Feeds
      <4>7. Receiving(nic', n, feed'.source, feed'.sent)
        BY <4>3, <4>4, <4>5
      <4>8. nic'.kind = nic.kind /\ nic'.phase = "up"
        BY <1>1, <4>7 DEF Receiving, Announced
      <4> QED BY <3>3, <4>5, <4>6, <4>7, <4>8 DEF FramesInv, HostInv
    <3> QED BY <1>1, <3>1, <3>2, <3>3
  <2> QED BY <2>1, <1>3
<1>4. Announced(nic', n)
  BY <1>3 DEF Receiving
<1>5. nic'.kind \notin {"hvf_socket", "hvf_vmnet"}
  BY <1>1, <1>4 DEF Announced
<1> QED BY <1>1, <1>3, <1>4, <1>5 DEF Polled, Receiving, Announced, Polls

\* HVF's poll begins: the loop's own fields are set.
LEMMA BeginsIs ==
  ASSUME NEW n, Sound(n), n.phase = "up", NEW m, m = [n EXCEPT !.pc = "poll", !.iter = 0, !.capped = FALSE]
  PROVE  /\ Sound(m) /\ m.kind = n.kind /\ m.phase = "up" /\ m.pc = "poll" /\ m.frames = n.frames /\ m.got = n.got
         /\ m.lost = n.lost /\ m.used = n.used /\ m.line = n.line /\ m.tx_posted = n.tx_posted /\ m.tx_used = n.tx_used
<1>1. n \in Nics
  BY DEF Sound
<1>2. m \in Nics
  <2>1. 0 \in Nat
    OBVIOUS
  <2> QED BY <1>1, <2>1 DEF Nics
<1>3. m.kind = n.kind /\ m.phase = n.phase /\ m.pc = "poll" /\ m.ready = n.ready /\ m.posted = n.posted
  BY <1>1 DEF Nics
<1>4. m.frames = n.frames /\ m.got = n.got /\ m.lost = n.lost /\ m.shorted = n.shorted
  BY <1>1 DEF Nics
<1>5. m.used = n.used /\ m.line = n.line /\ m.tx_posted = n.tx_posted /\ m.tx_used = n.tx_used /\ m.tx_last = n.tx_last
  BY <1>1 DEF Nics
<1>6. Sound(m)
  BY <1>2, <1>3, <1>4, <1>5 DEF Sound
<1> QED BY <1>3, <1>4, <1>5, <1>6

\* HVF's poll_rx up to its loop.
LEMMA HvfPolled ==
  ASSUME NetFramesAssumption, FramesInv, Runs, NEW n, Polls(n), NEW emits \in BOOLEAN, CanEmit(emits), Hvf,
         hvf_poll_begin(n, emits)
  PROVE  Polled(n)
<1>1. /\ Sound(n) /\ n \in Nics /\ n.kind = nic.kind /\ n.phase = "up" /\ n.tx_posted = nic.tx_posted
      /\ n.frames = nic.frames /\ n.got = nic.got /\ n.lost = nic.lost /\ n.used \in Nat /\ n.pc = "idle"
  <2>1. n \in Nics
    BY DEF Polls, Sound
  <2>2. n.used \in Nat
    BY <2>1 DEF Nics
  <2> QED BY <2>1, <2>2 DEF Polls
<1>2. feed \in Feeds /\ feed.source \in Seq(Nat) /\ feed.sent \in Nat
  BY FieldTypes
<1>3. Passing(n.got, n.frames, feed.source, n.lost, feed.sent) /\ HostInv(nic, feed) /\ nic.phase = "up"
  BY <1>1 DEF FramesInv, Runs
<1>4. CASE ~n.ready /\ nic' = n /\ feed' = feed
  <2>1. n.posted = 0 /\ ~has_rx_buffer(n)
    BY <1>1, <1>4 DEF Sound, has_rx_buffer
  <2>2. HostInv(n, feed)
    BY <1>1, <1>3 DEF HostInv
  <2> QED BY <1>1, <1>3, <1>4, <2>1, <2>2 DEF Polled
<1>5. CASE nic' = [n EXCEPT !.pc = "poll", !.iter = 0, !.capped = FALSE] /\ feed' = drain_notify(feed)
  <2>1. /\ Sound(nic') /\ nic'.kind = n.kind /\ nic'.phase = "up" /\ nic'.pc = "poll" /\ nic'.frames = n.frames
        /\ nic'.got = n.got /\ nic'.lost = n.lost /\ nic'.used = n.used /\ nic'.line = n.line
        /\ nic'.tx_posted = n.tx_posted /\ nic'.tx_used = n.tx_used
    <3> DEFINE m == [n EXCEPT !.pc = "poll", !.iter = 0, !.capped = FALSE]
    <3>1. nic' = m /\ Sound(n) /\ n.phase = "up"
      BY <1>1, <1>5
    <3>2. m = [n EXCEPT !.pc = "poll", !.iter = 0, !.capped = FALSE]
      OBVIOUS
    <3> HIDE DEF m
    <3>3. /\ Sound(m) /\ m.kind = n.kind /\ m.phase = "up" /\ m.pc = "poll" /\ m.frames = n.frames /\ m.got = n.got
          /\ m.lost = n.lost /\ m.used = n.used /\ m.line = n.line /\ m.tx_posted = n.tx_posted /\ m.tx_used = n.tx_used
      BY <3>1, <3>2, BeginsIs, ZenonT(30)
    <3> QED BY <3>1, <3>3
  <2>2. feed' = [feed EXCEPT !.pipe = 0, !.pending = FALSE]
    BY <1>5 DEF drain_notify
  <2>3. feed' \in Feeds
    BY <1>2, <2>2 DEF Feeds
  <2>4. feed'.source = feed.source /\ feed'.sent = feed.sent /\ feed'.reader = feed.reader /\ feed'.pending = FALSE
    BY <1>2, <2>2 DEF Feeds
  <2>5. HostInv(nic', feed')
    BY <1>1, <1>3, <2>1, <2>3, <2>4 DEF HostInv
  <2> QED BY <1>1, <1>3, <2>1, <2>4, <2>5 DEF Polled
<1>6. CASE /\ emits /\ nic.kind = "hvf_slirp"
           /\ nic' = slirp_send_packet([n EXCEPT !.pc = "poll", !.iter = 0, !.capped = FALSE], NewFrame)
           /\ feed' = [notify_host(drain_notify(feed)) EXCEPT !.sent = @ + 1]
  <2> DEFINE w == Append(n.frames, NewFrame)
             q == [n EXCEPT !.frames = w]
             s == feed.sent + 1
  <2>1. /\ Sound(q) /\ Announced(q, n) /\ q.frames \in Seq(Nat) /\ q.got = n.got /\ q.lost = n.lost
        /\ Passing(q.got, q.frames, feed.source, q.lost, s)
    <3>1. q = [n EXCEPT !.frames = Append(@, NewFrame)]
      OBVIOUS
    <3> HIDE DEF q
    <3> QED BY <1>6, <3>1, QueuedIs
  <2>2. s \in Nat
    BY <1>2
  <2>3. nic' = [q EXCEPT !.pc = "poll", !.iter = 0, !.capped = FALSE]
    <3> HIDE DEF w
    <3>1. nic' = [[n EXCEPT !.pc = "poll", !.iter = 0, !.capped = FALSE] EXCEPT !.frames = w]
      <4>1. [n EXCEPT !.pc = "poll", !.iter = 0, !.capped = FALSE].frames = n.frames
        BY <1>1 DEF Nics
      <4> QED BY <1>6, <4>1 DEF slirp_send_packet, w
    <3> QED BY <1>1, <3>1 DEF Nics
  <2> HIDE DEF q
  <2>4. q.phase = "up" /\ q.kind = n.kind /\ q.used >= n.used /\ (q.used # n.used => q.line) /\ (n.line => q.line)
        /\ q.tx_posted = n.tx_posted /\ q.tx_used = n.tx_used
    BY <1>1, <2>1 DEF Announced
  <2>5. /\ Sound(nic') /\ nic'.kind = q.kind /\ nic'.phase = "up" /\ nic'.pc = "poll" /\ nic'.frames = q.frames
        /\ nic'.got = q.got /\ nic'.lost = q.lost /\ nic'.used = q.used /\ nic'.line = q.line
        /\ nic'.tx_posted = q.tx_posted /\ nic'.tx_used = q.tx_used
    BY <2>1, <2>3, <2>4, BeginsIs
  <2>6. feed' = [feed EXCEPT !.pipe = 1, !.pending = TRUE, !.sent = s]
    <3> DEFINE d == [feed EXCEPT !.pipe = 0, !.pending = FALSE]
    <3>1. d.pending = FALSE /\ drain_notify(feed) = d
      BY <1>2 DEF drain_notify, Feeds
    <3>2. notify_host(d) = [d EXCEPT !.pipe = 1, !.pending = TRUE]
      BY <3>1 DEF notify_host
    <3>3. [d EXCEPT !.pipe = 1, !.pending = TRUE].sent = feed.sent
      BY <1>2 DEF Feeds
    <3>4. feed' = [[d EXCEPT !.pipe = 1, !.pending = TRUE] EXCEPT !.sent = s]
      <4> HIDE DEF d
      <4> QED BY <1>6, <3>1, <3>2, <3>3
    <3> HIDE DEF s
    <3> QED BY <1>2, <3>4 DEF Feeds
  <2> HIDE DEF s
  <2>7. feed' \in Feeds
    BY <1>2, <2>2, <2>6 DEF Feeds
  <2>8. feed'.source = feed.source /\ feed'.sent = s /\ feed'.reader = feed.reader /\ feed'.pipe = 1
    BY <1>2, <2>6 DEF Feeds
  <2>9. HostInv(nic', feed')
    BY <1>1, <1>3, <2>4, <2>5, <2>7, <2>8 DEF HostInv
  <2> QED BY <1>1, <1>3, <2>1, <2>4, <2>5, <2>8, <2>9 DEF Polled
<1> QED BY <1>4, <1>5, <1>6 DEF hvf_poll_begin

\* A poll keeps the invariant, whatever it takes of the driver's notifications.
LEMMA PollKeeps ==
  ASSUME NetFramesAssumption, FramesInv, Runs, nic.pc = "idle", NEW n, Polls(n), NEW emits \in BOOLEAN,
         poll_rx(n, emits), drv' \in NicDrivers, drv'.isr = drv.isr, drv'.seen = drv.seen,
         ~drv'.tx_kick => n.tx_used = nic.tx_posted
  PROVE  FramesInv'
<1>1. Polled(n)
  BY KvmPolled, HvfPolled DEF poll_rx
<1>2. /\ nic.used \in Nat /\ nic.tx_used \in Nat /\ drv.seen \in Nat /\ n.used = nic.used /\ n.tx_used \in Nat
      /\ (nic.line => n.line) /\ (n.tx_used # nic.tx_used => n.line) /\ n.kind = nic.kind
  <2>1. n \in Nics
    BY DEF Polls, Sound
  <2>2. n.tx_used \in Nat
    BY <2>1 DEF Nics
  <2> QED BY <2>2, FieldTypes DEF Polls
<1>3. NicSignalled'
  <2>1. SUFFICES ASSUME drv.isr = "run", nic'.used + nic'.tx_used > drv.seen PROVE nic'.line
    BY DEF NicSignalled, Runs
  <2>2. CASE nic'.used # n.used
    BY <1>1, <2>2 DEF Polled
  <2>3. CASE n.tx_used # nic.tx_used
    BY <1>1, <1>2, <2>3 DEF Polled
  <2>4. CASE nic'.used = n.used /\ n.tx_used = nic.tx_used
    <3>1. nic.used + nic.tx_used > drv.seen
      BY <1>1, <1>2, <2>1, <2>4 DEF Polled
    <3>2. nic.line
      BY <2>1, <3>1 DEF FramesInv, NicSignalled
    <3> QED BY <1>1, <1>2, <3>2 DEF Polled
  <2> QED BY <2>2, <2>3, <2>4
<1>4. PollDue' /\ TxAnswered' /\ NicReleased'
  <2>1. PollDue'
    BY <1>1, <1>2 DEF Polled, PollDue
  <2>2. TxAnswered'
    BY <1>1, <1>2 DEF Polled, TxAnswered
  <2>3. NicReleased'
    BY <1>1 DEF Polled, NicReleased
  <2> QED BY <2>1, <2>2, <2>3
<1>5. Fresh' /\ Looping'
  BY <1>1 DEF Polled, Fresh, Looping, Hvf
<1> QED BY <1>1, <1>3, <1>4, <1>5 DEF Polled, FramesInv

\* The driver's own fields.
LEMMA DriversAre ==
  ASSUME drv \in NicDrivers
  PROVE  /\ \A d : d = [drv EXCEPT !.kick = FALSE] =>
                     d \in NicDrivers /\ d.isr = drv.isr /\ d.seen = drv.seen /\ d.tx_kick = drv.tx_kick
         /\ \A d : d = [drv EXCEPT !.tx_kick = FALSE] => d \in NicDrivers /\ d.isr = drv.isr /\ d.seen = drv.seen
         /\ \A d : d = [drv EXCEPT !.kick = TRUE] =>
                     d \in NicDrivers /\ d.isr = drv.isr /\ d.seen = drv.seen /\ d.kick /\ d.tx_kick = drv.tx_kick
         /\ \A d : d = [drv EXCEPT !.tx_kick = TRUE] =>
                     d \in NicDrivers /\ d.isr = drv.isr /\ d.seen = drv.seen /\ d.tx_kick /\ d.kick = drv.kick
BY DEF NicDrivers

\* Every way to a poll.
LEMMA PollsKeep ==
  ASSUME NetFramesAssumption, FramesInv, NEW emits \in BOOLEAN,
         poll_devices(emits) \/ WfiPolls(emits) \/ GuestKicks(emits) \/ GuestKicksTx(emits)
  PROVE  FramesInv'
<1>1. drv \in NicDrivers
  BY DEF FramesInv
<1>2. CASE poll_devices(emits) \/ WfiPolls(emits)
  <2>1. Runs /\ nic.pc = "idle" /\ poll_rx(nic, emits) /\ drv' = drv
    BY <1>2 DEF poll_devices, WfiPolls
  <2>2. ~drv'.tx_kick => nic.tx_used = nic.tx_posted
    BY <2>1 DEF FramesInv, TxAnswered
  <2>3. Polls(nic)
    BY <2>1, NicPolls
  <2> QED BY <1>1, <2>1, <2>2, <2>3, PollKeeps
<1>3. CASE GuestKicks(emits)
  <2>1. Runs /\ nic.pc = "idle" /\ poll_rx(nic, emits) /\ drv' = [drv EXCEPT !.kick = FALSE]
    BY <1>3 DEF GuestKicks
  <2>2. drv' \in NicDrivers /\ drv'.isr = drv.isr /\ drv'.seen = drv.seen /\ drv'.tx_kick = drv.tx_kick
    BY <1>1, <2>1, DriversAre
  <2>3. ~drv'.tx_kick => nic.tx_used = nic.tx_posted
    BY <2>1, <2>2 DEF FramesInv, TxAnswered
  <2>4. Polls(nic)
    BY <2>1, NicPolls
  <2> QED BY <2>1, <2>2, <2>3, <2>4, PollKeeps
<1>4. CASE GuestKicksTx(emits)
  <2>1. Runs /\ nic.pc = "idle" /\ poll_rx(Sent(nic), emits) /\ drv' = [drv EXCEPT !.tx_kick = FALSE]
    BY <1>4 DEF GuestKicksTx, hvf_handle_tx_queue, kvm_handle_tx_queue
  <2>2. drv' \in NicDrivers /\ drv'.isr = drv.isr /\ drv'.seen = drv.seen
    BY <1>1, <2>1, DriversAre
  <2>3. Polls(Sent(nic)) /\ Sent(nic).tx_used = nic.tx_posted
    BY <2>1, SentPolls
  <2> HIDE DEF Sent
  <2> QED BY <2>1, <2>2, <2>3, PollKeeps
<1> QED BY <1>2, <1>3, <1>4

-----------------------------------------------------------------------------
\* A new device.
LEMMA FramesInit ==
  ASSUME NetFramesAssumption, NetFramesInit
  PROVE  FramesInv
<1>1. nic \in Nics
  <2>1. {} \in SUBSET Nat /\ 0 \in Nat /\ <<>> \in Seq(Nat)
    OBVIOUS
  <2> QED BY <2>1 DEF NetFramesInit, Nics
<1>2. /\ nic.phase = "new" /\ nic.frames = <<>> /\ nic.got = <<>> /\ nic.lost = {} /\ nic.posted = 0
      /\ nic.kind \in NicKinds
  BY DEF NetFramesInit
<1>3. feed \in Feeds
  <2>1. {} \in SUBSET Nat /\ 0 \in Nat /\ <<>> \in Seq(Nat)
    OBVIOUS
  <2> QED BY <2>1 DEF NetFramesInit, Feeds
<1>4. feed.source = <<>> /\ feed.sent = 0 /\ feed.reader = "none" /\ ~feed.pending /\ feed.bound = {}
  BY DEF NetFramesInit
<1>5. drv \in NicDrivers
  BY DEF NetFramesInit, NicDrivers
<1>6. Sound(nic)
  BY <1>1, <1>2 DEF Sound
<1>7. HostInv(nic, feed)
  BY <1>2, <1>3, <1>4 DEF HostInv
<1>8. Passing(nic.got, nic.frames, feed.source, nic.lost, feed.sent)
  <2>1. 1..0 = {} /\ Elems(<<>>) = {} /\ Rising(<<>>)
    BY EmptyIs
  <2>2. Passing(<<>>, <<>>, <<>>, {}, 0)
    BY <2>1 DEF Passing, Before
  <2> QED BY <1>2, <1>4, <2>2
<1>9. PollDue /\ NicSignalled /\ TxAnswered /\ NicReleased
  BY <1>2 DEF PollDue, NicSignalled, TxAnswered, NicReleased, Runs
<1>10. Fresh /\ Looping
  BY DEF NetFramesInit, Fresh, Looping
<1> QED BY <1>5, <1>6, <1>7, <1>8, <1>9, <1>10 DEF FramesInv

-----------------------------------------------------------------------------
\* The device is in another phase.
LEMMA PhaseIs ==
  ASSUME NEW n \in Nics, NEW p \in {"new", "up", "failed", "stopping", "gone", "threw"}, NEW m, m = [n EXCEPT !.phase = p]
  PROVE  /\ m \in Nics /\ m.phase = p /\ m.kind = n.kind /\ m.pc = n.pc /\ m.ready = n.ready /\ m.posted = n.posted
         /\ m.frames = n.frames /\ m.got = n.got /\ m.lost = n.lost /\ m.shorted = n.shorted /\ m.used = n.used
         /\ m.line = n.line /\ m.tx_used = n.tx_used /\ m.tx_last = n.tx_last /\ m.tx_posted = n.tx_posted
         /\ m.last_avail = n.last_avail /\ m.capped = n.capped
<1>1. m \in Nics
  BY DEF Nics
<1>2. m.phase = p /\ m.kind = n.kind /\ m.pc = n.pc /\ m.ready = n.ready /\ m.posted = n.posted
  BY DEF Nics
<1>3. m.frames = n.frames /\ m.got = n.got /\ m.lost = n.lost /\ m.shorted = n.shorted /\ m.used = n.used
  BY DEF Nics
<1>4. m.line = n.line /\ m.tx_used = n.tx_used /\ m.tx_last = n.tx_last /\ m.tx_posted = n.tx_posted
  BY DEF Nics
<1>5. m.last_avail = n.last_avail /\ m.capped = n.capped
  BY DEF Nics
<1> QED BY <1>1, <1>2, <1>3, <1>4, <1>5

\* start_slirp, start.
LEMMA StartSlirpKeeps ==
  ASSUME NetFramesAssumption, FramesInv, NEW k \in 1..Forwards + 1, start_slirp(k)
  PROVE  FramesInv'
<1> DEFINE b == feed'.bound
<1>1. nic \in Nics /\ feed \in Feeds /\ drv \in NicDrivers /\ nic.phase = "new" /\ drv' = drv
  BY FieldTypes DEF start_slirp
<1>2. /\ nic' = [nic EXCEPT !.phase = "up"] \/ nic' = [nic EXCEPT !.phase = "failed"]
      /\ \E c \in SUBSET Nat : feed' = [feed EXCEPT !.bound = c] /\ (nic'.phase = "failed" /\ Hvf => c = {})
  <2>1. CASE k > Forwards /\ nic' = [nic EXCEPT !.phase = "up"] /\ feed' = [feed EXCEPT !.bound = 1..Forwards]
    <3>1. 1..Forwards \in SUBSET Nat
      BY DEF NetFramesAssumption
    <3>2. nic'.phase # "failed"
      BY <1>1, <2>1, PhaseIs
    <3> QED BY <2>1, <3>1, <3>2
  <2>2. CASE /\ k <= Forwards /\ nic' = [nic EXCEPT !.phase = "failed"]
             /\ feed' = [feed EXCEPT !.bound = IF Hvf THEN {} ELSE 1..k - 1]
    <3>1. 1..k - 1 \in SUBSET Nat /\ {} \in SUBSET Nat
      BY DEF NetFramesAssumption
    <3>2. CASE Hvf
      BY <2>2, <3>1, <3>2
    <3>3. CASE ~Hvf
      BY <2>2, <3>1, <3>3
    <3> QED BY <3>2, <3>3
  <2> QED BY <2>1, <2>2 DEF start_slirp
<1>3. PICK c \in SUBSET Nat : feed' = [feed EXCEPT !.bound = c] /\ (nic'.phase = "failed" /\ Hvf => c = {})
  BY <1>2
<1>4. feed' \in Feeds
  BY <1>1, <1>3 DEF Feeds
<1>5. /\ feed'.source = feed.source /\ feed'.sent = feed.sent /\ feed'.reader = feed.reader
      /\ feed'.pending = feed.pending /\ feed'.pipe = feed.pipe /\ feed'.bound = c
  BY <1>1, <1>3 DEF Feeds
<1>6. /\ nic' \in Nics /\ nic'.phase \in {"up", "failed"} /\ nic'.kind = nic.kind /\ nic'.pc = nic.pc /\ nic'.ready = nic.ready
      /\ nic'.posted = nic.posted /\ nic'.frames = nic.frames /\ nic'.got = nic.got /\ nic'.lost = nic.lost
      /\ nic'.shorted = nic.shorted /\ nic'.used = nic.used /\ nic'.tx_used = nic.tx_used
      /\ nic'.tx_last = nic.tx_last /\ nic'.tx_posted = nic.tx_posted
  <2>1. PICK p \in {"up", "failed"} : nic' = [nic EXCEPT !.phase = p]
    BY <1>2
  <2> QED BY <1>1, <2>1, PhaseIs
<1>7. ~nic.ready /\ nic.used = 0 /\ nic.tx_used = 0 /\ nic.tx_last = 0 /\ nic.tx_posted = 0
  BY <1>1 DEF FramesInv, Fresh
<1>8. Sound(nic')
  BY <1>6, <1>7 DEF FramesInv, Sound
<1>9. HostInv(nic', feed')
  BY <1>1, <1>4, <1>5, <1>6 DEF FramesInv, HostInv
<1>10. drv.seen \in Nat
  BY <1>1 DEF NicDrivers
<1>11. PollDue' /\ NicSignalled' /\ TxAnswered'
  BY <1>1, <1>6, <1>7, <1>10 DEF PollDue, NicSignalled, TxAnswered, has_rx_buffer
<1>12. NicReleased'
  BY <1>3, <1>5, <1>6 DEF NicReleased, Hvf
<1>13. Fresh' /\ Looping'
  BY <1>6 DEF FramesInv, Fresh, Looping, Hvf
<1> QED BY <1>1, <1>5, <1>6, <1>8, <1>9, <1>11, <1>12, <1>13 DEF FramesInv

\* The other ways of starting.
LEMMA StartKeeps ==
  ASSUME FramesInv, start
  PROVE  FramesInv'
<1>1. /\ nic \in Nics /\ feed \in Feeds /\ drv \in NicDrivers /\ nic.phase = "new" /\ drv' = drv
      /\ nic' = [nic EXCEPT !.phase = "up"]
  BY FieldTypes DEF start
<1>2. PICK r \in {"read", "none"} : feed' = [feed EXCEPT !.reader = r] /\ (r = "read" => nic.kind = "hvf_socket")
  BY DEF start
<1>3. feed' \in Feeds
  BY <1>1, <1>2 DEF Feeds
<1>4. /\ feed'.source = feed.source /\ feed'.sent = feed.sent /\ feed'.reader = r
      /\ feed'.pending = feed.pending /\ feed'.pipe = feed.pipe
  BY <1>1, <1>2 DEF Feeds
<1>5. /\ nic' \in Nics /\ nic'.phase = "up" /\ nic'.kind = nic.kind /\ nic'.pc = nic.pc /\ nic'.ready = nic.ready
      /\ nic'.posted = nic.posted /\ nic'.frames = nic.frames /\ nic'.got = nic.got /\ nic'.lost = nic.lost
      /\ nic'.shorted = nic.shorted /\ nic'.used = nic.used /\ nic'.tx_used = nic.tx_used
      /\ nic'.tx_last = nic.tx_last /\ nic'.tx_posted = nic.tx_posted
  BY <1>1, PhaseIs
<1>6. ~nic.ready /\ nic.used = 0 /\ nic.tx_used = 0 /\ nic.tx_last = 0 /\ nic.tx_posted = 0
  BY <1>1 DEF FramesInv, Fresh
<1>7. Sound(nic')
  BY <1>5, <1>6 DEF FramesInv, Sound
<1>8. HostInv(nic', feed')
  BY <1>2, <1>3, <1>4, <1>5 DEF FramesInv, HostInv
<1>9. drv.seen \in Nat
  BY <1>1 DEF NicDrivers
<1>10. PollDue' /\ NicSignalled' /\ TxAnswered' /\ NicReleased'
  BY <1>1, <1>5, <1>6, <1>9 DEF PollDue, NicSignalled, TxAnswered, NicReleased, has_rx_buffer
<1>11. Fresh' /\ Looping'
  BY <1>5 DEF FramesInv, Fresh, Looping, Hvf
<1> QED BY <1>1, <1>4, <1>5, <1>7, <1>8, <1>10, <1>11 DEF FramesInv

\* stop_vmnet and the join.
LEMMA StopKeeps ==
  ASSUME FramesInv, stop_vmnet
  PROVE  FramesInv'
<1>1. /\ nic \in Nics /\ feed \in Feeds /\ drv \in NicDrivers /\ nic.phase = "up" /\ drv' = drv
      /\ nic' = [nic EXCEPT !.phase = "stopping"] /\ feed' = [feed EXCEPT !.bound = {}, !.done = TRUE]
  BY FieldTypes DEF stop_vmnet
<1>2. feed' \in Feeds
  <2>1. {} \in SUBSET Nat
    OBVIOUS
  <2> QED BY <1>1, <2>1 DEF Feeds
<1>3. /\ feed'.source = feed.source /\ feed'.sent = feed.sent /\ feed'.reader = feed.reader
      /\ feed'.pending = feed.pending /\ feed'.pipe = feed.pipe /\ feed'.bound = {}
  BY <1>1 DEF Feeds
<1>4. /\ nic' \in Nics /\ nic'.phase = "stopping" /\ nic'.kind = nic.kind /\ nic'.pc = nic.pc /\ nic'.ready = nic.ready
      /\ nic'.posted = nic.posted /\ nic'.frames = nic.frames /\ nic'.got = nic.got /\ nic'.lost = nic.lost
      /\ nic'.shorted = nic.shorted
  BY <1>1, PhaseIs
<1>5. Sound(nic')
  BY <1>4 DEF FramesInv, Sound
<1>6. HostInv(nic', feed')
  BY <1>2, <1>3, <1>4 DEF FramesInv, HostInv
<1>7. PollDue' /\ NicSignalled' /\ TxAnswered' /\ NicReleased'
  BY <1>4 DEF PollDue, NicSignalled, TxAnswered, NicReleased, Runs
<1>8. Fresh' /\ Looping'
  BY <1>4 DEF FramesInv, Fresh, Looping, Hvf
<1> QED BY <1>1, <1>3, <1>4, <1>5, <1>6, <1>7, <1>8 DEF FramesInv

\* And the join.
LEMMA JoinKeeps ==
  ASSUME FramesInv, JoinReader
  PROVE  FramesInv'
<1>1. /\ nic \in Nics /\ feed \in Feeds /\ drv \in NicDrivers /\ nic.phase = "stopping" /\ drv' = drv
      /\ nic' = [nic EXCEPT !.phase = "gone"] /\ feed' = feed /\ feed.reader \in {"none", "ended"}
  BY FieldTypes DEF JoinReader
<1>2. /\ nic' \in Nics /\ nic'.phase = "gone" /\ nic'.kind = nic.kind /\ nic'.pc = nic.pc /\ nic'.ready = nic.ready
      /\ nic'.posted = nic.posted /\ nic'.frames = nic.frames /\ nic'.got = nic.got /\ nic'.lost = nic.lost
      /\ nic'.shorted = nic.shorted
  BY <1>1, PhaseIs
<1>3. Sound(nic')
  BY <1>2 DEF FramesInv, Sound
<1>4. HostInv(nic', feed') /\ feed.bound = {}
  BY <1>1, <1>2 DEF FramesInv, HostInv
<1>5. PollDue' /\ NicSignalled' /\ TxAnswered' /\ NicReleased'
  BY <1>1, <1>2, <1>4 DEF PollDue, NicSignalled, TxAnswered, NicReleased, Runs
<1>6. Fresh' /\ Looping'
  BY <1>2 DEF FramesInv, Fresh, Looping, Hvf
<1> QED BY <1>1, <1>2, <1>3, <1>4, <1>5, <1>6 DEF FramesInv

\* The host sends a frame.
LEMMA HostKeeps ==
  ASSUME FramesInv, HostSendsFrame
  PROVE  FramesInv'
<1> DEFINE s == feed.sent + 1
           h == Append(feed.source, s)
           r == IF nic.kind = "hvf_vmnet" THEN "notify" ELSE feed.reader
<1>1. /\ nic \in Nics /\ feed \in Feeds /\ nic' = nic /\ drv' = drv /\ nic.phase = "up" /\ ~Slirp
      /\ feed' = [feed EXCEPT !.source = h, !.sent = s, !.reader = r]
  BY FieldTypes DEF HostSendsFrame, Runs, NewFrame, Feeds
<1>2. s \in Nat /\ h \in Seq(Nat) /\ h # <<>> /\ r \in {"none", "read", "notify", "ended"}
  <2>1. s \in Nat /\ feed.source \in Seq(Nat)
    BY FieldTypes
  <2>2. h \in Seq(Nat) /\ h # <<>>
    <3> HIDE DEF s
    <3> QED BY <2>1, AppendIs
  <2>3. r \in {"none", "read", "notify", "ended"}
    BY <1>1 DEF Feeds
  <2> QED BY <2>1, <2>2, <2>3
<1>3. Passing(nic.got, nic.frames, h, nic.lost, s)
  BY FieldTypes, NewPassing DEF FramesInv
<1>4. (nic.kind = "hvf_vmnet" => r = "notify") /\ (nic.kind # "hvf_vmnet" => r = feed.reader)
  OBVIOUS
<1> HIDE DEF s, h, r
<1>5. feed' \in Feeds
  BY <1>1, <1>2 DEF Feeds
<1>6. feed'.source = h /\ feed'.sent = s /\ feed'.reader = r /\ feed'.pending = feed.pending /\ feed'.pipe = feed.pipe
  BY <1>1 DEF Feeds
<1>7. HostInv(nic', feed')
  BY <1>1, <1>4, <1>5, <1>6 DEF FramesInv, HostInv, Slirp
<1>8. PollDue'
  BY <1>1, <1>4, <1>6 DEF FramesInv, PollDue, Runs, has_rx_buffer
<1>9. NicSignalled' /\ TxAnswered' /\ NicReleased' /\ Fresh' /\ Looping'
  BY <1>1 DEF FramesInv, NicSignalled, TxAnswered, NicReleased, Fresh, Looping, Runs, Hvf
<1> QED BY <1>1, <1>3, <1>6, <1>7, <1>8, <1>9 DEF FramesInv

\* The socket's thread reads a frame, notifies and ends.
LEMMA ReaderQueuesKeeps ==
  ASSUME FramesInv, ReaderQueues
  PROVE  FramesInv'
<1> DEFINE h == Tail(feed.source)
           w == Append(nic.frames, Head(feed.source))
<1>1. /\ nic \in Nics /\ feed \in Feeds /\ drv' = drv /\ feed.reader = "read" /\ feed.source # <<>>
      /\ feed' = [feed EXCEPT !.source = h, !.reader = "notify"] /\ nic' = [nic EXCEPT !.frames = w]
  BY FieldTypes DEF ReaderQueues, Feeds, Nics
<1>2. nic.kind = "hvf_socket" /\ nic.phase \notin {"new", "gone"}
  BY <1>1 DEF FramesInv, HostInv, NicReleased
<1>3. Passing(nic.got, w, h, nic.lost, feed.sent)
  BY <1>1, FieldTypes, PassToDevice DEF FramesInv
<1>4. h \in Seq(Nat) /\ w \in Seq(Nat)
  <2>1. Head(feed.source) \in Nat /\ h \in Seq(Nat)
    BY <1>1, FieldTypes, TailIs
  <2> DEFINE x == Head(feed.source)
  <2> HIDE DEF x, h
  <2>2. x \in Nat
    BY <2>1 DEF x
  <2>3. Append(nic.frames, x) \in Seq(Nat)
    BY <2>2, FieldTypes
  <2> QED BY <2>1, <2>3 DEF x
<1> HIDE DEF h, w
<1>5. feed' \in Feeds
  BY <1>1, <1>4 DEF Feeds
<1>6. feed'.source = h /\ feed'.sent = feed.sent /\ feed'.reader = "notify" /\ feed'.pending = feed.pending
      /\ feed'.pipe = feed.pipe /\ feed'.bound = feed.bound
  BY <1>1 DEF Feeds
<1>7. nic' \in Nics
  BY <1>1, <1>4 DEF Nics
<1>8. /\ nic'.phase = nic.phase /\ nic'.kind = nic.kind /\ nic'.pc = nic.pc /\ nic'.ready = nic.ready
      /\ nic'.posted = nic.posted /\ nic'.frames = w /\ nic'.got = nic.got /\ nic'.lost = nic.lost
      /\ nic'.shorted = nic.shorted
  BY <1>1 DEF Nics
<1>9. /\ nic'.used = nic.used /\ nic'.tx_used = nic.tx_used /\ nic'.line = nic.line
      /\ nic'.tx_last = nic.tx_last /\ nic'.tx_posted = nic.tx_posted
  BY <1>1 DEF Nics
<1>10. Sound(nic')
  BY <1>2, <1>7, <1>8, <1>9 DEF FramesInv, Sound
<1>11. HostInv(nic', feed')
  BY <1>2, <1>5, <1>6, <1>8 DEF FramesInv, HostInv
<1>12. PollDue' /\ NicSignalled' /\ TxAnswered'
  BY <1>1, <1>6, <1>8, <1>9 DEF FramesInv, PollDue, NicSignalled, TxAnswered, Runs
<1>13. NicReleased' /\ Fresh' /\ Looping'
  BY <1>2, <1>6, <1>8 DEF FramesInv, NicReleased, Fresh, Looping, Hvf
<1> QED BY <1>1, <1>3, <1>6, <1>8, <1>10, <1>11, <1>12, <1>13 DEF FramesInv

\* It notifies the vCPUs that it queued.
LEMMA ReaderNotifiesKeeps ==
  ASSUME FramesInv, ReaderNotifies
  PROVE  FramesInv'
<1> DEFINE r == IF nic.kind = "hvf_socket" THEN "read" ELSE "none"
<1>1. /\ feed \in Feeds /\ drv' = drv /\ nic' = nic /\ feed.reader = "notify" /\ r \in {"none", "read"}
      /\ nic.kind # "hvf_socket" => r = "none"
  BY FieldTypes DEF ReaderNotifies
<1>2. \/ feed' = [feed EXCEPT !.reader = r] /\ feed.pending
      \/ feed' = [feed EXCEPT !.reader = r, !.pipe = 1, !.pending = TRUE]
  BY <1>1 DEF ReaderNotifies, notify_host, Feeds
<1> HIDE DEF r
<1>3. feed' \in Feeds
  <2>1. CASE feed' = [feed EXCEPT !.reader = r] /\ feed.pending
    BY <1>1, <2>1 DEF Feeds
  <2>2. CASE feed' = [feed EXCEPT !.reader = r, !.pipe = 1, !.pending = TRUE]
    BY <1>1, <2>2 DEF Feeds
  <2> QED BY <1>2, <2>1, <2>2
<1>4. /\ feed'.source = feed.source /\ feed'.sent = feed.sent /\ feed'.reader = r /\ feed'.bound = feed.bound
      /\ feed'.pipe > 0
  <2>1. CASE feed' = [feed EXCEPT !.reader = r] /\ feed.pending
    <3>1. feed.pipe > 0
      BY <2>1 DEF FramesInv, HostInv
    <3> QED BY <1>1, <2>1, <3>1 DEF Feeds
  <2>2. CASE feed' = [feed EXCEPT !.reader = r, !.pipe = 1, !.pending = TRUE]
    BY <1>1, <2>2 DEF Feeds
  <2> QED BY <1>2, <2>1, <2>2
<1>5. nic.phase \notin {"new", "gone"}
  BY <1>1 DEF FramesInv, HostInv, NicReleased
<1>6. HostInv(nic', feed')
  BY <1>1, <1>3, <1>4, <1>5 DEF FramesInv, HostInv
<1>7. PollDue' /\ NicSignalled' /\ TxAnswered'
  BY <1>1, <1>4 DEF FramesInv, PollDue, NicSignalled, TxAnswered, Runs
<1>8. NicReleased' /\ Fresh' /\ Looping'
  BY <1>1, <1>4, <1>5 DEF FramesInv, NicReleased, Fresh, Looping, Hvf
<1> QED BY <1>1, <1>4, <1>6, <1>7, <1>8 DEF FramesInv

\* It ends.
LEMMA ReaderEndsKeeps ==
  ASSUME FramesInv, ReaderEnds
  PROVE  FramesInv'
<1>1. /\ feed \in Feeds /\ drv' = drv /\ nic' = nic /\ feed.reader = "read" /\ feed' = [feed EXCEPT !.reader = "ended"]
  BY FieldTypes DEF ReaderEnds
<1>2. feed' \in Feeds
  BY <1>1 DEF Feeds
<1>3. /\ feed'.source = feed.source /\ feed'.sent = feed.sent /\ feed'.reader = "ended" /\ feed'.bound = feed.bound
      /\ feed'.pipe = feed.pipe /\ feed'.pending = feed.pending
  BY <1>1 DEF Feeds
<1>4. nic.phase \notin {"new", "gone"} /\ nic.kind = "hvf_socket"
  BY <1>1 DEF FramesInv, HostInv, NicReleased
<1>5. HostInv(nic', feed')
  BY <1>1, <1>2, <1>3, <1>4 DEF FramesInv, HostInv
<1>6. PollDue' /\ NicSignalled' /\ TxAnswered'
  BY <1>1, <1>3 DEF FramesInv, PollDue, NicSignalled, TxAnswered, Runs
<1>7. NicReleased' /\ Fresh' /\ Looping'
  BY <1>1, <1>3, <1>4 DEF FramesInv, NicReleased, Fresh, Looping, Hvf
<1> QED BY <1>1, <1>3, <1>5, <1>6, <1>7 DEF FramesInv

-----------------------------------------------------------------------------
\* What the driver does to the rings.
LEMMA ReadyKeeps ==
  ASSUME FramesInv, GuestReady
  PROVE  FramesInv'
<1>1. /\ nic \in Nics /\ drv' = drv /\ feed' = feed /\ nic.phase = "up" /\ ~nic.ready /\ nic' = [nic EXCEPT !.ready = TRUE]
  BY FieldTypes DEF GuestReady, Runs
<1>2. nic' \in Nics
  BY <1>1 DEF Nics
<1>3. /\ nic'.phase = nic.phase /\ nic'.kind = nic.kind /\ nic'.pc = nic.pc /\ nic'.ready
      /\ nic'.posted = nic.posted /\ nic'.frames = nic.frames /\ nic'.got = nic.got /\ nic'.lost = nic.lost
      /\ nic'.shorted = nic.shorted /\ nic'.last_avail = nic.last_avail
  BY <1>1 DEF Nics
<1>4. /\ nic'.used = nic.used /\ nic'.tx_used = nic.tx_used /\ nic'.line = nic.line
      /\ nic'.tx_last = nic.tx_last /\ nic'.tx_posted = nic.tx_posted
  BY <1>1 DEF Nics
<1>5. Sound(nic')
  BY <1>2, <1>3, <1>4 DEF FramesInv, Sound
<1>6. HostInv(nic', feed')
  BY <1>1, <1>3 DEF FramesInv, HostInv
<1>7. PollDue'
  <2>1. nic.posted = 0 /\ nic.last_avail \in Nat
    BY <1>1, FieldTypes DEF FramesInv, Sound
  <2>2. ~has_rx_buffer(nic')
    BY <1>3, <2>1 DEF has_rx_buffer
  <2> QED BY <2>2 DEF PollDue
<1>8. NicSignalled' /\ TxAnswered' /\ NicReleased' /\ Fresh' /\ Looping'
  BY <1>1, <1>3, <1>4 DEF FramesInv, NicSignalled, TxAnswered, NicReleased, Fresh, Looping, Runs, Hvf
<1> QED BY <1>1, <1>3, <1>5, <1>6, <1>7, <1>8 DEF FramesInv

\* It posts a receive buffer,
LEMMA PostsKeeps ==
  ASSUME FramesInv, GuestPostsBuffer
  PROVE  FramesInv'
<1> DEFINE p == nic.posted + 1
<1>1. /\ nic \in Nics /\ drv' = [drv EXCEPT !.kick = TRUE] /\ feed' = feed /\ nic.phase = "up" /\ nic.ready
      /\ p \in Nat /\ nic' = [nic EXCEPT !.posted = p] /\ drv \in NicDrivers
  BY FieldTypes DEF GuestPostsBuffer, Runs
<1> HIDE DEF p
<1>2. nic' \in Nics
  BY <1>1 DEF Nics
<1>3. /\ nic'.phase = nic.phase /\ nic'.kind = nic.kind /\ nic'.pc = nic.pc /\ nic'.ready = nic.ready
      /\ nic'.frames = nic.frames /\ nic'.got = nic.got /\ nic'.lost = nic.lost
      /\ nic'.shorted = nic.shorted
  BY <1>1 DEF Nics
<1>4. /\ nic'.used = nic.used /\ nic'.tx_used = nic.tx_used /\ nic'.line = nic.line
      /\ nic'.tx_last = nic.tx_last /\ nic'.tx_posted = nic.tx_posted
  BY <1>1 DEF Nics
<1>5. Sound(nic')
  BY <1>1, <1>2, <1>3, <1>4 DEF FramesInv, Sound
<1>6. HostInv(nic', feed')
  BY <1>1, <1>3 DEF FramesInv, HostInv
<1>7. drv' \in NicDrivers /\ drv'.isr = drv.isr /\ drv'.seen = drv.seen /\ drv'.kick /\ drv'.tx_kick = drv.tx_kick
  BY <1>1, DriversAre
<1>8. PollDue' /\ NicSignalled' /\ TxAnswered'
  BY <1>3, <1>4, <1>7 DEF FramesInv, PollDue, NicSignalled, TxAnswered, Runs
<1>9. NicReleased' /\ Fresh' /\ Looping'
  BY <1>1, <1>3 DEF FramesInv, NicReleased, Fresh, Looping, Hvf
<1> QED BY <1>1, <1>3, <1>5, <1>6, <1>7, <1>8, <1>9 DEF FramesInv

\* or a transmit buffer.
LEMMA TransmitsKeeps ==
  ASSUME FramesInv, GuestTransmits
  PROVE  FramesInv'
<1> DEFINE p == nic.tx_posted + 1
<1>1. /\ nic \in Nics /\ drv' = [drv EXCEPT !.tx_kick = TRUE] /\ feed' = feed /\ nic.phase = "up" /\ nic.ready
      /\ p \in Nat /\ p > nic.tx_posted /\ nic' = [nic EXCEPT !.tx_posted = p] /\ drv \in NicDrivers
      /\ nic.tx_last \in Nat /\ nic.tx_posted \in Nat
  BY FieldTypes DEF GuestTransmits, Runs
<1> HIDE DEF p
<1>2. nic' \in Nics
  BY <1>1 DEF Nics
<1>3. /\ nic'.phase = nic.phase /\ nic'.kind = nic.kind /\ nic'.pc = nic.pc /\ nic'.ready = nic.ready
      /\ nic'.frames = nic.frames /\ nic'.got = nic.got /\ nic'.lost = nic.lost
      /\ nic'.shorted = nic.shorted /\ nic'.posted = nic.posted
  BY <1>1 DEF Nics
<1>4. /\ nic'.used = nic.used /\ nic'.tx_used = nic.tx_used /\ nic'.line = nic.line /\ nic'.capped = nic.capped
      /\ nic'.tx_last = nic.tx_last /\ nic'.tx_posted = p /\ nic'.last_avail = nic.last_avail
  BY <1>1 DEF Nics
<1>5. Sound(nic')
  BY <1>1, <1>2, <1>3, <1>4 DEF FramesInv, Sound
<1>6. HostInv(nic', feed')
  BY <1>1, <1>3 DEF FramesInv, HostInv
<1>7. drv' \in NicDrivers /\ drv'.isr = drv.isr /\ drv'.seen = drv.seen /\ drv'.tx_kick /\ drv'.kick = drv.kick
  BY <1>1, DriversAre
<1>8. PollDue' /\ NicSignalled' /\ TxAnswered'
  BY <1>1, <1>3, <1>4, <1>7 DEF FramesInv, PollDue, NicSignalled, TxAnswered, Runs, has_rx_buffer
<1>9. NicReleased' /\ Fresh' /\ Looping'
  BY <1>1, <1>3 DEF FramesInv, NicReleased, Fresh, Looping, Hvf
<1> QED BY <1>1, <1>3, <1>5, <1>6, <1>7, <1>8, <1>9 DEF FramesInv

\* A write to the tap that fails ends the VM.
LEMMA ThrowsKeeps ==
  ASSUME FramesInv, WriteTapThrows
  PROVE  FramesInv'
<1> DEFINE t == nic.tx_last + 1
<1>1. /\ nic \in Nics /\ drv' = drv /\ feed' = feed /\ nic.phase = "up" /\ drv \in NicDrivers
      /\ t \in Nat /\ nic' = [nic EXCEPT !.phase = "threw", !.tx_last = t] /\ nic.pc = "idle"
  BY FieldTypes DEF WriteTapThrows, Runs
<1> HIDE DEF t
<1>2. nic' \in Nics
  BY <1>1 DEF Nics
<1>3. /\ nic'.phase = "threw" /\ nic'.kind = nic.kind /\ nic'.pc = nic.pc /\ nic'.ready = nic.ready
      /\ nic'.frames = nic.frames /\ nic'.got = nic.got /\ nic'.lost = nic.lost
      /\ nic'.shorted = nic.shorted /\ nic'.posted = nic.posted
  BY <1>1 DEF Nics
<1>4. Sound(nic')
  BY <1>1, <1>2, <1>3 DEF FramesInv, Sound
<1>5. HostInv(nic', feed')
  BY <1>1, <1>3 DEF FramesInv, HostInv
<1>6. PollDue' /\ NicSignalled' /\ TxAnswered' /\ NicReleased'
  BY <1>3 DEF PollDue, NicSignalled, TxAnswered, NicReleased, Runs
<1>7. Fresh' /\ Looping'
  BY <1>1, <1>3 DEF Fresh, Looping
<1> QED BY <1>1, <1>3, <1>4, <1>5, <1>6, <1>7 DEF FramesInv

\* Its interrupt handler.
LEMMA IsrKeeps ==
  ASSUME FramesInv, Isr
  PROVE  FramesInv'
<1>1. /\ nic \in Nics /\ feed' = feed /\ nic.phase = "up" /\ drv \in NicDrivers /\ nic.used \in Nat /\ nic.tx_used \in Nat
  BY FieldTypes DEF Isr, Runs
<1>2. CASE nic.line /\ drv.isr = "run" /\ drv' = [drv EXCEPT !.isr = "ack"] /\ nic' = nic
  <2>1. drv' \in NicDrivers /\ drv'.isr = "ack" /\ drv'.kick = drv.kick /\ drv'.tx_kick = drv.tx_kick
    BY <1>1, <1>2 DEF NicDrivers
  <2>2. PollDue' /\ NicSignalled' /\ TxAnswered' /\ NicReleased' /\ Fresh' /\ Looping'
    BY <1>1, <1>2, <2>1 DEF FramesInv, PollDue, NicSignalled, TxAnswered, NicReleased, Fresh, Looping, Runs, Hvf
  <2> QED BY <1>1, <1>2, <2>1, <2>2 DEF FramesInv
<1>3. CASE drv.isr = "ack" /\ drv' = [drv EXCEPT !.isr = "look"] /\ nic' = [nic EXCEPT !.int = FALSE, !.line = FALSE]
  <2>1. drv' \in NicDrivers /\ drv'.isr = "look" /\ drv'.kick = drv.kick /\ drv'.tx_kick = drv.tx_kick
    BY <1>1, <1>3 DEF NicDrivers
  <2>2. nic' \in Nics
    BY <1>1, <1>3 DEF Nics
  <2>3. /\ nic'.phase = nic.phase /\ nic'.kind = nic.kind /\ nic'.pc = nic.pc /\ nic'.ready = nic.ready
        /\ nic'.frames = nic.frames /\ nic'.got = nic.got /\ nic'.lost = nic.lost
        /\ nic'.shorted = nic.shorted /\ nic'.posted = nic.posted
    BY <1>1, <1>3 DEF Nics
  <2>4. /\ nic'.tx_used = nic.tx_used /\ nic'.capped = nic.capped /\ nic'.last_avail = nic.last_avail
        /\ nic'.tx_last = nic.tx_last /\ nic'.tx_posted = nic.tx_posted /\ nic'.used = nic.used
    BY <1>1, <1>3 DEF Nics
  <2>5. Sound(nic')
    BY <2>2, <2>3, <2>4 DEF FramesInv, Sound
  <2>6. HostInv(nic', feed')
    BY <1>1, <2>3 DEF FramesInv, HostInv
  <2>7. PollDue' /\ NicSignalled' /\ TxAnswered'
    BY <1>1, <2>1, <2>3, <2>4 DEF FramesInv, PollDue, NicSignalled, TxAnswered, Runs, has_rx_buffer
  <2>8. NicReleased' /\ Fresh' /\ Looping'
    BY <1>1, <2>3 DEF FramesInv, NicReleased, Fresh, Looping, Hvf
  <2> QED BY <1>1, <2>1, <2>3, <2>5, <2>6, <2>7, <2>8 DEF FramesInv
<1>4. CASE drv.isr = "look" /\ drv' = [drv EXCEPT !.isr = "run", !.seen = nic.used + nic.tx_used] /\ nic' = nic
  <2> DEFINE s == nic.used + nic.tx_used
  <2>1. s \in Nat
    BY <1>1
  <2>2. drv' \in NicDrivers /\ drv'.seen = s /\ drv'.kick = drv.kick /\ drv'.tx_kick = drv.tx_kick
    <3>1. drv' = [drv EXCEPT !.isr = "run", !.seen = s]
      BY <1>4
    <3> HIDE DEF s
    <3> QED BY <1>1, <2>1, <3>1 DEF NicDrivers
  <2>3. NicSignalled'
    BY <1>4, <2>1, <2>2 DEF NicSignalled
  <2>4. PollDue' /\ TxAnswered' /\ NicReleased' /\ Fresh' /\ Looping'
    BY <1>1, <1>4, <2>2 DEF FramesInv, PollDue, TxAnswered, NicReleased, Fresh, Looping, Runs, Hvf
  <2> QED BY <1>1, <1>4, <2>2, <2>3, <2>4 DEF FramesInv
<1> QED BY <1>2, <1>3, <1>4 DEF Isr

\* reset: the rings are empty, what waits stays.
LEMMA NicResetKeeps ==
  ASSUME FramesInv, reset_dev
  PROVE  FramesInv'
<1>1. /\ nic \in Nics /\ feed' = feed /\ nic.phase = "up" /\ drv \in NicDrivers /\ nic.pc = "idle"
      /\ nic' = [nic EXCEPT !.ready = FALSE, !.last_avail = 0, !.posted = 0, !.used = 0, !.int = FALSE,
                            !.line = FALSE, !.tx_last = 0, !.tx_posted = 0, !.tx_used = 0]
      /\ drv' = [kick |-> FALSE, tx_kick |-> FALSE, isr |-> "run", seen |-> 0, resets |-> drv.resets + 1]
  BY FieldTypes DEF reset_dev, Runs
<1>2. nic' \in Nics
  BY <1>1 DEF Nics
<1>3. /\ nic'.phase = nic.phase /\ nic'.kind = nic.kind /\ nic'.pc = nic.pc /\ ~nic'.ready /\ nic'.posted = 0
      /\ nic'.frames = nic.frames /\ nic'.got = nic.got /\ nic'.lost = nic.lost /\ nic'.shorted = nic.shorted
  BY <1>1 DEF Nics
<1>4. nic'.tx_used = 0 /\ nic'.tx_last = 0 /\ nic'.tx_posted = 0 /\ nic'.used = 0
  BY <1>1 DEF Nics
<1>5. drv' \in NicDrivers /\ drv'.seen = 0
  <2>1. drv.resets + 1 \in Nat
    BY <1>1 DEF NicDrivers
  <2> QED BY <1>1, <2>1 DEF NicDrivers
<1>6. Sound(nic')
  BY <1>2, <1>3, <1>4 DEF FramesInv, Sound
<1>7. HostInv(nic', feed')
  BY <1>1, <1>3 DEF FramesInv, HostInv
<1>8. PollDue' /\ NicSignalled' /\ TxAnswered'
  BY <1>3, <1>4, <1>5 DEF PollDue, NicSignalled, TxAnswered, has_rx_buffer
<1>9. NicReleased' /\ Fresh' /\ Looping'
  BY <1>1, <1>3 DEF FramesInv, NicReleased, Fresh, Looping, Hvf
<1> QED BY <1>1, <1>3, <1>5, <1>6, <1>7, <1>8, <1>9 DEF FramesInv

\* A turn of HVF's loop hands one frame over.
Turned(m, n, f) ==
  /\ Sound(m) /\ m.kind = n.kind /\ m.pc = n.pc /\ m.frames = n.frames
  /\ (m.got = Append(n.got, f) /\ m.lost = n.lost) \/ (m.got = n.got /\ m.lost = n.lost \cup {f})
  /\ m.phase = "threw" \/ Announced(m, n)
\* Whatever it is, the device is sound again.
LEMMA TurnIs ==
  ASSUME NEW n, Sound(n), n.phase = "up", n.kind \in {"hvf_slirp", "hvf_socket", "hvf_vmnet"}, NEW f \in Nat
  PROVE  Turned([hvf_inject_rx_frame(n, f) EXCEPT !.iter = @ + 1], n, f)
<1> DEFINE m == [hvf_inject_rx_frame(n, f) EXCEPT !.iter = @ + 1]
<1> DEFINE q == hvf_inject_rx_frame(n, f)
<1>1. n \in Nics
  BY DEF Sound
<1>2. /\ q \in Nics /\ q.frames = n.frames /\ q.kind = n.kind /\ q.pc = n.pc
      /\ q.ready = n.ready /\ q.posted = n.posted /\ q.shorted >= n.shorted
      /\ \/ q.phase = "threw" /\ f \in BigFrames /\ q.got = n.got /\ q.lost = n.lost \cup {f}
         \/ Announced(q, n) /\ q.got = Append(n.got, f) /\ q.lost = n.lost
         \/ Announced(q, n) /\ q.got = n.got /\ q.lost = n.lost \cup {f} /\ q.shorted > 0
  BY <1>1, HvfInjectIs
<1>0. m = [q EXCEPT !.iter = q.iter + 1]
  OBVIOUS
<1> HIDE DEF q, m
<1>3. q.shorted \in Nat /\ n.shorted \in Nat /\ q.used \in Nat /\ n.used \in Nat
  BY <1>1, <1>2 DEF Nics
<1>4. Sound(q)
  BY <1>2, <1>3 DEF Sound, Announced
<1> DEFINE i == q.iter + 1
<1>5. i \in Nat /\ m = [q EXCEPT !.iter = i]
  BY <1>0, <1>2 DEF Nics
<1> HIDE DEF i
<1>6. m \in Nics
  <2>1. q \in Nics
    BY <1>2
  <2> QED BY <1>5, <2>1 DEF Nics
<1>7. Announced(m, q)
  <2>1. q \in Nics
    BY <1>2
  <2>2. m.used = q.used /\ m.kind = q.kind /\ m.phase = q.phase /\ m.pc = q.pc /\ m.ready = q.ready /\ m.posted = q.posted
    BY <1>5, <2>1 DEF Nics
  <2>3. m.tx_last = q.tx_last /\ m.tx_posted = q.tx_posted /\ m.tx_used = q.tx_used /\ m.line = q.line
    BY <1>5, <2>1 DEF Nics
  <2> QED BY <1>3, <2>2, <2>3 DEF Announced
<1>8. m.frames = q.frames /\ m.got = q.got /\ m.lost = q.lost /\ m.shorted = q.shorted
  BY <1>2, <1>5 DEF Nics
<1>9. Sound(m)
  BY <1>4, <1>6, <1>7, <1>8 DEF Sound, Announced
<1>10. m.used \in Nat /\ m.kind = n.kind /\ m.pc = n.pc /\ m.phase = q.phase
  <2>1. m.used \in Nat
    BY <1>6 DEF Nics
  <2> QED BY <1>2, <1>7, <2>1 DEF Announced
<1>11. Announced(q, n) => Announced(m, n)
  BY <1>3, <1>7, <1>10 DEF Announced
<1>12. m.phase = "threw" \/ Announced(m, n)
  BY <1>2, <1>10, <1>11
<1>13. (m.got = Append(n.got, f) /\ m.lost = n.lost) \/ (m.got = n.got /\ m.lost = n.lost \cup {f})
  BY <1>2, <1>8
<1>14. m.frames = n.frames
  BY <1>2, <1>8
<1> QED BY <1>9, <1>10, <1>12, <1>13, <1>14 DEF Turned, m

\* One turn of HVF's poll_rx, and its end.
LEMMA TurnKeeps ==
  ASSUME NetFramesAssumption, FramesInv, HvfPollTurn
  PROVE  FramesInv'
<1> DEFINE waiting == IF nic.kind = "hvf_vmnet" THEN feed.source ELSE nic.frames
           stops == nic.iter = PollLimit \/ ~has_rx_buffer(nic) \/ waiting = <<>>
           popped == IF nic.kind = "hvf_vmnet" THEN nic ELSE [nic EXCEPT !.frames = Tail(@)]
<1>1. /\ nic \in Nics /\ feed \in Feeds /\ drv' = drv /\ nic.phase = "up" /\ nic.pc = "poll"
      /\ nic.kind \in {"hvf_slirp", "hvf_socket", "hvf_vmnet"} /\ Sound(nic) /\ HostInv(nic, feed)
      /\ Passing(nic.got, nic.frames, feed.source, nic.lost, feed.sent)
  BY FieldTypes DEF HvfPollTurn, Runs, FramesInv, Looping, Hvf
<1>2. /\ feed.source \in Seq(Nat) /\ feed.sent \in Nat /\ nic.frames \in Seq(Nat) /\ nic.got \in Seq(Nat)
      /\ nic.used \in Nat /\ nic.tx_used \in Nat /\ drv.seen \in Nat
  BY FieldTypes
<1>3. ASSUME NEW c \in BOOLEAN, nic' = [nic EXCEPT !.pc = "idle", !.capped = c], feed' = feed,
             waiting = <<>> \/ ~has_rx_buffer(nic) \/ c
      PROVE  FramesInv'
  <2>1. c \in BOOLEAN /\ nic' = [nic EXCEPT !.pc = "idle", !.capped = c]
    BY <1>3
  <2>2. waiting = <<>> \/ ~has_rx_buffer(nic) \/ c
    BY <1>3
  <2>3. nic' \in Nics
    BY <1>1, <2>1 DEF Nics
  <2>4. /\ nic'.phase = nic.phase /\ nic'.kind = nic.kind /\ nic'.pc = "idle" /\ nic'.ready = nic.ready
        /\ nic'.frames = nic.frames /\ nic'.got = nic.got /\ nic'.lost = nic.lost
        /\ nic'.shorted = nic.shorted /\ nic'.posted = nic.posted
    BY <1>1, <2>1 DEF Nics
  <2>5. /\ nic'.tx_used = nic.tx_used /\ nic'.capped = c /\ nic'.last_avail = nic.last_avail
        /\ nic'.tx_last = nic.tx_last /\ nic'.tx_posted = nic.tx_posted /\ nic'.used = nic.used /\ nic'.line = nic.line
    BY <1>1, <2>1 DEF Nics
  <2>6. Sound(nic')
    BY <2>3, <2>4, <2>5 DEF FramesInv, Sound
  <2>7. HostInv(nic', feed')
    BY <1>3, <2>4 DEF FramesInv, HostInv
  <2>8. PollDue'
    BY <1>3, <2>2, <2>4, <2>5 DEF PollDue, has_rx_buffer
  <2>9. NicSignalled' /\ TxAnswered' /\ NicReleased' /\ Fresh' /\ Looping'
    BY <1>1, <1>3, <2>4, <2>5 DEF FramesInv, NicSignalled, TxAnswered, NicReleased, Fresh, Looping, Runs, Hvf
  <2> QED BY <1>1, <1>3, <2>4, <2>6, <2>7, <2>8, <2>9 DEF FramesInv
<1>4. CASE /\ ~stops /\ nic' = [hvf_inject_rx_frame(popped, Head(waiting)) EXCEPT !.iter = @ + 1]
           /\ feed' = IF nic.kind = "hvf_vmnet" THEN [feed EXCEPT !.source = Tail(@)] ELSE feed
  <2> DEFINE x == Head(waiting)
             t == Tail(waiting)
  <2>1. waiting # <<>> /\ waiting \in Seq(Nat)
    BY <1>2, <1>4
  <2>2. x \in Nat /\ t \in Seq(Nat)
    BY <2>1, TailIs
  <2>3. /\ Sound(popped) /\ popped.phase = "up" /\ popped.kind = nic.kind /\ popped.pc = "poll"
        /\ popped.got = nic.got /\ popped.lost = nic.lost /\ Announced(popped, nic)
        /\ nic.kind = "hvf_vmnet" => popped.frames = <<>> /\ nic.frames = <<>>
        /\ nic.kind # "hvf_vmnet" => popped.frames = t
    <3>1. CASE nic.kind = "hvf_vmnet"
      <4>1. nic.frames = <<>> /\ popped = nic
        BY <1>1, <3>1 DEF Sound
      <4> QED BY <1>1, <1>2, <3>1, <4>1 DEF Announced
    <3>2. CASE nic.kind # "hvf_vmnet"
      <4> DEFINE p == [nic EXCEPT !.frames = t]
      <4>1. popped = p
        BY <3>2
      <4> HIDE DEF t
      <4>2. p \in Nics
        BY <1>1, <2>2 DEF Nics
      <4>3. /\ p.phase = "up" /\ p.kind = nic.kind /\ p.pc = "poll" /\ p.got = nic.got /\ p.lost = nic.lost
            /\ p.frames = t /\ p.shorted = nic.shorted
        BY <1>1 DEF Nics
      <4>4. Announced(p, nic)
        BY <1>1 DEF Nics, Announced
      <4> HIDE DEF p
      <4>5. Sound(p)
        BY <1>1, <3>2, <4>2, <4>3, <4>4 DEF Sound, Announced
      <4> HIDE DEF popped
      <4> QED BY <3>2, <4>1, <4>3, <4>4, <4>5
    <3> QED BY <3>1, <3>2
  <2>4. /\ Sound(nic') /\ nic'.kind = nic.kind /\ nic'.pc = "poll" /\ nic'.frames = popped.frames
        /\ (nic'.got = Append(nic.got, x) /\ nic'.lost = nic.lost) \/ (nic'.got = nic.got /\ nic'.lost = nic.lost \cup {x})
        /\ nic'.phase = "threw" \/ Announced(nic', popped)
    <3> HIDE DEF popped
    <3>1. nic' = [hvf_inject_rx_frame(popped, x) EXCEPT !.iter = @ + 1]
      BY <1>4
    <3> HIDE DEF x
    <3>2. popped.kind \in {"hvf_slirp", "hvf_socket", "hvf_vmnet"} /\ Sound(popped) /\ popped.phase = "up" /\ x \in Nat
      BY <1>1, <2>2, <2>3 DEF x
    <3>3. Turned([hvf_inject_rx_frame(popped, x) EXCEPT !.iter = @ + 1], popped, x)
      BY <3>2, TurnIs, Zenon
    <3>4. Turned(nic', popped, x)
      BY <3>1, <3>3
    <3> QED BY <2>3, <3>4 DEF Turned
  <2>5. nic'.phase = "threw" \/ Announced(nic', nic)
    <3> HIDE DEF popped
    <3>1. nic'.used \in Nat /\ popped.used \in Nat
      BY <2>3, <2>4 DEF Sound, Nics
    <3> QED BY <1>2, <2>3, <2>4, <3>1 DEF Announced
  <2>6. /\ feed' \in Feeds /\ feed'.sent = feed.sent /\ feed'.reader = feed.reader /\ feed'.pending = feed.pending
        /\ feed'.pipe = feed.pipe /\ feed'.source = IF nic.kind = "hvf_vmnet" THEN t ELSE feed.source
    <3>1. CASE nic.kind = "hvf_vmnet"
      <4>1. feed' = [feed EXCEPT !.source = t]
        BY <1>1, <1>4, <3>1 DEF Feeds
      <4> HIDE DEF t
      <4>2. feed' \in Feeds
        BY <1>1, <2>2, <4>1 DEF Feeds
      <4>3. /\ feed'.sent = feed.sent /\ feed'.reader = feed.reader /\ feed'.pending = feed.pending
            /\ feed'.pipe = feed.pipe /\ feed'.source = t
        BY <1>1, <4>1 DEF Feeds
      <4> QED BY <3>1, <4>2, <4>3
    <3>2. CASE nic.kind # "hvf_vmnet"
      BY <1>1, <1>4, <3>2
    <3> QED BY <3>1, <3>2
  <2>7. Passing(nic'.got, nic'.frames, feed'.source, nic'.lost, feed'.sent)
    <3> HIDE DEF popped
    <3>1. CASE nic.kind = "hvf_vmnet"
      <4>1. x = Head(feed.source) /\ t = Tail(feed.source) /\ feed.source # <<>> /\ feed'.source = t
        BY <2>1, <2>6, <3>1
      <4>2. Passing(nic.got, <<>>, feed.source, nic.lost, feed.sent) /\ nic'.frames = <<>>
        BY <1>1, <2>3, <2>4, <3>1
      <4>3. /\ Passing(Append(nic.got, Head(feed.source)), <<>>, Tail(feed.source), nic.lost, feed.sent)
            /\ Passing(nic.got, <<>>, Tail(feed.source), nic.lost \cup {Head(feed.source)}, feed.sent)
        BY <1>2, <4>1, <4>2, PassThrough, DropPassing
      <4>4. feed'.sent = feed.sent
        BY <2>6
      <4> HIDE DEF x, t
      <4>5. CASE nic'.got = Append(nic.got, x) /\ nic'.lost = nic.lost
        BY <4>1, <4>2, <4>3, <4>4, <4>5
      <4>6. CASE nic'.got = nic.got /\ nic'.lost = nic.lost \cup {x}
        BY <4>1, <4>2, <4>3, <4>4, <4>6
      <4> QED BY <2>4, <4>5, <4>6
    <3>2. CASE nic.kind # "hvf_vmnet"
      <4>1. x = Head(nic.frames) /\ t = Tail(nic.frames) /\ nic.frames # <<>>
        BY <2>1, <3>2
      <4>2. feed'.source = feed.source /\ nic'.frames = t
        BY <2>3, <2>4, <2>6, <3>2
      <4>3. /\ Passing(Append(nic.got, Head(nic.frames)), Tail(nic.frames), feed.source, nic.lost, feed.sent)
            /\ Passing(nic.got, Tail(nic.frames), feed.source, nic.lost \cup {Head(nic.frames)}, feed.sent)
        BY <1>1, <1>2, <4>1, PassToGuest, DropWaiting
      <4> HIDE DEF x, t
      <4> QED BY <2>4, <2>6, <4>1, <4>2, <4>3
    <3> QED BY <3>1, <3>2
  <2> HIDE DEF popped, waiting, stops
  <2>8. nic'.phase \in {"up", "threw"}
    BY <1>1, <2>5 DEF Announced
  <2>9. HostInv(nic', feed')
    BY <1>1, <2>4, <2>6, <2>8 DEF HostInv
  <2>10. NicSignalled'
    <3>1. SUFFICES ASSUME Announced(nic', nic), drv.isr = "run", nic'.used + nic'.tx_used > drv.seen PROVE nic'.line
      BY <1>1, <2>5 DEF NicSignalled, Runs
    <3>2. CASE nic'.used # nic.used
      BY <3>1, <3>2 DEF Announced
    <3>3. CASE nic'.used = nic.used
      <4>1. nic.used + nic.tx_used > drv.seen
        BY <1>2, <3>1, <3>3 DEF Announced
      <4>2. nic.line
        BY <1>1, <3>1, <4>1 DEF FramesInv, NicSignalled, Runs
      <4> QED BY <3>1, <4>2 DEF Announced
    <3> QED BY <3>2, <3>3
  <2>11. PollDue' /\ NicReleased' /\ Fresh' /\ Looping'
    BY <1>1, <2>4, <2>8 DEF PollDue, NicReleased, Fresh, Looping, Hvf
  <2>12. TxAnswered'
    BY <1>1, <2>5 DEF FramesInv, TxAnswered, Runs, Announced
  <2>13. drv' \in NicDrivers
    BY <1>1, FieldTypes
  <2> QED BY <2>4, <2>7, <2>9, <2>10, <2>11, <2>12, <2>13 DEF FramesInv
<1>5. CASE stops /\ nic' = [nic EXCEPT !.pc = "idle", !.capped = nic.iter = PollLimit] /\ feed' = feed
  <2> DEFINE c == nic.iter = PollLimit
  <2>1. c \in BOOLEAN /\ (waiting = <<>> \/ ~has_rx_buffer(nic) \/ c)
    BY <1>5
  <2>2. nic' = [nic EXCEPT !.pc = "idle", !.capped = c] /\ feed' = feed
    BY <1>5
  <2> HIDE DEF c
  <2> QED BY <1>3, <2>1, <2>2
<1>6. CASE nic' = [nic EXCEPT !.pc = "idle", !.capped = TRUE] /\ feed' = feed
  BY <1>3, <1>6
<1> QED BY <1>1, <1>4, <1>5, <1>6 DEF HvfPollTurn

-----------------------------------------------------------------------------
\* What waits nowhere else is in order and in one place.
LEMMA KeptIs ==
  ASSUME FramesInv
  PROVE  FramesKept
<1>1. /\ nic.got \in Seq(Nat) /\ nic.frames \in Seq(Nat) /\ feed.source \in Seq(Nat)
      /\ Passing(nic.got, nic.frames, feed.source, nic.lost, feed.sent) /\ Sound(nic)
  BY FieldTypes DEF FramesInv
<1>2. FramesInOrder
  <2>1. DOMAIN nic.got = 1..Len(nic.got)
    BY <1>1
  <2> QED BY <1>1, <2>1 DEF FramesInOrder, Passing, Rising
<1>3. NoFrameVanishes
  <2> DEFINE a == Elems(feed.source)
             b == Elems(nic.frames)
             c == Elems(nic.got)
             d == nic.lost
             places == <<a, b, c, d>>
  <2>1. places[1] = a /\ places[2] = b /\ places[3] = c /\ places[4] = d
    OBVIOUS
  <2>2. /\ \A x \in a : x \in Nat /\ x \notin b /\ x \notin c /\ x \notin d
        /\ \A x \in b : x \in Nat /\ x \notin c /\ x \notin d
        /\ \A x \in c : x \in Nat /\ x \notin d
    <3>1. (\A x \in a : x \in Nat) /\ (\A x \in b : x \in Nat) /\ (\A x \in c : x \in Nat)
      BY <1>1 DEF Elems
    <3>2. /\ \A x \in c, y \in b : x < y
          /\ \A x \in c, y \in a : x < y
          /\ \A x \in b, y \in a : x < y
          /\ \A f \in d : f \notin c /\ f \notin b /\ f \notin a
      BY <1>1 DEF Passing, Before
    <3> HIDE DEF a, b, c, d
    <3> QED BY <3>1, <3>2
  <2>3. a \cup b \cup c \cup d = 1..feed.sent
    BY <1>1 DEF Passing
  <2> HIDE DEF a, b, c, d, places
  <2>4. ASSUME NEW f \in 1..feed.sent
        PROVE  \E p \in 1..4 : f \in places[p] /\ \A q \in 1..4 \ {p} : f \notin places[q]
    <3>1. \A q \in 1..4 : q = 1 \/ q = 2 \/ q = 3 \/ q = 4
      OBVIOUS
    <3>2. CASE f \in a
      <4>1. f \in places[1] /\ \A q \in 1..4 \ {1} : f \notin places[q]
        BY <2>1, <2>2, <3>1, <3>2
      <4> QED BY <4>1
    <3>3. CASE f \in b
      <4>1. f \in places[2] /\ \A q \in 1..4 \ {2} : f \notin places[q]
        BY <2>1, <2>2, <3>1, <3>3
      <4> QED BY <4>1
    <3>4. CASE f \in c
      <4>1. f \in places[3] /\ \A q \in 1..4 \ {3} : f \notin places[q]
        BY <2>1, <2>2, <3>1, <3>4
      <4> QED BY <4>1
    <3>5. CASE f \in d
      <4>1. f \in places[4] /\ \A q \in 1..4 \ {4} : f \notin places[q]
        BY <2>1, <2>2, <3>1, <3>5
      <4> QED BY <4>1
    <3> QED BY <2>3, <3>2, <3>3, <3>4, <3>5
  <2>5. /\ nic.kind = "kvm_slirp" => nic.lost = {}
        /\ Hvf /\ nic.shorted = 0 => nic.lost \subseteq BigFrames
    BY <1>1 DEF Sound, Hvf
  <2> QED BY <2>4, <2>5 DEF NoFrameVanishes, places, a, b, c, d
<1> QED BY <1>2, <1>3 DEF FramesInv, FramesKept

\* Every step keeps the invariant, and so every behaviour keeps the frames.
THEOREM FramesKeptHolds == NetFramesSpec => []FramesKept
<1> USE NetFramesAssumption
<1>1. NetFramesInit => FramesInv
  BY FramesInit
<1>2. FramesInv /\ [NetFramesNext]_netFrameVars => FramesInv'
  <2> SUFFICES ASSUME FramesInv, [NetFramesNext]_netFrameVars PROVE FramesInv'
    OBVIOUS
  <2>1. CASE \E k \in 1..Forwards + 1 : start_slirp(k)
    BY <2>1, StartSlirpKeeps
  <2>2. CASE start \/ stop_vmnet \/ JoinReader
    BY <2>2, StartKeeps, StopKeeps, JoinKeeps
  <2>3. CASE HostSendsFrame \/ ReaderQueues \/ ReaderNotifies \/ ReaderEnds
    BY <2>3, HostKeeps, ReaderQueuesKeeps, ReaderNotifiesKeeps, ReaderEndsKeeps
  <2>4. CASE HvfPollTurn
    BY <2>4, TurnKeeps
  <2>5. CASE GuestReady \/ GuestPostsBuffer \/ GuestTransmits \/ WriteTapThrows \/ Isr \/ reset_dev
    BY <2>5, ReadyKeeps, PostsKeeps, TransmitsKeeps, ThrowsKeeps, IsrKeeps, NicResetKeeps
  <2>6. CASE \E emits \in BOOLEAN :
               poll_devices(emits) \/ WfiPolls(emits) \/ GuestKicks(emits) \/ GuestKicksTx(emits)
    BY <2>6, PollsKeep
  <2>7. CASE UNCHANGED netFrameVars
    BY <2>7 DEF netFrameVars, FramesInv, Fresh, Looping, Sound, HostInv, PollDue, NicSignalled, TxAnswered,
                NicReleased, Runs, Hvf
  <2> QED BY <2>1, <2>2, <2>3, <2>4, <2>5, <2>6, <2>7 DEF NetFramesNext
<1>3. FramesInv => FramesKept
  BY KeptIs
<1> QED BY <1>1, <1>2, <1>3, PTL DEF NetFramesSpec

-----------------------------------------------------------------------------
(***************************************************************************)
(* Proofs about the block requests of WHP and HVF (OverlayDisk), for every  *)
(* size of the image and of the sector, every width of the integers that    *)
(* leaves room for the image, every list of descriptors and every transfer  *)
(* that fails after some of its bytes.                                      *)
(*                                                                         *)
(* Did says of a request how far it has come: it is the invariant of the    *)
(* loop over the descriptors (TransferDid), whose recursive functions       *)
(* (Transfers, and Start, which adds up the lengths) are unrolled with      *)
(* DataInduction.  The arithmetic it rests on is that of quotients: whole   *)
(* sectors cover their bytes (SectorsAre), and no check wraps (RangeIs).    *)
(***************************************************************************)

\* The bytes of whole sectors are those of the sectors in between.
LEMMA SectorsAre ==
  ASSUME DiskSizeAssumption, NEW s \in Nat, NEW len \in Nat, len % SectorBytes = 0, NEW b \in Nat
  PROVE  LET q == len \div SectorBytes
             off == s * SectorBytes
         IN  /\ q \in Nat /\ off \in Nat /\ SectorOf(b) \in Nat /\ (s + q) * SectorBytes = off + len
             /\ off <= b /\ b < off + len <=> s <= SectorOf(b) /\ SectorOf(b) < s + q
             /\ len = 0 <=> q = 0
<1> DEFINE N == SectorBytes
           q == len \div N
           off == s * N
           t == b \div N
<1>0. N \in Nat \ {0}
  BY DEF DiskSizeAssumption
<1>1. q \in Nat /\ q * N = len /\ off \in Nat /\ t \in Nat
  BY <1>0, DivWhole, DivIs
<1>2. (s + q) * N = off + len /\ s + q \in Nat
  <2> HIDE DEF q, N
  <2>1. (s + q) * N = s * N + q * N
    BY <1>0, <1>1
  <2> QED BY <1>1, <2>1
<1>3. s * N <= b <=> s <= t
  BY <1>0, DivAtLeast
<1>4. (s + q) * N <= b <=> s + q <= t
  <2> DEFINE u == s + q
  <2>1. u \in Nat
    BY <1>2
  <2> HIDE DEF u, N, t
  <2>2. u * N <= b <=> u <= t
    BY <1>0, <2>1, DivAtLeast DEF t
  <2> QED BY <2>2 DEF u
<1>5. len = 0 <=> q = 0
  <2> HIDE DEF q, N
  <2>1. q * N = 0 <=> q = 0
    BY <1>0, <1>1
  <2> QED BY <1>1, <2>1
<1> HIDE DEF q, N, off, t
<1>6. off <= b /\ b < off + len <=> s <= t /\ t < s + q
  <2>1. off <= b <=> s <= t
    BY <1>3 DEF off
  <2>2. off + len <= b <=> s + q <= t
    BY <1>2, <1>4
  <2> QED BY <1>1, <1>2, <2>1, <2>2
<1> QED BY <1>1, <1>2, <1>5, <1>6 DEF q, N, off, t, SectorOf

\* The checks of a transfer in unbounded numbers.
Ranged(d, s, len) ==
  /\ InRange(d, s, len) <=> s * SectorBytes + len <= DiskBytes
  /\ InRange(d, s, len) => (s * SectorBytes) % Wide = s * SectorBytes

\* The checks of a transfer are those of unbounded numbers.
LEMMA RangeIs ==
  ASSUME DiskSizeAssumption, NEW s \in 0..Wide - 1, NEW len \in Nat, NEW d, d.backend \in {"whp", "hvf"}
  PROVE  Ranged(d, s, len)
<1> DEFINE N == SectorBytes
           a == s * N
           off == a % Wide
           h == Wide \div 2
           l == (Wide - 1) \div N
<1>0. /\ N \in Nat \ {0} /\ Wide \in Nat /\ Wide > DiskBytes + N /\ DiskBytes \in Nat /\ DiskBytes < h /\ s \in Nat
      /\ h \in Nat /\ Wide \in Nat \ {0} /\ Wide - 1 \in Nat
  <2>1. /\ N \in Nat \ {0} /\ Wide \in Nat /\ Wide > DiskBytes + N /\ DiskBytes \in Nat /\ DiskBytes < h
    BY DEF DiskSizeAssumption
  <2>2. Wide \div 2 \in Nat
    BY <2>1, DivIs
  <2> QED BY <2>1, <2>2
<1>1. a \in Nat /\ (a <= Wide - 1 <=> s <= l) /\ l \in Nat
  BY <1>0, DivAtLeast, DivIs
<1>2. a <= Wide - 1 => off = a
  <2> HIDE DEF a
  <2> QED BY <1>0, <1>1, ModSmall
<1>3. s = 0 => a = 0
  BY <1>0
<1>4. InRange(d, s, len) <=>
        IF d.backend = "whp" THEN (s = 0 \/ s <= l) /\ off <= DiskBytes /\ len <= DiskBytes - off
        ELSE /\ s <= l /\ off <= DiskBytes /\ len <= DiskBytes - off
             /\ off <= h - 1 /\ (len = 0 \/ len - 1 <= h - 1 - off)
  BY DEF InRange, whp_InRange, hvf_DiskOffset
<1> HIDE DEF a, l, h, N
<1>5. off = a => (off <= DiskBytes /\ len <= DiskBytes - off <=> a + len <= DiskBytes)
  BY <1>0, <1>1
<1>6. a + len <= DiskBytes => a <= h - 1 /\ len - 1 <= h - 1 - a /\ a <= Wide - 1
  BY <1>0, <1>1
<1>7. InRange(d, s, len) => a <= Wide - 1
  BY <1>0, <1>1, <1>3, <1>4
<1> HIDE DEF off
<1>8. InRange(d, s, len) => off = a /\ a + len <= DiskBytes
  BY <1>2, <1>4, <1>5, <1>7
<1>9. a + len <= DiskBytes => InRange(d, s, len)
  BY <1>1, <1>2, <1>4, <1>5, <1>6
<1> QED BY <1>8, <1>9 DEF a, N, off, Ranged

\* The type of a disk.
Disks ==
  [backend : {"whp", "hvf"}, overlaid : BOOLEAN, read_only : BOOLEAN, n : Nat,
   base : [Bytes -> Nat], overlay : [Bytes -> Nat], dirty : SUBSET Nat]

\* The dirty sectors are whole sectors of the overlay that somebody wrote.
Dirtied(d) == \A s \in d.dirty : \A b \in Bytes : SectorOf(b) = s => d.overlay[b] # Unwritten

\* The same disk, opened the same way, with the same number of requests.
SameDisk(e, d) == e.backend = d.backend /\ e.overlaid = d.overlaid /\ e.read_only = d.read_only /\ e.n = d.n

\* What k bytes written at off leave in a file.
Into(d, f, off, k) == [b \in Bytes |-> IF b \in off..off + k - 1 THEN d.n + 1 ELSE f[b]]

\* The file g is f with k bytes of the running request at off.
FileOf(g, d, f, off, k) ==
  g \in [Bytes -> Nat] /\ \A b \in Bytes : g[b] = IF b \in off..off + k - 1 THEN d.n + 1 ELSE f[b]

\* The types of a file.
LEMMA IntoIs ==
  ASSUME NEW d \in Disks, NEW f \in [Bytes -> Nat], NEW off \in Nat, NEW k \in Nat
  PROVE  FileOf(Into(d, f, off, k), d, f, off, k)
<1>1. d.n + 1 \in Nat
  BY DEF Disks
<1>2. \A b \in Bytes : f[b] \in Nat
  OBVIOUS
<1> QED BY <1>1, <1>2 DEF Into, FileOf

\* Whole sectors need no copy of what was there before.
LEMMA NothingCopied ==
  ASSUME DiskSizeAssumption, NEW d \in Disks, NEW s \in Nat, NEW len \in Nat, len % SectorBytes = 0
  PROVE  prepare_partial_overlay_sectors(d, s * SectorBytes, len) = d
<1> DEFINE N == SectorBytes
           off == s * N
           q == len \div N
           partial(z) == ~(off <= z * N /\ off + len >= (z + 1) * N)
           last == SectorOf(off + len - 1)
           copied == {z \in SectorOf(off)..last : partial(z) /\ ~sector_dirty(d, z)}
           e == [d EXCEPT !.overlay = [b \in Bytes |-> IF SectorOf(b) \in copied THEN d.base[b] ELSE @[b]]]
<1>0. N \in Nat \ {0}
  BY DEF DiskSizeAssumption
<1>1. prepare_partial_overlay_sectors(d, off, len) = IF ~d.overlaid \/ len = 0 THEN d ELSE e
  BY DEF prepare_partial_overlay_sectors
<1>2. CASE len # 0
  <2>1. off \in Nat /\ q \in Nat /\ (s + q) * N = off + len
    BY SectorsAre
  <2>2. SectorOf(off) = s
    <3>1. off <= off /\ off < off + len
      BY <1>2, <2>1
    <3>2. s <= SectorOf(off) /\ SectorOf(off) \in Nat
      BY <2>1, <3>1, SectorsAre
    <3>3. (s + 1) * N = off + N
      BY <1>0
    <3>4. ~((s + 1) * N <= off)
      BY <1>0, <2>1, <3>3
    <3>5. ~(s + 1 <= SectorOf(off))
      <4> DEFINE u == s + 1
      <4>1. u \in Nat
        OBVIOUS
      <4> HIDE DEF u, off, N
      <4>2. u * N <= off <=> u <= off \div N
        BY <1>0, <2>1, <4>1, DivAtLeast
      <4> QED BY <3>4, <4>2 DEF u, SectorOf, N
    <3> QED BY <3>2, <3>5
  <2>3. last < s + q /\ last \in Nat
    <3> DEFINE b == off + len - 1
    <3>1. b \in Nat /\ off <= b /\ b < off + len
      BY <1>2, <2>1
    <3> HIDE DEF b
    <3>2. SectorOf(b) < s + q /\ SectorOf(b) \in Nat
      BY <3>1, SectorsAre
    <3> QED BY <3>2 DEF b
  <2>4. copied = {}
    <3> SUFFICES ASSUME NEW z \in SectorOf(off)..last PROVE ~partial(z)
      OBVIOUS
    <3>1. z \in Nat /\ s <= z /\ z + 1 <= s + q /\ z + 1 \in Nat /\ s + q \in Nat
      BY <2>1, <2>2, <2>3
    <3>2. off <= z * N
      BY <1>0, <3>1, TimesMono
    <3>3. (z + 1) * N <= (s + q) * N
      <4> DEFINE u == z + 1
                 v == s + q
      <4>1. u \in Nat /\ v \in Nat /\ u <= v
        BY <3>1
      <4> HIDE DEF u, v
      <4>2. u * N <= v * N
        BY <1>0, <4>1, TimesMono
      <4> QED BY <4>2 DEF u, v
    <3>4. (z + 1) * N <= off + len
      BY <2>1, <3>3
    <3>5. (z + 1) * N \in Nat
      BY <1>0, <3>1
    <3> QED BY <2>1, <3>2, <3>4, <3>5
  <2> HIDE DEF copied
  <2>5. [b \in Bytes |-> IF SectorOf(b) \in copied THEN d.base[b] ELSE d.overlay[b]] = d.overlay
    <3>1. d.overlay \in [Bytes -> Nat]
      BY DEF Disks
    <3> QED BY <2>4, <3>1
  <2>6. e = d
    BY <2>5 DEF Disks
  <2> HIDE DEF e
  <2> QED BY <1>1, <2>6
<1>3. CASE len = 0
  BY <1>1, <1>3
<1> QED BY <1>2, <1>3

\* What WriteDisk makes of the disk.
AfterWrite(d, s, len, k) ==
  LET off == s * SectorBytes
      q == len \div SectorBytes
  IN  IF ~d.overlaid THEN [d EXCEPT !.base = Into(d, d.base, off, k)]
      ELSE IF k < len THEN [d EXCEPT !.overlay = Into(d, d.overlay, off, k)]
      ELSE [d EXCEPT !.overlay = Into(d, d.overlay, off, k), !.dirty = d.dirty \cup (s..s + q - 1)]

\* A write of whole sectors inside the image, of which k bytes come to be written.
LEMMA WriteIs ==
  ASSUME DiskSizeAssumption, NEW d \in Disks, NEW s \in Nat, NEW len \in Nat, len % SectorBytes = 0,
         s * SectorBytes + len <= DiskBytes, NEW k \in Nat, k <= len
  PROVE  WriteDiskOf(d, s * SectorBytes, len, k) = AfterWrite(d, s, len, k)
<1> DEFINE N == SectorBytes
           off == s * N
           q == len \div N
           w == PwriteAll(d, off, k)
<1>0. SUFFICES WriteDiskOf(d, off, len, k) =
                 IF ~d.overlaid THEN [d EXCEPT !.base = Into(d, d.base, off, k)]
                 ELSE IF k < len THEN [d EXCEPT !.overlay = Into(d, d.overlay, off, k)]
                 ELSE [d EXCEPT !.overlay = Into(d, d.overlay, off, k), !.dirty = d.dirty \cup (s..s + q - 1)]
  BY DEF AfterWrite
<1>1. WriteDiskOf(d, off, len, k) = IF k < len THEN w ELSE mark_dirty_range(w, off, len)
  BY NothingCopied DEF WriteDiskOf, whp_WriteDisk, hvf_WriteDisk, hvf_prepare_partial_overlay, hvf_mark_dirty_range
<1>2. w = IF d.overlaid THEN [d EXCEPT !.overlay = Into(d, d.overlay, off, k)]
                        ELSE [d EXCEPT !.base = Into(d, d.base, off, k)]
  BY DEF PwriteAll, Into
<1>3. w.overlaid = d.overlaid /\ w.dirty = d.dirty
  BY <1>2 DEF Disks
<1> HIDE DEF w
<1>4. d.overlaid \in BOOLEAN
  BY DEF Disks
<1>5. off \in Nat /\ q \in Nat /\ (s + q) * N = off + len
  BY SectorsAre
<1>6. CASE ~d.overlaid
  <2>1. mark_dirty_range(w, off, len) = w
    BY <1>3, <1>6 DEF mark_dirty_range
  <2> QED BY <1>1, <1>2, <1>6, <2>1
<1>7. CASE d.overlaid /\ k < len
  BY <1>1, <1>2, <1>7
<1>8. CASE d.overlaid /\ ~(k < len)
  <2>1. k = len /\ WriteDiskOf(d, off, len, k) = mark_dirty_range(w, off, len)
    BY <1>1, <1>8
  <2>2. w = [d EXCEPT !.overlay = Into(d, d.overlay, off, k)]
    BY <1>2, <1>8
  <2>3. mark_dirty_range(w, off, len) = [w EXCEPT !.dirty = d.dirty \cup (s..s + q - 1)]
    <3>1. CASE len = 0
      <4>1. q = 0
        BY <3>1, SectorsAre
      <4>2. s..s + q - 1 = {}
        BY <4>1
      <4>3. mark_dirty_range(w, off, len) = w
        BY <3>1 DEF mark_dirty_range
      <4>4. [w EXCEPT !.dirty = d.dirty] = w
        BY <1>3, <2>2 DEF Disks
      <4> QED BY <4>2, <4>3, <4>4
    <3>2. CASE len # 0
      <4> DEFINE marked == {z \in SectorOf(off)..SectorOf(off + len - 1) : z < sectors_}
      <4>1. mark_dirty_range(w, off, len) = [w EXCEPT !.dirty = w.dirty \cup marked]
        BY <1>3, <1>8, <3>2 DEF mark_dirty_range
      <4>2. SectorOf(off) = s /\ SectorOf(off + len - 1) = s + q - 1 /\ s + q <= sectors_
        <5>0. N \in Nat \ {0} /\ DiskBytes \in Nat
          BY DEF DiskSizeAssumption
        <5>1. ASSUME NEW b \in Nat, NEW u \in Nat, u * N <= b, b < u * N + N PROVE SectorOf(b) = u
          <6> DEFINE v == u + 1
          <6>1. v \in Nat /\ v * N = u * N + N
            BY <5>0
          <6>2. u <= b \div N
            BY <5>0, <5>1, DivAtLeast
          <6> HIDE DEF v
          <6>3. v * N <= b <=> v <= b \div N
            BY <5>0, <6>1, DivAtLeast
          <6>4. b \div N \in Nat /\ u * N \in Nat
            BY <5>0, DivIs
          <6>5. ~(v <= b \div N)
            BY <5>0, <5>1, <6>1, <6>3, <6>4
          <6> QED BY <6>2, <6>4, <6>5 DEF v, SectorOf
        <5>2. SectorOf(off) = s
          BY <1>5, <5>0, <5>1
        <5>3. SectorOf(off + len - 1) = s + q - 1
          <6> DEFINE u == s + q - 1
                     b == off + len - 1
          <6>1. q > 0
            BY <1>5, <3>2, SectorsAre
          <6>2. u \in Nat /\ (u + 1) = s + q /\ b \in Nat
            BY <1>5, <3>2, <6>1
          <6>3. u * N + N = off + len
            <7>1. u * N + N = (u + 1) * N
              <8> HIDE DEF u, N
              <8> QED BY <5>0, <6>2
            <7> QED BY <1>5, <6>2, <7>1
          <6>4. u * N <= b /\ b < u * N + N
            <7> HIDE DEF u, N, off
            <7>1. u * N \in Nat
              BY <5>0, <6>2
            <7> QED BY <1>5, <5>0, <6>3, <7>1
          <6> HIDE DEF u, b
          <6>5. SectorOf(b) = u
            BY <5>1, <6>2, <6>4
          <6> QED BY <6>5 DEF u, b
        <5>4. s + q <= sectors_
          <6> DEFINE v == s + q
          <6>1. v \in Nat /\ v * N <= DiskBytes
            BY <1>5
          <6> HIDE DEF v
          <6>2. v <= DiskBytes \div N
            BY <5>0, <6>1, DivAtLeast
          <6> QED BY <6>2 DEF v, sectors_
        <5> QED BY <5>2, <5>3, <5>4
      <4>3. sectors_ \in Nat
        BY DivIs DEF sectors_, DiskSizeAssumption
      <4>4. marked = s..s + q - 1
        BY <1>5, <4>2, <4>3
      <4> HIDE DEF marked
      <4> QED BY <1>3, <4>1, <4>4
    <3> QED BY <3>1, <3>2
  <2>4. [w EXCEPT !.dirty = d.dirty \cup (s..s + q - 1)]
          = [d EXCEPT !.overlay = Into(d, d.overlay, off, k), !.dirty = d.dirty \cup (s..s + q - 1)]
    <3> DEFINE g == Into(d, d.overlay, off, k)
               z == d.dirty \cup (s..s + q - 1)
    <3>1. w = [d EXCEPT !.overlay = g]
      BY <2>2
    <3> HIDE DEF g, z
    <3>2. [w EXCEPT !.dirty = z] = [d EXCEPT !.overlay = g, !.dirty = z]
      BY <3>1 DEF Disks
    <3> QED BY <3>2 DEF g, z
  <2> QED BY <1>8, <2>1, <2>3, <2>4
<1> QED BY <1>4, <1>6, <1>7, <1>8

\* What it changes of the bytes a read shows: those it wrote, once their sector is
\* in the overlay, and no others.
Shows(e, d, off, len, k) ==
  /\ e \in Disks /\ SameDisk(e, d) /\ (Dirtied(d) => Dirtied(e)) /\ (d.overlaid => e.base = d.base)
  /\ \A b \in Bytes : ~(off <= b /\ b < off + len) => Visible(e, b) = Visible(d, b)
  /\ \A b \in Bytes : off <= b /\ b < off + len =>
       Visible(e, b) \in {Visible(d, b), d.n + 1} /\ (k = len => Visible(e, b) = d.n + 1)

\* A write of whole sectors shows that much.
LEMMA WriteShows ==
  ASSUME DiskSizeAssumption, NEW d \in Disks, d.n < MaxBlkRequests, NEW s \in Nat, NEW len \in Nat, len % SectorBytes = 0,
         s * SectorBytes + len <= DiskBytes, NEW k \in Nat, k <= len
  PROVE  Shows(WriteDiskOf(d, s * SectorBytes, len, k), d, s * SectorBytes, len, k)
<1> DEFINE N == SectorBytes
           off == s * N
           q == len \div N
           e == WriteDiskOf(d, off, len, k)
<1>0. off \in Nat /\ q \in Nat
  BY SectorsAre
<1>1. /\ d.base \in [Bytes -> Nat] /\ d.overlay \in [Bytes -> Nat] /\ d.dirty \subseteq Nat /\ d.n \in Nat
      /\ d.overlaid \in BOOLEAN
  BY DEF Disks
<1>2. /\ d.n + 1 # Unwritten /\ d.n + 1 \in Nat /\ DiskBytes \in Nat
  BY <1>1 DEF Unwritten, DiskSizeAssumption
<1>3. \A b \in Bytes : b \in off..off + k - 1 <=> off <= b /\ b < off + k
  BY <1>0, <1>2 DEF Bytes
<1>6. e = IF ~d.overlaid THEN [d EXCEPT !.base = Into(d, d.base, off, k)]
          ELSE IF k < len THEN [d EXCEPT !.overlay = Into(d, d.overlay, off, k)]
          ELSE [d EXCEPT !.overlay = Into(d, d.overlay, off, k), !.dirty = d.dirty \cup (s..s + q - 1)]
  <2>1. e = AfterWrite(d, s, len, k)
    BY WriteIs
  <2> QED BY <2>1 DEF AfterWrite
<1> HIDE DEF off
<1>7. ASSUME NEW f \in [Bytes -> Nat]
      PROVE  FileOf(Into(d, f, off, k), d, f, off, k)
  BY <1>0, IntoIs
<1> HIDE DEF e
<1>4. CASE ~d.overlaid
  <2> DEFINE g == Into(d, d.base, off, k)
  <2>1. e = [d EXCEPT !.base = g]
    BY <1>4, <1>6
  <2>2. g \in [Bytes -> Nat] /\ \A b \in Bytes : g[b] = IF b \in off..off + k - 1 THEN d.n + 1 ELSE d.base[b]
    BY <1>1, <1>7 DEF FileOf
  <2> HIDE DEF g, e
  <2>3. e \in Disks
    BY <2>1, <2>2 DEF Disks
  <2>4. SameDisk(e, d) /\ e.base = g /\ e.overlay = d.overlay /\ e.dirty = d.dirty
    BY <2>1 DEF Disks, SameDisk
  <2>5. Dirtied(d) => Dirtied(e)
    BY <2>4 DEF Dirtied
  <2>6. \A b \in Bytes : Visible(e, b) = g[b] /\ Visible(d, b) = d.base[b]
    BY <1>4, <2>4 DEF Visible, sector_dirty, SameDisk
  <2>7. ASSUME NEW b \in Bytes, ~(off <= b /\ b < off + len) PROVE Visible(e, b) = Visible(d, b)
    <3>1. b \in Nat
      BY <1>2 DEF Bytes
    <3>2. ~(off <= b /\ b < off + k)
      BY <1>0, <2>7, <3>1
    <3> QED BY <1>3, <2>2, <2>6, <3>2
  <2>8. ASSUME NEW b \in Bytes, off <= b /\ b < off + len
        PROVE  Visible(e, b) \in {Visible(d, b), d.n + 1} /\ (k = len => Visible(e, b) = d.n + 1)
    BY <1>3, <2>2, <2>6, <2>8
  <2>9. Shows(e, d, off, len, k)
    BY <1>4, <2>3, <2>4, <2>5, <2>7, <2>8 DEF Shows
  <2> QED BY <2>9 DEF e, off
<1>5. CASE d.overlaid
  <2> DEFINE g == Into(d, d.overlay, off, k)
             z == d.dirty \cup (s..s + q - 1)
  <2>1. /\ k < len => e = [d EXCEPT !.overlay = g]
        /\ ~(k < len) => e = [d EXCEPT !.overlay = g, !.dirty = z]
    BY <1>5, <1>6
  <2>2. g \in [Bytes -> Nat] /\ \A b \in Bytes : g[b] = IF b \in off..off + k - 1 THEN d.n + 1 ELSE d.overlay[b]
    BY <1>1, <1>7 DEF FileOf
  <2>3. z \in SUBSET Nat
    BY <1>0, <1>1
  <2>4. \A b \in Bytes : /\ SectorOf(b) \in Nat
                         /\ off <= b /\ b < off + len <=> s <= SectorOf(b) /\ SectorOf(b) < s + q
    <3> SUFFICES ASSUME NEW b \in Bytes
                 PROVE  /\ SectorOf(b) \in Nat
                        /\ off <= b /\ b < off + len <=> s <= SectorOf(b) /\ SectorOf(b) < s + q
      OBVIOUS
    <3>1. b \in Nat
      BY <1>2 DEF Bytes
    <3> QED BY <3>1, SectorsAre DEF off
  <2>5. \A b \in Bytes : SectorOf(b) \in s..s + q - 1 <=> off <= b /\ b < off + len
    BY <1>0, <2>4
  <2> DEFINE y == IF k < len THEN d.dirty ELSE z
  <2>6. y \in SUBSET Nat
    BY <1>1, <2>3
  <2>7. \A b \in Bytes : /\ SectorOf(b) \in y => SectorOf(b) \in d.dirty \/ (k = len /\ off <= b /\ b < off + len)
                         /\ ~(off <= b /\ b < off + len) => (SectorOf(b) \in y <=> SectorOf(b) \in d.dirty)
                         /\ SectorOf(b) \in d.dirty => SectorOf(b) \in y
                         /\ k = len /\ off <= b /\ b < off + len => SectorOf(b) \in y
    <3> HIDE DEF q
    <3>1. CASE k < len
      BY <3>1
    <3>2. CASE ~(k < len)
      <4>1. k = len /\ y = d.dirty \cup (s..s + q - 1)
        BY <3>2
      <4> QED BY <2>5, <4>1
    <3> QED BY <3>1, <3>2
  <2>8. y # d.dirty => k = len
    BY DEF y
  <2> HIDE DEF g, e, z
  <2>9. e = [d EXCEPT !.overlay = g, !.dirty = y]
    <3>1. CASE k < len
      <4>1. y = d.dirty /\ e = [d EXCEPT !.overlay = g]
        BY <2>1, <3>1
      <4> QED BY <4>1 DEF Disks
    <3>2. CASE ~(k < len)
      BY <2>1, <3>2
    <3> QED BY <3>1, <3>2
  <2> HIDE DEF y
  <2>10. e \in Disks
    BY <2>2, <2>6, <2>9 DEF Disks
  <2>11. SameDisk(e, d) /\ e.base = d.base /\ e.overlay = g /\ e.dirty = y
    BY <2>9 DEF Disks, SameDisk
  <2>12. ASSUME NEW b \in Bytes, SectorOf(b) \in y, Dirtied(d) PROVE g[b] # Unwritten
    <3>1. CASE b \in off..off + k - 1
      BY <1>2, <2>2, <3>1
    <3>2. CASE b \notin off..off + k - 1
      <4>1. g[b] = d.overlay[b]
        BY <2>2, <3>2
      <4>2. SectorOf(b) \in d.dirty
        BY <1>3, <2>7, <2>12, <3>2
      <4> QED BY <2>12, <4>1, <4>2 DEF Dirtied
    <3> QED BY <3>1, <3>2
  <2>13. Dirtied(d) => Dirtied(e)
    BY <2>11, <2>12 DEF Dirtied
  <2>14. \A b \in Bytes :
           /\ Visible(e, b) = IF SectorOf(b) < sectors_ /\ SectorOf(b) \in y THEN g[b] ELSE d.base[b]
           /\ Visible(d, b) = IF SectorOf(b) < sectors_ /\ SectorOf(b) \in d.dirty THEN d.overlay[b] ELSE d.base[b]
    BY <1>5, <2>11 DEF Visible, sector_dirty, SameDisk
  <2>15. ASSUME NEW b \in Bytes, ~(off <= b /\ b < off + len) PROVE Visible(e, b) = Visible(d, b)
    <3>1. b \in Nat
      BY <1>2 DEF Bytes
    <3>2. ~(off <= b /\ b < off + k)
      BY <1>0, <2>15, <3>1
    <3>3. g[b] = d.overlay[b]
      BY <1>3, <2>2, <3>2
    <3> QED BY <2>7, <2>14, <2>15, <3>3
  <2>16. \A b \in Bytes : off <= b /\ b < off + len => SectorOf(b) < sectors_
    <3> SUFFICES ASSUME NEW b \in Bytes, off <= b, b < off + len PROVE SectorOf(b) < sectors_
      OBVIOUS
    <3> DEFINE v == s + q
    <3>1. SectorOf(b) < v /\ v \in Nat /\ SectorOf(b) \in Nat
      BY <1>0, <2>4
    <3>2. v * N = off + len
      BY SectorsAre DEF off
    <3>3. v * N <= DiskBytes
      BY <3>2 DEF off
    <3> HIDE DEF v
    <3>4. v <= DiskBytes \div N
      BY <1>2, <3>1, <3>3, DivAtLeast DEF DiskSizeAssumption
    <3>5. sectors_ \in Nat /\ v <= sectors_
      BY <1>2, <3>4, DivIs DEF sectors_, DiskSizeAssumption
    <3> QED BY <3>1, <3>5
  <2>17. ASSUME NEW b \in Bytes, off <= b /\ b < off + len
         PROVE  Visible(e, b) \in {Visible(d, b), d.n + 1} /\ (k = len => Visible(e, b) = d.n + 1)
    <3>1. SectorOf(b) < sectors_
      BY <2>16, <2>17
    <3>2. CASE k = len
      <4>1. SectorOf(b) \in y /\ g[b] = d.n + 1
        BY <1>3, <2>2, <2>7, <2>17, <3>2
      <4> QED BY <2>14, <3>1, <4>1
    <3>3. CASE k # len
      <4>1. y = d.dirty
        BY <2>8, <3>3
      <4>2. g[b] = d.overlay[b] \/ g[b] = d.n + 1
        BY <2>2
      <4> QED BY <2>14, <3>3, <4>1, <4>2
    <3> QED BY <3>2, <3>3
  <2>18. Shows(e, d, off, len, k)
    BY <2>10, <2>11, <2>13, <2>15, <2>17 DEF Shows
  <2> QED BY <2>18 DEF e, off
<1> QED BY <1>1, <1>4, <1>5

\* The requests a guest may make, and the type of a request that is under way.
BlkRequests == [type : {"in", "out", "flush", "id", "unknown"}, sector : 0..Wide - 1, descs : Seq(Nat), bad : Nat]
Underway == [d : Disks, sector : 0..Wide - 1, i : Nat, ok : BOOLEAN, got : Seq(Nat), maybe : SUBSET Bytes]

\* Where the bytes of each descriptor start: behind those of the descriptor before.
LEMMA StartSteps ==
  ASSUME DiskSizeAssumption, NEW r \in BlkRequests
  PROVE  /\ Start(r, 1) = r.sector * SectorBytes
         /\ \A i \in 1..Len(r.descs) + 1 : Start(r, i) \in Nat
         /\ \A i \in 1..Len(r.descs) : Start(r, i + 1) = Start(r, i) + r.descs[i]
<1> DEFINE s == r.descs
           n == Len(s)
           D == [k \in 1..n |-> [x \in Nat |-> x + s[k]]]
           Body(at, j) == IF j = 0 THEN 0 ELSE at[j - 1] + s[j]
           B(m) == CHOOSE at : at = [j \in 0..m |-> Body(at, j)]
           first == r.sector * SectorBytes
<1>1. s \in Seq(Nat) /\ n \in Nat /\ first \in Nat /\ \A k \in 1..n : s[k] \in Nat
  <2>1. s \in Seq(Nat) /\ r.sector \in Nat /\ SectorBytes \in Nat
    BY DEF BlkRequests, DiskSizeAssumption
  <2> QED BY <2>1
<1> HIDE DEF s, n
<1>2. D \in [1..n -> [Nat -> Nat]]
  <2>1. \A k \in 1..n : \A x \in Nat : x + s[k] \in Nat
    BY <1>1
  <2> QED BY <2>1
<1>3. PICK f \in Unrolled(Nat, n, 0, D) : TRUE
  <2> HIDE DEF D
  <2>1. Unrolled(Nat, n, 0, D) # {}
    BY <1>1, <1>2, RunExists
  <2> QED BY <2>1
<1>4. f \in [0..n -> Nat] /\ f[0] = 0 /\ \A k \in 1..n : f[k] = f[k - 1] + s[k]
  <2>1. f \in [0..n -> Nat] /\ f[0] = 0 /\ \A k \in 1..n : f[k] = D[k][f[k - 1]]
    BY <1>3 DEF Unrolled
  <2>2. ASSUME NEW k \in 1..n PROVE f[k] = f[k - 1] + s[k]
    <3>1. k - 1 \in 0..n
      BY <1>1
    <3>2. f[k - 1] \in Nat
      BY <2>1, <3>1
    <3> QED BY <2>1, <3>2
  <2> QED BY <2>1, <2>2
<1> HIDE DEF D
<1>5. ASSUME NEW m \in 0..n PROVE B(m)[m] = f[m]
  <2> DEFINE g == [j \in 0..m |-> f[j]]
             h == B(m)
             S == {j \in 0..m : h[j] = f[j]}
  <2>1. g = [j \in 0..m |-> Body(g, j)]
    <3>1. \A j \in 0..m : f[j] = Body(g, j)
      <4> SUFFICES ASSUME NEW j \in 0..m PROVE f[j] = Body(g, j)
        OBVIOUS
      <4>1. CASE j = 0
        BY <1>4, <4>1
      <4>2. CASE j # 0
        <5>1. j \in 1..n /\ j - 1 \in 0..m
          BY <1>1, <4>2
        <5>2. f[j] = f[j - 1] + s[j] /\ g[j - 1] = f[j - 1]
          BY <1>4, <5>1
        <5> QED BY <4>2, <5>2
      <4> QED BY <4>1, <4>2
    <3> HIDE DEF Body
    <3> QED BY <3>1
  <2>2. h = [j \in 0..m |-> Body(h, j)]
    BY <2>1
  <2> HIDE DEF h
  <2>3. \A j \in 0..m : h[j] = Body(h, j)
    <3> HIDE DEF Body
    <3> QED BY <2>2
  <2>4. 0 \in S
    BY <1>4, <2>3
  <2>5. ASSUME NEW j \in 1..m, j - 1 \in S PROVE j \in S
    <3>1. h[j - 1] = f[j - 1] /\ j \in 0..m /\ j # 0 /\ j \in 1..n
      BY <1>1, <2>5
    <3>2. h[j] = h[j - 1] + s[j]
      BY <2>3, <3>1
    <3> QED BY <1>4, <3>1, <3>2
  <2> HIDE DEF S
  <2>0. m \in Nat
    BY <1>1
  <2>6. \A j \in 0..m : j \in S
    BY <2>0, <2>4, <2>5, IntervalInduction
  <2>7. m \in S
    BY <1>1, <2>6
  <2> QED BY <2>7 DEF S, h
<1>6. \A i : Start(r, i) = first + B(i - 1)[i - 1]
  BY DEF Start, s
<1> HIDE DEF B, first
<1>7. \A i \in 1..n + 1 : Start(r, i) = first + f[i - 1] /\ f[i - 1] \in Nat
  <2> SUFFICES ASSUME NEW i \in 1..n + 1 PROVE Start(r, i) = first + f[i - 1] /\ f[i - 1] \in Nat
    OBVIOUS
  <2>1. i - 1 \in 0..n
    BY <1>1
  <2> QED BY <1>4, <1>5, <1>6, <2>1
<1>8. 1 \in 1..n + 1 /\ \A i \in 1..n : i \in 1..n + 1 /\ i + 1 \in 1..n + 1 /\ (i + 1) - 1 = i
  BY <1>1
<1>9. Start(r, 1) = first
  BY <1>1, <1>4, <1>7, <1>8
<1>10. ASSUME NEW i \in 1..n + 1 PROVE Start(r, i) \in Nat
  <2>1. Start(r, i) = first + f[i - 1] /\ f[i - 1] \in Nat
    BY <1>7
  <2> QED BY <1>1, <2>1
<1>11. ASSUME NEW i \in 1..n PROVE Start(r, i + 1) = Start(r, i) + s[i]
  <2>1. Start(r, i) = first + f[i - 1] /\ Start(r, i + 1) = first + f[i] /\ f[i - 1] \in Nat
    BY <1>7, <1>8
  <2>2. f[i] = f[i - 1] + s[i] /\ s[i] \in Nat
    BY <1>1, <1>4
  <2> QED BY <1>1, <2>1, <2>2
<1> QED BY <1>9, <1>10, <1>11 DEF first, n, s

\* The first byte of a sector.
At(s) == s * SectorBytes

\* A descriptor that is served: Due's conjunct.
Served(r, j) ==
  /\ r.descs[j] % SectorBytes = 0
  /\ Start(r, j) + r.descs[j] <= DiskBytes
  /\ r.type = "out" => ~disk.read_only
  /\ r.bad # j \/ (r.type = "out" /\ r.descs[j] = 0)

\* A request of which the first i descriptors are done.
Did(x, r, i) ==
  /\ x \in Underway
  /\ SameDisk(x.d, disk) /\ Dirtied(x.d) /\ (disk.overlaid \/ disk.read_only => x.d.base = disk.base)
  /\ \A b \in Bytes : b \notin x.maybe => Visible(x.d, b) = Visible(disk, b)
  /\ \A b \in x.maybe : /\ Visible(x.d, b) \in {Visible(disk, b), disk.n + 1}
                        /\ x.ok => Visible(x.d, b) = disk.n + 1
  /\ r.type = "in" => x.maybe = {}
  /\ x.ok => x.i = i + 1 /\ At(x.sector) = Start(r, i + 1)
  /\ x.ok /\ r.type = "in" => At(r.sector) + Len(x.got) = Start(r, i + 1)
  /\ \A j \in DOMAIN x.got : x.got[j] \in promised[At(r.sector) + j - 1]
  /\ x.ok <=> \A j \in 1..i : Served(r, j)

\* A request that is given up.
LEMMA GivenUp ==
  ASSUME NEW r, NEW x, NEW i \in Nat \ {0}, Did(x, r, i - 1), ~Served(r, i)
  PROVE  Did([x EXCEPT !.ok = FALSE], r, i)
<1> DEFINE y == [x EXCEPT !.ok = FALSE]
<1>1. x \in Underway
  BY DEF Did
<1>2. y \in Underway /\ ~y.ok /\ y.d = x.d /\ y.sector = x.sector /\ y.i = x.i /\ y.got = x.got /\ y.maybe = x.maybe
  BY <1>1 DEF Underway
<1> HIDE DEF y
<1>3. i \in 1..i
  OBVIOUS
<1>4. y.ok <=> \A j \in 1..i : Served(r, j)
  BY <1>2, <1>3
<1>5. Did(y, r, i)
  BY <1>2, <1>4 DEF Did
<1> QED BY <1>5 DEF y

\* A request that has been given up stays so.
LEMMA StaysGivenUp ==
  ASSUME NEW r, NEW x, NEW i \in Nat \ {0}, Did(x, r, i - 1), ~x.ok
  PROVE  Did(x, r, i)
<1>1. 1..i - 1 \subseteq 1..i
  OBVIOUS
<1>2. ~\A j \in 1..i : Served(r, j)
  BY <1>1 DEF Did
<1> QED BY <1>2 DEF Did

\* The sector behind a transfer, and where it starts.
NextIs(s, len, v) == v \in 0..Wide - 1 /\ At(v) = At(s) + len

\* The sector behind a transfer inside the image does not wrap.
LEMMA SectorNext ==
  ASSUME DiskSizeAssumption, NEW s \in 0..Wide - 1, NEW len \in Nat, len % SectorBytes = 0,
         s * SectorBytes + len <= DiskBytes
  PROVE  NextIs(s, len, (s + len \div SectorBytes) % Wide)
<1> DEFINE N == SectorBytes
           q == len \div N
           u == s + q
<1>0. N \in Nat \ {0} /\ Wide \in Nat \ {0} /\ DiskBytes \in Nat /\ DiskBytes < Wide /\ s \in Nat
  BY DEF DiskSizeAssumption
<1>1. q \in Nat /\ u * N = s * N + len
  BY <1>0, SectorsAre
<1>2. u \in Nat
  BY <1>0, <1>1
<1> HIDE DEF u, q
<1>3. u <= u * N
  <2> HIDE DEF N
  <2>1. 1 * u <= N * u
    BY <1>0, <1>2, TimesMono
  <2> QED BY <1>0, <1>2, <2>1
<1>4. u * N < Wide /\ u * N \in Nat
  <2> DEFINE a == s * N
  <2>1. a \in Nat /\ u * N = a + len /\ a + len <= DiskBytes
    BY <1>0, <1>1
  <2> HIDE DEF a
  <2> QED BY <1>0, <2>1
<1>5. u < Wide
  <2> DEFINE a == u * N
  <2> HIDE DEF a
  <2>1. u <= a /\ a < Wide /\ a \in Nat
    BY <1>3, <1>4 DEF a
  <2> QED BY <1>0, <1>2, <2>1
<1>6. u % Wide = u /\ u \in 0..Wide - 1
  BY <1>0, <1>2, <1>5, ModSmall
<1> QED BY <1>1, <1>6 DEF u, q, NextIs, At

\* Where a request stands at its i-th descriptor.
Stands(x, r, i) ==
  /\ x \in Underway /\ x.i = i /\ x.sector \in 0..Wide - 1 /\ x.d \in Disks /\ i \in Nat \ {0}
  /\ r.descs[i] \in Nat /\ Start(r, i) \in Nat /\ At(x.sector) = Start(r, i)
  /\ Start(r, i + 1) = Start(r, i) + r.descs[i]
  /\ r.type = "in" => At(r.sector) + Len(x.got) = Start(r, i)
  /\ InRange(x.d, x.sector, r.descs[i]) <=> Start(r, i) + r.descs[i] <= DiskBytes
  /\ InRange(x.d, x.sector, r.descs[i]) => (x.sector * SectorBytes) % Wide = Start(r, i)

\* Where a request stands that has been served so far.
LEMMA StandsAt ==
  ASSUME DiskSizeAssumption, NEW r \in BlkRequests, NEW i \in 1..Len(r.descs), NEW x, Did(x, r, i - 1), x.ok
  PROVE  Stands(x, r, i)
<1>1. r.descs \in Seq(Nat) /\ Len(r.descs) \in Nat
  BY DEF BlkRequests
<1>2. r.descs[i] \in Nat /\ i \in Nat \ {0} /\ i \in 1..Len(r.descs) + 1 /\ (i - 1) + 1 = i
  BY <1>1
<1>3. Start(r, i) \in Nat /\ Start(r, i + 1) = Start(r, i) + r.descs[i]
  BY <1>2, StartSteps
<1>4. x \in Underway /\ x.i = i /\ At(x.sector) = Start(r, i)
  BY <1>2 DEF Did
<1>5. x.sector \in 0..Wide - 1 /\ x.d \in Disks
  BY <1>4 DEF Underway
<1>6. x.d.backend \in {"whp", "hvf"}
  BY <1>5 DEF Disks
<1>7. Ranged(x.d, x.sector, r.descs[i])
  <2> DEFINE d == x.d
             s == x.sector
             l == r.descs[i]
  <2>1. s \in 0..Wide - 1 /\ l \in Nat /\ d.backend \in {"whp", "hvf"}
    BY <1>2, <1>5, <1>6
  <2> HIDE DEF d, s, l
  <2>2. Ranged(d, s, l)
    BY <2>1, RangeIs
  <2> QED BY <2>2 DEF d, s, l
<1>8. r.type = "in" => At(r.sector) + Len(x.got) = Start(r, i)
  BY <1>2 DEF Did
<1> QED BY <1>2, <1>3, <1>4, <1>5, <1>7, <1>8 DEF Stands, Ranged, At

\* One more descriptor is served than before.
LEMMA ServedMore ==
  ASSUME NEW r, NEW i \in Nat \ {0}, \A j \in 1..i - 1 : Served(r, j), Served(r, i)
  PROVE  \A j \in 1..i : Served(r, j)
<1> SUFFICES ASSUME NEW j \in 1..i PROVE Served(r, j)
  OBVIOUS
<1>1. j = i \/ j \in 1..i - 1
  OBVIOUS
<1> QED BY <1>1

\* What the guest sees of the disk has a type.
LEMMA VisibleIs ==
  ASSUME NEW d \in Disks, NEW b \in Bytes
  PROVE  Visible(d, b) \in Nat
<1>1. d.base[b] \in Nat /\ d.overlay[b] \in Nat
  BY DEF Disks
<1> QED BY <1>1 DEF Visible

\* One sequence behind another.
LEMMA Behind ==
  ASSUME NEW p \in Seq(Nat), NEW g \in Seq(Nat)
  PROVE  /\ p \o g \in Seq(Nat) /\ Len(p \o g) = Len(p) + Len(g) /\ DOMAIN (p \o g) = 1..Len(p) + Len(g)
         /\ \A j \in 1..Len(p) + Len(g) : (p \o g)[j] = IF j <= Len(p) THEN p[j] ELSE g[j - Len(p)]
OBVIOUS

\* A read of one more descriptor.
Reads(x, r, i, v) == [x EXCEPT !.i = @ + 1, !.sector = v, !.got = @ \o ReadDiskOf(x.d, Start(r, i), r.descs[i])]

\* A read returns what the disk shows.
LEMMA ReadDid ==
  ASSUME DiskSizeAssumption, NEW r \in BlkRequests, NEW i \in 1..Len(r.descs), NEW x, Did(x, r, i - 1), x.ok,
         r.type = "in", Served(r, i), DiskAsPromised, At(r.sector) \in Nat,
         NEW v, NextIs(x.sector, r.descs[i], v)
  PROVE  Did(Reads(x, r, i, v), r, i)
<1> DEFINE len == r.descs[i]
           off == Start(r, i)
           first == At(r.sector)
           g == ReadDiskOf(x.d, off, len)
           got == x.got \o g
           y == Reads(x, r, i, v)
<1>0. Stands(x, r, i)
  BY StandsAt
<1>1. /\ x \in Underway /\ x.i = i /\ x.sector \in 0..Wide - 1 /\ x.d \in Disks /\ i \in Nat \ {0}
      /\ len \in Nat /\ off \in Nat /\ first \in Nat
      /\ Start(r, i + 1) = off + len /\ first + Len(x.got) = off /\ At(x.sector) = off
  BY <1>0 DEF Stands
<1>2. off + len <= DiskBytes
  BY DEF Served
<1>3. v \in 0..Wide - 1 /\ At(v) = off + len
  BY <1>1 DEF NextIs
<1>4. x.got \in Seq(Nat) /\ x.maybe = {} /\ i + 1 \in Nat
  <2>1. x.got \in Seq(Nat)
    BY <1>1 DEF Underway
  <2>2. x.maybe = {}
    BY DEF Did
  <2>3. i \in Nat
    BY <1>1
  <2>4. i + 1 \in Nat
    BY <2>3
  <2> QED BY <2>1, <2>2, <2>4
<1>5. g = [j \in 1..len |-> Visible(x.d, off + j - 1)]
  BY DEF ReadDiskOf, whp_ReadDisk, hvf_ReadDisk
<1>6. DiskBytes \in Nat
  BY DEF DiskSizeAssumption
<1>7. y = [x EXCEPT !.i = i + 1, !.sector = v, !.got = got]
  BY <1>1 DEF Reads
<1> HIDE DEF len, off, first, g, got, y
<1>f. len \in Nat /\ off \in Nat /\ first \in Nat
  BY <1>1
<1>8. ASSUME NEW j \in 1..len PROVE off + j - 1 \in Bytes
  <2>1. j \in Nat /\ 1 <= j /\ j <= len
    BY <1>f
  <2>2. off + j - 1 \in Nat /\ off + j - 1 <= DiskBytes - 1
    BY <1>f, <1>2, <1>6, <2>1
  <2> QED BY <1>6, <2>2 DEF Bytes
<1>9. \A j \in 1..len : /\ Visible(x.d, off + j - 1) \in Nat
                        /\ Visible(x.d, off + j - 1) \in promised[off + j - 1]
  <2> SUFFICES ASSUME NEW j \in 1..len
               PROVE  Visible(x.d, off + j - 1) \in Nat /\ Visible(x.d, off + j - 1) \in promised[off + j - 1]
    OBVIOUS
  <2> DEFINE b == off + j - 1
  <2>1. b \in Bytes
    BY <1>8
  <2> HIDE DEF b
  <2>2. Visible(x.d, b) = Visible(disk, b)
    BY <1>4, <2>1 DEF Did
  <2>3. Visible(x.d, b) \in Nat /\ Visible(x.d, b) \in promised[b]
    BY <1>1, <2>1, <2>2, VisibleIs DEF DiskAsPromised
  <2> QED BY <2>3 DEF b
<1>10. g \in Seq(Nat) /\ Len(g) = len /\ \A j \in 1..len : g[j] \in promised[off + j - 1]
  <2>1. \A j \in 1..len : Visible(x.d, off + j - 1) \in Nat
    BY <1>9
  <2>2. g \in [1..len -> Nat]
    BY <1>5, <2>1
  <2>3. \A j \in 1..len : g[j] = Visible(x.d, off + j - 1)
    BY <1>5
  <2>4. g \in Seq(Nat) /\ Len(g) = len
    BY <1>1, <2>2
  <2> QED BY <1>9, <2>3, <2>4
<1> DEFINE p == x.got
           l == Len(p)
<1>c. p \in Seq(Nat) /\ l \in Nat /\ first + l = off
  BY <1>1, <1>4
<1>d. got = p \o g
  BY DEF got
<1>e. \A j \in DOMAIN p : p[j] \in promised[first + j - 1]
  BY DEF Did, first
<1> HIDE DEF p
<1>11. /\ got \in Seq(Nat) /\ Len(got) = l + len /\ DOMAIN got = 1..l + len
       /\ \A j \in 1..l + len : got[j] = IF j <= l THEN p[j] ELSE g[j - l]
  <2>1. g \in Seq(Nat) /\ Len(g) = len
    BY <1>10
  <2> QED BY <1>c, <1>d, <2>1, Behind
<1> HIDE DEF l
<1>12. ASSUME NEW j \in DOMAIN got PROVE got[j] \in promised[first + j - 1]
  <2>1. j \in 1..l + len /\ j \in Nat /\ first + l = off /\ l \in Nat
    BY <1>1, <1>c, <1>11
  <2>2. CASE j <= l
    <3>1. got[j] = p[j]
      BY <1>11, <2>1, <2>2
    <3>2. j \in DOMAIN p
      BY <1>c, <2>1, <2>2 DEF l
    <3> QED BY <1>e, <3>1, <3>2
  <2>3. CASE ~(j <= l)
    <3> DEFINE m == j - l
    <3>1. m \in 1..len /\ off + m - 1 = first + j - 1
      <4>2. len \in Nat /\ l \in Nat /\ first \in Nat /\ j \in Nat /\ off \in Nat
        BY <1>f, <2>1
      <4>3. j \in 1..l + len /\ first + l = off /\ ~(j <= l)
        BY <2>1, <2>3
      <4>4. j <= l + len
        BY <4>2, <4>3
      <4>5. m \in 1..len
        BY <4>2, <4>3, <4>4
      <4>6. off + m - 1 = first + j - 1
        BY <4>2, <4>3
      <4> QED BY <4>5, <4>6
    <3>2. got[j] = g[m]
      BY <1>11, <2>1, <2>3
    <3> HIDE DEF m
    <3>3. g[m] \in promised[off + m - 1]
      BY <1>10, <3>1
    <3> QED BY <3>1, <3>2, <3>3
  <2> QED BY <2>2, <2>3
<1>13. y \in Underway
  BY <1>1, <1>3, <1>4, <1>7, <1>11 DEF Underway
<1>14. y.i = i + 1 /\ y.sector = v /\ y.got = got /\ y.d = x.d /\ y.ok /\ y.maybe = x.maybe
  BY <1>1, <1>7 DEF Underway
<1>15. \A j \in 1..i : Served(r, j)
  BY <1>1, ServedMore DEF Did
<1>16. At(y.sector) = Start(r, i + 1) /\ first + Len(y.got) = Start(r, i + 1)
  <2>1. Start(r, i + 1) = off + len
    BY <1>1
  <2>2. At(y.sector) = off + len
    BY <1>3, <1>14
  <2>3. Len(y.got) = l + len
    BY <1>11, <1>14
  <2>4. first + (l + len) = (first + l) + len
    BY <1>c, <1>f
  <2> QED BY <1>c, <2>1, <2>2, <2>3, <2>4
<1>17. \A j \in DOMAIN y.got : y.got[j] \in promised[first + j - 1]
  BY <1>12, <1>14
<1> QED BY <1>13, <1>14, <1>15, <1>16, <1>17 DEF Did, first, y

\* A write of one more descriptor, of which k bytes came to be written.
Writes(x, r, i, v, e, k) ==
  [x EXCEPT !.i = @ + 1, !.sector = v, !.d = e, !.ok = (k = r.descs[i]),
            !.maybe = @ \cup (Start(r, i)..Start(r, i) + r.descs[i] - 1)]

\* A write shows in its own bytes only, and in all of them if it is whole.
LEMMA WriteDid ==
  ASSUME DiskSizeAssumption, NEW r \in BlkRequests, NEW i \in 1..Len(r.descs), NEW x, Did(x, r, i - 1), x.ok,
         r.type = "out", ~disk.read_only, Start(r, i) + r.descs[i] <= DiskBytes,
         NEW v, NextIs(x.sector, r.descs[i], v), NEW k, NEW e, Shows(e, x.d, Start(r, i), r.descs[i], k),
         Served(r, i) <=> k = r.descs[i]
  PROVE  Did(Writes(x, r, i, v, e, k), r, i)
<1> DEFINE len == r.descs[i]
           off == Start(r, i)
           mine == off..off + len - 1
           maybe == x.maybe \cup mine
           ok == k = len
           new == disk.n + 1
           y == Writes(x, r, i, v, e, k)
<1>0. Stands(x, r, i)
  BY StandsAt
<1>1. /\ x \in Underway /\ x.i = i /\ x.sector \in 0..Wide - 1 /\ x.d \in Disks /\ i \in Nat \ {0}
      /\ len \in Nat /\ off \in Nat /\ Start(r, i + 1) = off + len /\ At(x.sector) = off
  BY <1>0 DEF Stands
<1>2. v \in 0..Wide - 1 /\ At(v) = off + len
  BY <1>1 DEF NextIs
<1>3. x.maybe \subseteq Bytes /\ i + 1 \in Nat /\ x.got \in Seq(Nat)
  BY <1>1 DEF Underway
<1>4. y = [x EXCEPT !.i = i + 1, !.sector = v, !.d = e, !.ok = ok, !.maybe = maybe]
  BY <1>1 DEF Writes
<1>5. DiskBytes \in Nat
  BY DEF DiskSizeAssumption
<1>6. /\ e \in Disks /\ SameDisk(e, x.d) /\ (Dirtied(x.d) => Dirtied(e)) /\ (x.d.overlaid => e.base = x.d.base)
      /\ \A b \in Bytes : ~(off <= b /\ b < off + len) => Visible(e, b) = Visible(x.d, b)
      /\ \A b \in Bytes : off <= b /\ b < off + len =>
           Visible(e, b) \in {Visible(x.d, b), x.d.n + 1} /\ (k = len => Visible(e, b) = x.d.n + 1)
  BY DEF Shows
<1>7. /\ SameDisk(x.d, disk) /\ Dirtied(x.d) /\ (disk.overlaid => x.d.base = disk.base)
      /\ \A b \in Bytes : b \notin x.maybe => Visible(x.d, b) = Visible(disk, b)
      /\ \A b \in x.maybe : Visible(x.d, b) = new
      /\ \A j \in DOMAIN x.got : x.got[j] \in promised[At(r.sector) + j - 1]
      /\ \A j \in 1..i - 1 : Served(r, j)
  BY DEF Did
<1>8. Served(r, i) <=> ok
  OBVIOUS
<1>9. off + len <= DiskBytes
  OBVIOUS
<1> HIDE DEF len, off, y, ok
<1>f. len \in Nat /\ off \in Nat
  BY <1>1
<1>10. ASSUME NEW b \in Bytes PROVE b \in mine <=> off <= b /\ b < off + len
  <2>1. b \in Nat
    BY <1>5 DEF Bytes
  <2> QED BY <1>f, <2>1
<1>11. ASSUME NEW b \in mine PROVE b \in Bytes
  <2>1. b \in Nat /\ b <= off + len - 1
    BY <1>f
  <2> QED BY <1>f, <1>5, <1>9, <2>1 DEF Bytes
<1> HIDE DEF mine
<1>12. maybe \in SUBSET Bytes
  BY <1>3, <1>11
<1>13. x.d.n + 1 = new /\ x.d.overlaid = disk.overlaid /\ SameDisk(e, disk)
  BY <1>6, <1>7 DEF SameDisk
<1> HIDE DEF new
<1>14. ASSUME NEW b \in Bytes, b \notin maybe PROVE Visible(e, b) = Visible(disk, b)
  BY <1>6, <1>7, <1>10, <1>14
<1>15. ASSUME NEW b \in maybe PROVE Visible(e, b) \in {Visible(disk, b), new} /\ (ok => Visible(e, b) = new)
  <2>1. b \in Bytes
    BY <1>12
  <2>2. CASE b \in mine
    <3>1. Visible(e, b) \in {Visible(x.d, b), new} /\ (ok => Visible(e, b) = new)
      BY <1>6, <1>10, <1>13, <2>1, <2>2 DEF ok
    <3>2. Visible(x.d, b) = Visible(disk, b) \/ Visible(x.d, b) = new
      BY <1>7, <2>1
    <3> QED BY <3>1, <3>2
  <2>3. CASE b \notin mine
    <3>1. b \in x.maybe
      BY <1>15, <2>3
    <3>2. Visible(e, b) = Visible(x.d, b)
      BY <1>6, <1>10, <2>1, <2>3
    <3> QED BY <1>7, <3>1, <3>2
  <2> QED BY <2>2, <2>3
<1>16. disk.overlaid \/ disk.read_only => e.base = disk.base
  BY <1>6, <1>7, <1>13
<1>17. ok \in BOOLEAN
  BY DEF ok
<1> HIDE DEF maybe
<1>18. y \in Underway
  BY <1>1, <1>2, <1>3, <1>4, <1>6, <1>12, <1>17 DEF Underway
<1>19. y.i = i + 1 /\ y.sector = v /\ y.got = x.got /\ y.d = e /\ y.ok = ok /\ y.maybe = maybe
  BY <1>1, <1>4 DEF Underway
<1>20. ok <=> \A j \in 1..i : Served(r, j)
  <2>1. ok => \A j \in 1..i : Served(r, j)
    BY <1>1, <1>7, <1>8, ServedMore
  <2>2. i \in 1..i
    BY <1>1
  <2> QED BY <1>8, <2>1, <2>2
<1>21. At(y.sector) = Start(r, i + 1)
  BY <1>1, <1>2, <1>19
<1>22. \A b \in Bytes : b \notin y.maybe => Visible(y.d, b) = Visible(disk, b)
  BY <1>14, <1>19
<1>23. \A b \in y.maybe : Visible(y.d, b) \in {Visible(disk, b), new} /\ (y.ok => Visible(y.d, b) = new)
  BY <1>15, <1>19
<1>24. SameDisk(y.d, disk) /\ Dirtied(y.d) /\ (disk.overlaid \/ disk.read_only => y.d.base = disk.base)
  BY <1>6, <1>7, <1>13, <1>16, <1>19
<1>25. \A j \in DOMAIN y.got : y.got[j] \in promised[At(r.sector) + j - 1]
  BY <1>7, <1>19
<1>26. y.ok <=> \A j \in 1..i : Served(r, j)
  BY <1>19, <1>20
<1> QED BY <1>18, <1>19, <1>21, <1>22, <1>23, <1>24, <1>25, <1>26 DEF Did, new, y

\* One data descriptor.
LEMMA TransferDid ==
  ASSUME DiskSizeAssumption, NEW r \in BlkRequests, r.type \in {"in", "out"}, NEW k \in Nat, k < SectorBytes,
         NEW i \in 1..Len(r.descs), NEW x, Did(x, r, i - 1),
         DiskAsPromised, At(r.sector) \in Nat, disk \in Disks, disk.n < MaxBlkRequests
  PROVE  Did(Transfer(x, r.descs[i], r, k), r, i)
<1> DEFINE len == r.descs[i]
           off == Start(r, i)
           next == [x EXCEPT !.i = @ + 1, !.sector = (@ + len \div SectorBytes) % Wide]
           done == IF r.bad = x.i /\ len > 0 THEN k ELSE len
           at == (x.sector * SectorBytes) % Wide
<1>1. i \in Nat \ {0}
  <2>1. Len(r.descs) \in Nat
    BY DEF BlkRequests
  <2> QED BY <2>1
<1>2. CASE ~x.ok
  <2>1. Transfer(x, len, r, k) = x
    BY <1>2 DEF Transfer
  <2> HIDE DEF len
  <2>2. Did(x, r, i)
    BY <1>1, <1>2, StaysGivenUp
  <2> QED BY <2>1, <2>2 DEF len
<1>3. CASE x.ok
  <2>0. Stands(x, r, i)
    BY <1>3, StandsAt
  <2>1. /\ x \in Underway /\ x.i = i /\ x.sector \in 0..Wide - 1 /\ x.d \in Disks
        /\ len \in Nat /\ off \in Nat /\ At(x.sector) = off
        /\ InRange(x.d, x.sector, len) <=> off + len <= DiskBytes
        /\ InRange(x.d, x.sector, len) => at = off
    BY <2>0 DEF Stands
  <2>2. x.d.read_only = disk.read_only /\ x.d.n = disk.n
    BY DEF Did, SameDisk
  <2>3. CASE len % SectorBytes # 0 \/ ~InRange(x.d, x.sector, len) \/ (r.type = "out" /\ x.d.read_only)
    <3>1. Transfer(x, len, r, k) = [x EXCEPT !.ok = FALSE]
      BY <1>3, <2>3 DEF Transfer
    <3>2. ~Served(r, i)
      BY <2>1, <2>2, <2>3 DEF Served
    <3> HIDE DEF len
    <3>3. Did([x EXCEPT !.ok = FALSE], r, i)
      BY <1>1, <3>2, GivenUp
    <3> QED BY <3>1, <3>3 DEF len
  <2>4. CASE len % SectorBytes = 0 /\ InRange(x.d, x.sector, len) /\ ~(r.type = "out" /\ x.d.read_only)
    <3> DEFINE v == (x.sector + len \div SectorBytes) % Wide
    <3>1. at = off /\ off + len <= DiskBytes
      BY <2>1, <2>4
    <3>2. NextIs(x.sector, len, v)
      <4> DEFINE s == x.sector
      <4>1. s * SectorBytes + len <= DiskBytes /\ s \in 0..Wide - 1 /\ len \in Nat /\ len % SectorBytes = 0
        BY <2>1, <2>4, <3>1 DEF At
      <4> HIDE DEF s, len
      <4>2. NextIs(s, len, (s + len \div SectorBytes) % Wide)
        BY <4>1, SectorNext
      <4> QED BY <4>2 DEF s
    <3>3. next = [x EXCEPT !.i = i + 1, !.sector = v]
      BY <2>1
    <3>4. CASE r.type = "in" /\ r.bad = i
      <4>1. Transfer(x, len, r, k) = [x EXCEPT !.ok = FALSE]
        BY <1>3, <2>1, <2>4, <3>4 DEF Transfer
      <4>2. ~Served(r, i)
        BY <3>4 DEF Served
      <4> HIDE DEF len
      <4>3. Did([x EXCEPT !.ok = FALSE], r, i)
        BY <1>1, <4>2, GivenUp
      <4> QED BY <4>1, <4>3 DEF len
    <3>5. CASE r.type = "in" /\ r.bad # i
      <4>1. Transfer(x, len, r, k) = [next EXCEPT !.got = @ \o ReadDiskOf(x.d, at, len)]
        BY <1>3, <2>1, <2>4, <3>5 DEF Transfer
      <4>2. Served(r, i)
        BY <2>4, <3>1, <3>5 DEF Served
      <4> HIDE DEF len, off, at, next, v
      <4>3. [next EXCEPT !.got = @ \o ReadDiskOf(x.d, at, len)]
              = [x EXCEPT !.i = i + 1, !.sector = v, !.got = @ \o ReadDiskOf(x.d, off, len)]
        BY <2>1, <3>1, <3>3 DEF Underway
      <4>4. Reads(x, r, i, v) = [x EXCEPT !.i = i + 1, !.sector = v, !.got = @ \o ReadDiskOf(x.d, off, len)]
        BY <2>1 DEF Reads, off, len
      <4>5. Did(Reads(x, r, i, v), r, i)
        BY <1>3, <3>2, <3>5, <4>2, ReadDid DEF len
      <4> QED BY <4>1, <4>3, <4>4, <4>5 DEF len
    <3>6. CASE r.type = "out"
      <4> DEFINE e == WriteDiskOf(x.d, off, len, done)
      <4>1. Transfer(x, len, r, k)
              = [next EXCEPT !.d = WriteDiskOf(x.d, at, len, done), !.ok = done = len,
                             !.maybe = @ \cup (at..at + len - 1)]
        BY <1>3, <2>4, <3>6 DEF Transfer
      <4>2. done \in Nat /\ done <= len /\ (done = len <=> ~(r.bad = i /\ len > 0))
        <5>1. len > 0 => SectorBytes <= len
          <6> DEFINE n == len
          <6>1. n \in Nat /\ n % SectorBytes = 0 /\ SectorBytes \in Nat \ {0}
            BY <2>1, <2>4 DEF DiskSizeAssumption
          <6> HIDE DEF n
          <6>2. n < SectorBytes => n % SectorBytes = n
            BY <6>1, ModSmall
          <6>3. n > 0 => SectorBytes <= n
            BY <6>1, <6>2
          <6> QED BY <6>3 DEF n
        <5>2. SectorBytes \in Nat
          BY DEF DiskSizeAssumption
        <5>3. k < SectorBytes /\ x.i = i /\ len \in Nat
          BY <2>1
        <5>4. CASE r.bad = i /\ len > 0
          <6>1. done = k
            BY <5>3, <5>4
          <6> HIDE DEF done, len
          <6> QED BY <5>1, <5>2, <5>3, <5>4, <6>1
        <5>5. CASE ~(r.bad = i /\ len > 0)
          <6>1. done = len
            BY <5>3, <5>5
          <6> HIDE DEF done, len
          <6> QED BY <5>3, <5>5, <6>1
        <5> QED BY <5>4, <5>5
      <4>3. Served(r, i) <=> done = len
        <5>1. len = 0 <=> ~(len > 0)
          <6>1. len \in Nat
            BY <2>1
          <6> HIDE DEF len
          <6> QED BY <6>1
        <5> HIDE DEF done
        <5> QED BY <2>2, <2>4, <3>1, <3>6, <4>2, <5>1 DEF Served
      <4> HIDE DEF done
      <4>4. Shows(e, x.d, off, len, done)
        <5> DEFINE s == x.sector
                   d == x.d
        <5>1. d \in Disks /\ d.n < MaxBlkRequests /\ s \in Nat /\ len \in Nat /\ len % SectorBytes = 0
              /\ s * SectorBytes + len <= DiskBytes /\ off = s * SectorBytes
          <6>1. s \in Nat
            BY <2>1 DEF DiskSizeAssumption
          <6> QED BY <2>1, <2>2, <2>4, <3>1, <6>1 DEF At
        <5> HIDE DEF s, d, len, off
        <5>2. Shows(WriteDiskOf(d, s * SectorBytes, len, done), d, s * SectorBytes, len, done)
          BY <4>2, <5>1, WriteShows
        <5> QED BY <5>1, <5>2 DEF d
      <4> HIDE DEF e, len, off, at, next, v
      <4>5. Transfer(x, len, r, k)
              = [next EXCEPT !.d = e, !.ok = done = len, !.maybe = @ \cup (off..off + len - 1)]
        BY <3>1, <4>1 DEF e
      <4>6. [next EXCEPT !.d = e, !.ok = done = len, !.maybe = @ \cup (off..off + len - 1)] = Writes(x, r, i, v, e, done)
        <5>1. Writes(x, r, i, v, e, done)
                = [x EXCEPT !.i = i + 1, !.sector = v, !.d = e, !.ok = done = len, !.maybe = @ \cup (off..off + len - 1)]
          BY <2>1 DEF Writes, off, len
        <5> DEFINE w == off..off + len - 1
                   o == done = len
        <5> HIDE DEF w, o
        <5>2. [next EXCEPT !.d = e, !.ok = o, !.maybe = @ \cup w]
                = [x EXCEPT !.i = i + 1, !.sector = v, !.d = e, !.ok = o, !.maybe = @ \cup w]
          BY <2>1, <3>3 DEF Underway
        <5> QED BY <5>1, <5>2 DEF w, o
      <4>7. ~disk.read_only
        BY <2>2, <2>4, <3>6
      <4>8. Did(Writes(x, r, i, v, e, done), r, i)
        BY <1>3, <3>1, <3>2, <3>6, <4>3, <4>4, <4>7, WriteDid DEF len, off
      <4> QED BY <4>5, <4>6, <4>8 DEF len
    <3> QED BY <3>4, <3>5, <3>6
  <2> QED BY <2>3, <2>4
<1>4. x.ok \in BOOLEAN
  BY DEF Did, Underway
<1> QED BY <1>2, <1>3

\* What a request may rely on: the disk has its type, reads back what was promised
\* and keeps its image, and the last reply was the one due.
OverlayInv ==
  /\ disk \in Disks /\ promised \in [Bytes -> SUBSET Nat]
  /\ DiskAsPromised /\ BaseKept /\ AnsweredExactly

\* A request that begins.
LEMMA StartedDid ==
  ASSUME DiskSizeAssumption, OverlayInv, NEW r \in BlkRequests
  PROVE  Started(r) \in Underway /\ Did(Started(r), r, 0)
<1> DEFINE x == Started(r)
<1>1. disk \in Disks /\ Dirtied(disk) /\ r.sector \in 0..Wide - 1
  BY DEF OverlayInv, BaseKept, Dirtied, BlkRequests
<1>2. <<>> \in Seq(Nat) /\ {} \in SUBSET Bytes /\ 1 \in Nat
  OBVIOUS
<1>3. x \in Underway
  BY <1>1, <1>2 DEF Started, Underway
<1>4. x.d = disk /\ x.sector = r.sector /\ x.i = 1 /\ x.ok /\ x.got = <<>> /\ x.maybe = {}
  BY DEF Started
<1>5. Start(r, 1) = At(r.sector)
  BY StartSteps DEF At
<1>6. SameDisk(disk, disk)
  BY DEF SameDisk
<1>7. At(r.sector) + Len(x.got) = Start(r, 1)
  <2>1. At(r.sector) \in Nat
    BY <1>1 DEF At, DiskSizeAssumption
  <2>2. Len(x.got) = 0
    BY <1>4
  <2> QED BY <1>5, <2>1, <2>2
<1>8. \A j \in 1..0 : Served(r, j)
  OBVIOUS
<1>9. DOMAIN x.got = {}
  BY <1>4
<1>10. 0 + 1 = 1
  OBVIOUS
<1> HIDE DEF x
<1>11. Did(x, r, 0)
  BY <1>1, <1>3, <1>4, <1>5, <1>6, <1>7, <1>8, <1>9, <1>10 DEF Did
<1> QED BY <1>3, <1>11 DEF x

\* process_request has done every descriptor when it answers.
LEMMA TransfersDid ==
  ASSUME DiskSizeAssumption, OverlayInv, disk.n < MaxBlkRequests,
         NEW r \in BlkRequests, r.type \in {"in", "out"}, NEW k \in Nat, k < SectorBytes
  PROVE  Did(Transfers(r, k), r, Len(r.descs))
<1> DEFINE V == Underway
           v == Started(r)
           N == Len(r.descs)
           Turn(x, i) == Transfer(x, r.descs[i], r, k)
           Stay(x, i) == IF Turn(x, i) \in V THEN Turn(x, i) ELSE x
           D == [i \in 1..N |-> [x \in V |-> Stay(x, i)]]
           Body(at, i) == IF i = 0 THEN v ELSE Turn(at[i - 1], i)
           f == CHOOSE at : at = [i \in 0..N |-> Body(at, i)]
<1>1. Transfers(r, k) = f[N]
  BY DEF Transfers
<1>2. N \in Nat
  BY DEF BlkRequests
<1>3. v \in V /\ Did(v, r, 0)
  BY StartedDid
<1>4. At(r.sector) \in Nat /\ disk \in Disks /\ DiskAsPromised
  <2>1. r.sector \in Nat /\ SectorBytes \in Nat
    BY DEF BlkRequests, DiskSizeAssumption
  <2>2. At(r.sector) \in Nat
    BY <2>1 DEF At
  <2> QED BY <2>2 DEF OverlayInv
<1>5. ASSUME NEW i \in 1..N, NEW x, Did(x, r, i - 1) PROVE Did(Turn(x, i), r, i) /\ Turn(x, i) \in V
  <2>1. Did(Turn(x, i), r, i)
    BY <1>4, <1>5, TransferDid
  <2> HIDE DEF Turn
  <2> QED BY <2>1 DEF Did
<1> HIDE DEF N, v, Turn
<1>6. D \in [1..N -> [V -> V]]
  <2>1. \A i \in 1..N : \A x \in V : Stay(x, i) \in V
    OBVIOUS
  <2> HIDE DEF Stay, V
  <2> QED BY <2>1
<1>7. PICK e \in Unrolled(V, N, v, D) : TRUE
  <2> HIDE DEF V, D
  <2>1. Unrolled(V, N, v, D) # {}
    BY <1>2, <1>3, <1>6, RunExists
  <2> HIDE DEF Body, f
  <2> QED BY <2>1
<1>8. e \in [0..N -> V] /\ e[0] = v /\ \A i \in 1..N : e[i] = Stay(e[i - 1], i)
  <2> HIDE DEF Stay, V
  <2>1. e \in [0..N -> V] /\ e[0] = v /\ \A i \in 1..N : e[i] = D[i][e[i - 1]]
    BY <1>7 DEF Unrolled
  <2>2. ASSUME NEW i \in 1..N PROVE e[i] = Stay(e[i - 1], i)
    <3>1. i - 1 \in 0..N
      BY <1>2
    <3>2. e[i - 1] \in V
      BY <2>1, <3>1
    <3> QED BY <2>1, <3>2
  <2> QED BY <2>1, <2>2
<1>9. \A i \in 0..N : Did(e[i], r, i)
  <2> DEFINE S == {i \in 0..N : Did(e[i], r, i)}
  <2>1. 0 \in S
    BY <1>2, <1>3, <1>8
  <2>2. ASSUME NEW i \in 1..N, i - 1 \in S PROVE i \in S
    <3>1. Did(e[i - 1], r, i - 1) /\ i \in 0..N
      BY <1>2, <2>2
    <3>2. Did(Turn(e[i - 1], i), r, i) /\ Turn(e[i - 1], i) \in V
      BY <1>5, <3>1
    <3>3. e[i] = Turn(e[i - 1], i)
      BY <1>8, <3>2
    <3> QED BY <3>1, <3>2, <3>3
  <2> HIDE DEF S
  <2>3. \A i \in 0..N : i \in S
    BY <1>2, <2>1, <2>2, IntervalInduction
  <2> QED BY <2>3 DEF S
<1>10. e = [i \in 0..N |-> Body(e, i)]
  <2>1. \A i \in 1..N : e[i] = Turn(e[i - 1], i)
    <3> SUFFICES ASSUME NEW i \in 1..N PROVE e[i] = Turn(e[i - 1], i)
      OBVIOUS
    <3>1. i - 1 \in 0..N
      BY <1>2
    <3>2. Turn(e[i - 1], i) \in V
      BY <1>5, <1>9, <3>1
    <3> QED BY <1>8, <3>2
  <2>2. \A i \in 0..N : e[i] = Body(e, i)
    <3> SUFFICES ASSUME NEW i \in 0..N PROVE e[i] = Body(e, i)
      OBVIOUS
    <3>1. i # 0 => i \in 1..N
      BY <1>2
    <3> QED BY <1>8, <2>1, <3>1
  <2> HIDE DEF Body, V
  <2> QED BY <1>8, <2>2
<1>11. f = [i \in 0..N |-> Body(f, i)]
  BY <1>10
<1> HIDE DEF f
<1>12. f[0] = v /\ \A i \in 1..N : f[i] = Turn(f[i - 1], i)
  <2>1. \A i \in 0..N : f[i] = Body(f, i)
    <3> HIDE DEF Body
    <3> QED BY <1>11
  <2>2. 0 \in 0..N /\ \A i \in 1..N : i \in 0..N /\ i # 0
    BY <1>2
  <2> QED BY <2>1, <2>2
<1>13. \A i \in 0..N : Did(f[i], r, i)
  <2> DEFINE S == {i \in 0..N : Did(f[i], r, i)}
  <2>1. 0 \in S
    BY <1>2, <1>3, <1>12
  <2>2. ASSUME NEW i \in 1..N, i - 1 \in S PROVE i \in S
    <3>1. Did(f[i - 1], r, i - 1) /\ i \in 0..N
      BY <1>2, <2>2
    <3>2. Did(Turn(f[i - 1], i), r, i)
      BY <1>5, <3>1
    <3> QED BY <1>12, <3>1, <3>2
  <2> HIDE DEF S
  <2>3. \A i \in 0..N : i \in S
    BY <1>2, <2>1, <2>2, IntervalInduction
  <2> QED BY <2>3 DEF S
<1>14. N \in 0..N
  BY <1>2
<1>15. Did(f[N], r, N)
  BY <1>13, <1>14
<1> QED BY <1>1, <1>15 DEF N

\* What a request leaves: its bytes hold their old or new values, and it is
\* answered as is due.
Outcome(x, r) ==
  /\ x.d \in Disks /\ SameDisk(x.d, disk) /\ Dirtied(x.d) /\ (disk.overlaid \/ disk.read_only => x.d.base = disk.base)
  /\ \A b \in Bytes : b \notin x.maybe => Visible(x.d, b) = Visible(disk, b)
  /\ \A b \in x.maybe : /\ Visible(x.d, b) \in {Visible(disk, b), disk.n + 1}
                        /\ x.ok => Visible(x.d, b) = disk.n + 1
  /\ \A j \in DOMAIN x.got : x.got[j] \in promised[At(r.sector) + j - 1]
  /\ x.ok = Due(r)

\* process_request.
ProcessRequest(r, k) == IF disk.backend = "whp" THEN whp_process_request(r, k) ELSE hvf_process_request(r, k)

\* Every request leaves that, whatever fails.
LEMMA RequestIs ==
  ASSUME DiskSizeAssumption, OverlayInv, disk.n < MaxBlkRequests,
         NEW r \in BlkRequests, NEW k \in Nat, k < SectorBytes
  PROVE  Outcome(ProcessRequest(r, k), r)
<1> DEFINE x == ProcessRequest(r, k)
<1>1. CASE r.type \in {"in", "out"}
  <2>1. x = Transfers(r, k)
    BY <1>1 DEF ProcessRequest, whp_process_request, hvf_process_request
  <2>2. Did(x, r, Len(r.descs))
    BY <1>1, <2>1, TransfersDid
  <2> HIDE DEF x
  <2>3. DOMAIN r.descs = 1..Len(r.descs)
    BY DEF BlkRequests
  <2>4. Due(r) <=> \A j \in 1..Len(r.descs) : Served(r, j)
    BY <1>1, <2>3 DEF Due, Served
  <2>5. Due(r) \in BOOLEAN
    BY <1>1 DEF Due
  <2>6. x.ok \in BOOLEAN /\ x.d \in Disks
    BY <2>2 DEF Did, Underway
  <2>7. x.ok <=> Due(r)
    BY <2>2, <2>4 DEF Did
  <2>8. x.ok = Due(r)
    BY <2>5, <2>6, <2>7
  <2> QED BY <2>2, <2>6, <2>8 DEF Did, Outcome, x
<1>2. CASE r.type \notin {"in", "out"}
  <2> DEFINE s == Started(r)
  <2>1. s.d = disk /\ s.maybe = {} /\ s.got = <<>>
    BY DEF Started
  <2>2. s \in Underway /\ s.ok = TRUE
    BY StartedDid DEF Started
  <2>3. r.type \in {"flush", "id", "unknown"}
    BY <1>2 DEF BlkRequests
  <2>4. \E o \in BOOLEAN : x = [s EXCEPT !.ok = o] /\ o = Due(r)
    <3>1. CASE r.type = "flush"
      <4> DEFINE o == r.bad = 0 \/ (disk.backend = "whp" /\ disk.read_only)
      <4>1. x = [s EXCEPT !.ok = o]
        <5>1. CASE disk.backend = "whp"
          <6>1. x = [s EXCEPT !.ok = disk.read_only \/ r.bad = 0]
            BY <3>1, <5>1 DEF ProcessRequest, whp_process_request
          <6>2. (disk.read_only \/ r.bad = 0) = o
            <7>1. disk.read_only \in BOOLEAN
              BY DEF OverlayInv, Disks
            <7> QED BY <5>1, <7>1
          <6> QED BY <6>1, <6>2
        <5>2. CASE disk.backend # "whp"
          <6>1. x = [s EXCEPT !.ok = r.bad = 0]
            BY <3>1, <5>2 DEF ProcessRequest, hvf_process_request
          <6>2. (r.bad = 0) = o
            BY <5>2
          <6> QED BY <6>1, <6>2
        <5> QED BY <5>1, <5>2
      <4>2. Due(r) = o
        BY <3>1 DEF Due
      <4> QED BY <4>1, <4>2
    <3>2. CASE r.type = "id"
      <4>1. x = s
        BY <3>2 DEF ProcessRequest, whp_process_request, hvf_process_request
      <4>2. s = [s EXCEPT !.ok = TRUE]
        BY <2>2 DEF Underway
      <4>3. Due(r) = TRUE
        BY <3>2 DEF Due
      <4> QED BY <4>1, <4>2, <4>3
    <3>3. CASE r.type = "unknown"
      <4>1. x = [s EXCEPT !.ok = FALSE]
        BY <3>3 DEF ProcessRequest, whp_process_request, hvf_process_request
      <4>2. Due(r) = FALSE
        BY <3>3 DEF Due
      <4> QED BY <4>1, <4>2
    <3> QED BY <2>3, <3>1, <3>2, <3>3
  <2>5. PICK o \in BOOLEAN : x = [s EXCEPT !.ok = o] /\ o = Due(r)
    BY <2>4
  <2> HIDE DEF x, s
  <2>6. x.d = disk /\ x.maybe = {} /\ x.got = <<>> /\ x.ok = Due(r)
    BY <2>1, <2>2, <2>5 DEF Underway
  <2>7. disk \in Disks /\ SameDisk(disk, disk) /\ Dirtied(disk)
    BY DEF OverlayInv, BaseKept, Dirtied, SameDisk
  <2>8. DOMAIN x.got = {}
    BY <2>6
  <2> QED BY <2>6, <2>7, <2>8 DEF Outcome, x
<1> QED BY <1>1, <1>2

\* A request keeps the invariant.
LEMMA RequestKeeps ==
  ASSUME DiskSizeAssumption, OverlayInv, NEW r \in BlkRequests, NEW k \in Nat, k < SectorBytes, BlkRequest(r, k)
  PROVE  OverlayInv'
<1> DEFINE x == ProcessRequest(r, k)
           new == disk.n + 1
<1>1. disk.n < MaxBlkRequests
  BY DEF BlkRequest
<1>2. Outcome(x, r)
  BY <1>1, RequestIs
<1>3. /\ disk' = [x.d EXCEPT !.n = @ + 1]
      /\ answer' = [ok |-> x.ok, due |-> Due(r),
                    current |-> \A i \in DOMAIN x.got : x.got[i] \in promised[r.sector * SectorBytes + i - 1]]
      /\ promised' = [b \in Bytes |-> IF b \notin x.maybe THEN promised[b]
                                      ELSE IF x.ok THEN {new} ELSE promised[b] \cup {new}]
  BY DEF BlkRequest, ProcessRequest
<1>4. disk \in Disks /\ promised \in [Bytes -> SUBSET Nat] /\ DiskAsPromised /\ BaseKept
  BY DEF OverlayInv
<1>5. AnsweredExactly'
  <2>1. x.ok = Due(r) /\ \A i \in DOMAIN x.got : x.got[i] \in promised[r.sector * SectorBytes + i - 1]
    BY <1>2 DEF Outcome, At
  <2>2. answer'.ok = answer'.due /\ answer'.current
    BY <1>3, <2>1
  <2> QED BY <2>2 DEF AnsweredExactly
<1> HIDE DEF x
<1>6. x.d \in Disks /\ x.d.n = disk.n /\ disk.n \in Nat /\ new \in Nat
  BY <1>2, <1>4 DEF Outcome, SameDisk, Disks
<1>7. disk' = [x.d EXCEPT !.n = new]
  BY <1>3, <1>6
<1> HIDE DEF new
<1>8. disk' \in Disks
  BY <1>6, <1>7 DEF Disks
<1>9. /\ disk'.overlaid = disk.overlaid /\ disk'.read_only = disk.read_only /\ disk'.base = x.d.base
      /\ disk'.overlay = x.d.overlay /\ disk'.dirty = x.d.dirty /\ disk'.overlaid = x.d.overlaid
  BY <1>2, <1>6, <1>7 DEF Outcome, SameDisk, Disks
<1>10. \A b \in Bytes : Visible(disk', b) = Visible(x.d, b)
  BY <1>9 DEF Visible, sector_dirty
<1>11. DiskAsPromised'
  <2>1. ASSUME NEW b \in Bytes PROVE Visible(disk', b) \in promised'[b]
    <3>1. Visible(disk, b) \in promised[b] /\ Visible(disk', b) = Visible(x.d, b)
      BY <1>4, <1>10 DEF DiskAsPromised
    <3>2. promised'[b] = IF b \notin x.maybe THEN promised[b] ELSE IF x.ok THEN {new} ELSE promised[b] \cup {new}
      BY <1>3
    <3>3. b \notin x.maybe => Visible(x.d, b) = Visible(disk, b)
      BY <1>2 DEF Outcome
    <3>4. b \in x.maybe => Visible(x.d, b) \in {Visible(disk, b), new} /\ (x.ok => Visible(x.d, b) = new)
      BY <1>2 DEF Outcome, new
    <3> QED BY <3>1, <3>2, <3>3, <3>4
  <2> QED BY <2>1 DEF DiskAsPromised
<1>12. BaseKept'
  <2>1. Dirtied(x.d) /\ (disk.overlaid \/ disk.read_only => x.d.base = disk.base)
    BY <1>2 DEF Outcome
  <2>2. \A s \in disk'.dirty : \A b \in Bytes : SectorOf(b) = s => disk'.overlay[b] # Unwritten
    BY <1>9, <2>1 DEF Dirtied
  <2>3. disk'.overlaid \/ disk'.read_only => disk'.base = [b \in Bytes |-> 0]
    BY <1>4, <1>9, <2>1 DEF BaseKept
  <2> QED BY <2>2, <2>3 DEF BaseKept
<1>13. promised' \in [Bytes -> SUBSET Nat]
  <2>1. \A b \in Bytes : promised[b] \in SUBSET Nat
    BY <1>4
  <2>2. \A b \in Bytes : (IF b \notin x.maybe THEN promised[b] ELSE IF x.ok THEN {new} ELSE promised[b] \cup {new}) \in SUBSET Nat
    BY <1>6, <2>1 DEF new
  <2> QED BY <1>3, <2>2
<1> QED BY <1>5, <1>8, <1>11, <1>12, <1>13 DEF OverlayInv

\* The fields a guest may put in a request.
LEMMA RequestTyped ==
  ASSUME DiskSizeAssumption, NEW type \in {"in", "out", "flush", "id", "unknown"},
         NEW descs \in IF type \in {"in", "out"} THEN DescLists ELSE {<<>>},
         NEW sector \in IF type \in {"in", "out"} THEN FirstSectors ELSE {0},
         NEW bad \in IF type = "flush" THEN {0, 1} ELSE 0..Len(descs)
  PROVE  [type |-> type, sector |-> sector, descs |-> descs, bad |-> bad] \in BlkRequests
<1>1. descs \in Seq(Nat)
  <2>1. CASE descs = <<>>
    BY <2>1
  <2>2. CASE descs \in DescLists
    <3>1. PICK m \in 0..MaxSegments : descs \in [1..m -> Lengths]
      BY <2>2 DEF DescLists
    <3>2. m \in Nat /\ Lengths \subseteq Nat
      BY DEF DiskSizeAssumption
    <3>3. descs \in [1..m -> Nat]
      BY <3>1, <3>2
    <3> QED BY <3>2, <3>3
  <2> QED BY <2>1, <2>2
<1>2. sector \in 0..Wide - 1
  <2>1. 0 \in 0..Wide - 1 /\ FirstSectors \subseteq 0..Wide - 1
    BY DEF DiskSizeAssumption
  <2> QED BY <2>1
<1>3. bad \in Nat
  <2>1. Len(descs) \in Nat
    BY <1>1
  <2> QED BY <2>1
<1> QED BY <1>1, <1>2, <1>3 DEF BlkRequests

\* The constructors.
LEMMA OverlayStarts ==
  ASSUME DiskSizeAssumption, OverlayInit
  PROVE  OverlayInv
<1>1. PICK c \in {"whp", "hvf"} : \E o, r \in BOOLEAN : disk = Opened(c, o, r)
  <2> DEFINE W == {Opened("whp", o, r) : o, r \in BOOLEAN}
             H == {Opened("hvf", o, r) : o, r \in BOOLEAN}
  <2>1. disk \in W \/ disk \in H
    <3> DEFINE w == Opened("whp", TRUE, TRUE)
               h == Opened("hvf", TRUE, TRUE)
    <3>1. whp_VirtioBlk = W \ {w} /\ hvf_VirtioBlk = H \ {h}
      BY DEF whp_VirtioBlk, hvf_VirtioBlk
    <3>2. disk \in whp_VirtioBlk \cup hvf_VirtioBlk
      BY DEF OverlayInit
    <3> HIDE DEF W, H, w, h
    <3> QED BY <3>1, <3>2
  <2>2. disk \in W => \E o, r \in BOOLEAN : disk = Opened("whp", o, r)
    OBVIOUS
  <2>3. disk \in H => \E o, r \in BOOLEAN : disk = Opened("hvf", o, r)
    OBVIOUS
  <2> HIDE DEF W, H
  <2> QED BY <2>1, <2>2, <2>3
<1>2. PICK o \in BOOLEAN, r \in BOOLEAN : disk = Opened(c, o, r)
  BY <1>1
<1>3. Unwritten \in Nat
  BY DEF Unwritten, DiskSizeAssumption
<1>4. [b \in Bytes |-> 0] \in [Bytes -> Nat] /\ [b \in Bytes |-> Unwritten] \in [Bytes -> Nat]
  BY <1>3
<1>5. /\ disk.backend = c /\ disk.overlaid = o /\ disk.read_only = r /\ disk.n = 0
      /\ disk.base = [b \in Bytes |-> 0] /\ disk.overlay = [b \in Bytes |-> Unwritten] /\ disk.dirty = {}
  BY <1>2 DEF Opened
<1>6. disk \in Disks
  BY <1>2, <1>4 DEF Opened, Disks
<1>7. \A b \in Bytes : Visible(disk, b) = 0
  BY <1>5 DEF Visible, sector_dirty
<1>8. promised = [b \in Bytes |-> {0}] /\ answer = Answered
  BY DEF OverlayInit
<1>9. promised \in [Bytes -> SUBSET Nat]
  BY <1>8
<1>10. DiskAsPromised
  BY <1>7, <1>8 DEF DiskAsPromised
<1>11. BaseKept
  BY <1>5 DEF BaseKept
<1>12. AnsweredExactly
  BY <1>8 DEF AnsweredExactly, Answered
<1> QED BY <1>6, <1>9, <1>10, <1>11, <1>12 DEF OverlayInv

\* The guest reads back what it wrote, over an image that stays as it was, and
\* exactly the requests inside the disk are served (ReadDisk, WriteDisk,
\* mark_dirty_range, CheckRange, DiskOffset, process_request): for every size of
\* the image and the sector, every width of the integers beyond them, and any
\* list of descriptors.
THEOREM OverlayExactHolds == OverlaySpec => []OverlayExact
<1>1. OverlayInit => OverlayInv
  BY DiskSizeAssumption, OverlayStarts
<1>2. OverlayInv /\ [OverlayNext]_overlayVars => OverlayInv'
  <2> SUFFICES ASSUME OverlayInv, [OverlayNext]_overlayVars PROVE OverlayInv'
    OBVIOUS
  <2>1. CASE UNCHANGED overlayVars
    <3>1. disk' = disk /\ answer' = answer /\ promised' = promised
      BY <2>1 DEF overlayVars
    <3> QED BY <3>1 DEF OverlayInv, DiskAsPromised, BaseKept, AnsweredExactly
  <2>2. CASE OverlayNext
    <3>1. PICK type \in {"in", "out", "flush", "id", "unknown"} :
            \E descs \in IF type \in {"in", "out"} THEN DescLists ELSE {<<>>} :
              \E sector \in IF type \in {"in", "out"} THEN FirstSectors ELSE {0},
                 bad \in IF type = "flush" THEN {0, 1} ELSE 0..Len(descs) :
                \E k \in IF bad = 0 THEN {0} ELSE 0..SectorBytes - 1 :
                  BlkRequest([type |-> type, sector |-> sector, descs |-> descs, bad |-> bad], k)
      BY <2>2 DEF OverlayNext
    <3>2. PICK descs \in IF type \in {"in", "out"} THEN DescLists ELSE {<<>>} :
              \E sector \in IF type \in {"in", "out"} THEN FirstSectors ELSE {0},
                 bad \in IF type = "flush" THEN {0, 1} ELSE 0..Len(descs) :
                \E k \in IF bad = 0 THEN {0} ELSE 0..SectorBytes - 1 :
                  BlkRequest([type |-> type, sector |-> sector, descs |-> descs, bad |-> bad], k)
      BY <3>1
    <3>3. PICK sector \in IF type \in {"in", "out"} THEN FirstSectors ELSE {0},
               bad \in IF type = "flush" THEN {0, 1} ELSE 0..Len(descs) :
                \E k \in IF bad = 0 THEN {0} ELSE 0..SectorBytes - 1 :
                  BlkRequest([type |-> type, sector |-> sector, descs |-> descs, bad |-> bad], k)
      BY <3>2
    <3>4. PICK k \in IF bad = 0 THEN {0} ELSE 0..SectorBytes - 1 :
                  BlkRequest([type |-> type, sector |-> sector, descs |-> descs, bad |-> bad], k)
      BY <3>3
    <3>5. [type |-> type, sector |-> sector, descs |-> descs, bad |-> bad] \in BlkRequests
      BY DiskSizeAssumption, RequestTyped
    <3>6. k \in Nat /\ k < SectorBytes
      BY DiskSizeAssumption DEF DiskSizeAssumption
    <3> QED BY <3>4, <3>5, <3>6, DiskSizeAssumption, RequestKeeps
  <2> QED BY <2>1, <2>2
<1>3. OverlayInv => OverlayExact
  BY DEF OverlayInv, OverlayExact
<1> QED BY <1>1, <1>2, <1>3, PTL DEF OverlaySpec
=============================================================================
