---------------------------- MODULE FramingProofs ----------------------------
(***************************************************************************)
(* The two ends of a TcpChannel agree where packets start in the stream,   *)
(* for as long as nothing of what the documentation of send() and          *)
(* receive() leaves open has torn it: theorem PacketsAreFramed.            *)
(*                                                                         *)
(* A packet on the wire does not say where it starts.  The argument is a   *)
(* set of cuts, positions in the bytes that are sent but not received, the *)
(* rest of a packet in the loop of send() included: from every cut but the *)
(* last, which is the end, to a next one the bytes are a message with its  *)
(* length in front.                                                        *)
(***************************************************************************)
EXTENDS TcpChannelProofs

\* A message as it goes over the wire.
Frame(i) == Digits(Len(Messages[i])) \o Messages[i]

\* Bytes f are in the sequence w, behind its first c.
At(w, c, f) ==
  /\ c + Len(f) <= Len(w)
  /\ \A j \in 1 .. Len(f) : w[c + j] = f[j]

\* From every one of the cuts but the end, one of the first n messages goes
\* to another.
Cut(w, cuts, n) ==
  /\ cuts \subseteq 0 .. Len(w)
  /\ Len(w) \in cuts
  /\ \A c \in cuts : c < Len(w) =>
       \E i \in 1 .. n : At(w, c, Frame(i)) /\ c + Len(Frame(i)) \in cuts

\* The receiver is at a cut, or, with a length known, in front of the message
\* that is so long and has a cut behind it.
Meets(w, cuts, n, target) ==
  /\ target = -1 => 0 \in cuts
  /\ target # -1 =>
       /\ target \in cuts
       /\ \E i \in 1 .. n : target = Len(Messages[i]) /\ At(w, 0, Messages[i])

\* How many of the messages the sender has come to.
Begun == Smaller(next, Len(Messages))

\* What the call in the loop has still to send, and all that is on its way.
Unsent ==
  IF spc = "loop"
    THEN SubSeq(Flat(spkt), spkt.send_pos + 1, real_size(spkt))
    ELSE << >>
Stream == wire \o Unsent

\* The bytes w can be read as the first n messages, with this length known.
Reads(w, n, target) == \E cuts : Cut(w, cuts, n) /\ Meets(w, cuts, n, target)

Framing == ~torn /\ ~broken => Reads(Stream, Begun, rpkt.recv_target)

-----------------------------------------------------------------------------
(* Sequences.                                                              *)

\* Two sequences with the same bytes at the same places are one.
LEMMA SameBytes ==
  ASSUME NEW a \in Seq(Byte), NEW b \in Seq(Byte), Len(a) = Len(b),
         \A j \in 1 .. Len(a) : a[j] = b[j]
  PROVE  a = b
PROOF
  <1>1. a = [j \in 1 .. Len(a) |-> a[j]] /\ b = [j \in 1 .. Len(b) |-> b[j]]
    OBVIOUS
  <1>2. QED
    BY <1>1

\* Of the parts of some bytes, from one place to another.
LEMMA Middle ==
  ASSUME NEW b \in Seq(Byte), NEW x \in Nat, NEW y \in Nat, x <= y, y <= Len(b)
  PROVE  /\ SubSeq(b, x + 1, y) \in Seq(Byte) /\ Len(SubSeq(b, x + 1, y)) = y - x
         /\ \A j \in 1 .. y - x : SubSeq(b, x + 1, y)[j] = b[x + j]
OBVIOUS

\* The bytes of two sequences in a row.
LEMMA InPlace ==
  ASSUME NEW a \in Seq(Byte), NEW b \in Seq(Byte)
  PROVE  /\ \A j \in 1 .. Len(a) : (a \o b)[j] = a[j]
         /\ \A j \in 1 .. Len(b) : (a \o b)[Len(a) + j] = b[j]
OBVIOUS

\* Taking bytes from the front of two sequences in a row.
LEMMA TakenFront ==
  ASSUME NEW a \in Seq(Byte), NEW b \in Seq(Byte), NEW k \in 0 .. Len(a),
         NEW s, s = SubSeq(a, k + 1, Len(a)) \o b
  PROVE  /\ s \in Seq(Byte) /\ Len(s) = Len(a \o b) - k
         /\ \A j \in 1 .. Len(s) : s[j] = (a \o b)[j + k]
PROOF
  <1> DEFINE r == SubSeq(a, k + 1, Len(a))
  <1>1. /\ r \in Seq(Byte) /\ Len(r) = Len(a) - k
        /\ \A j \in 1 .. Len(a) - k : r[j] = a[k + j]
    BY Middle
  <1> HIDE DEF r
  <1>2. s = r \o b
    BY DEF r
  <1>3. s \in Seq(Byte) /\ Len(s) = Len(a) - k + Len(b) /\ Len(a \o b) = Len(a) + Len(b)
    BY <1>1, <1>2, Concatenated
  <1>4. ASSUME NEW j \in 1 .. Len(a) - k + Len(b)
        PROVE  s[j] = (a \o b)[j + k]
    <2>1. CASE j <= Len(a) - k
      BY <1>1, <1>2, <2>1
    <2>2. CASE ~(j <= Len(a) - k)
      BY <1>1, <1>2, <2>2
    <2>3. QED
      BY <2>1, <2>2
  <1>5. QED
    BY <1>3, <1>4

-----------------------------------------------------------------------------
(* Cuts.                                                                   *)

\* A message goes over the wire as its length, which can be read back, and
\* its bytes; there are some.
LEMMA Frames ==
  ASSUME NEW i \in 1 .. Len(Messages)
  PROVE  /\ Messages[i] \in Seq(Byte) /\ Len(Messages[i]) \in 1 .. LenMod - 1
         /\ Digits(Len(Messages[i])) \in Seq(Byte)
         /\ Len(Digits(Len(Messages[i]))) = 2
         /\ Number(Digits(Len(Messages[i]))) = Len(Messages[i])
         /\ Frame(i) \in Seq(Byte) /\ Len(Frame(i)) = 2 + Len(Messages[i])
         /\ \A j \in 1 .. Len(Messages[i]) : Frame(i)[2 + j] = Messages[i][j]
         /\ \A j \in 1 .. 2 : Frame(i)[j] = Digits(Len(Messages[i]))[j]
PROOF
  <1> DEFINE m == Messages[i]
             n == Len(m)
             h == Digits(n)
  <1>1. m \in Seq(Byte) /\ n \in 1 .. DatagramSize - 3
    BY TcpChannelAssumption
  <1> HIDE DEF m
  <1>2. n \in Nat /\ n \in 1 .. LenMod - 1 /\ n < LenMod
    BY <1>1, Constants
  <1>3. h \in Seq(Byte) /\ Len(h) = 2 /\ Number(h) = n
    <2> HIDE DEF n
    <2>1. QED
      BY <1>2, DigitsBytes
  <1>4. Frame(i) = h \o m
    BY DEF Frame, m
  <1> HIDE DEF h
  <1>5. (h \o m) \in Seq(Byte) /\ Len(h \o m) = 2 + n
    BY <1>1, <1>3, Concatenated
  <1>6. /\ \A j \in 1 .. Len(h) : (h \o m)[j] = h[j]
        /\ \A j \in 1 .. Len(m) : (h \o m)[Len(h) + j] = m[j]
    BY <1>1, <1>3, InPlace
  <1>7. QED
    BY <1>1, <1>2, <1>3, <1>4, <1>5, <1>6 DEF h, m

\* Bytes that are in a sequence are in a longer one.
LEMMA AtLonger ==
  ASSUME NEW w \in Seq(Byte), NEW s \in Seq(Byte), NEW c \in Nat,
         NEW f \in Seq(Byte), At(w, c, f)
  PROVE  At(w \o s, c, f)
PROOF
  <1>1. Len(w \o s) = Len(w) + Len(s)
    BY Concatenated
  <1>2. ASSUME NEW j \in 1 .. Len(f) PROVE (w \o s)[c + j] = f[j]
    <2>1. c + j \in 1 .. Len(w) /\ w[c + j] = f[j]
      BY DEF At
    <2>2. QED
      BY <2>1
  <1>3. QED
    BY <1>1, <1>2 DEF At

\* Bytes at the end.
LEMMA AtEndOf ==
  ASSUME NEW w \in Seq(Byte), NEW f \in Seq(Byte)
  PROVE  At(w \o f, Len(w), f)
PROOF
  <1>1. Len(w \o f) = Len(w) + Len(f)
    BY Concatenated
  <1>2. ASSUME NEW j \in 1 .. Len(f) PROVE (w \o f)[Len(w) + j] = f[j]
    OBVIOUS
  <1>3. QED
    BY <1>1, <1>2 DEF At

\* Bytes behind those that are taken from the front.
LEMMA AtShifted ==
  ASSUME NEW w \in Seq(Byte), NEW k \in Nat, k <= Len(w), NEW s \in Seq(Byte),
         Len(s) = Len(w) - k, \A j \in 1 .. Len(s) : s[j] = w[j + k],
         NEW c \in Nat, NEW f \in Seq(Byte), At(w, c + k, f)
  PROVE  At(s, c, f)
PROOF
  <1>1. c + Len(f) <= Len(s)
    BY DEF At
  <1>2. ASSUME NEW j \in 1 .. Len(f) PROVE s[c + j] = f[j]
    <2>1. w[c + k + j] = f[j]
      BY DEF At
    <2>2. c + j \in 1 .. Len(s) /\ c + j + k = c + k + j
      BY <1>1
    <2>3. s[c + j] = w[c + j + k]
      BY <2>2
    <2>4. QED
      BY <2>1, <2>2, <2>3
  <1>3. QED
    BY <1>1, <1>2 DEF At

\* More messages are begun.
LEMMA CutLater ==
  ASSUME NEW w, NEW cuts, NEW n \in Nat, NEW m \in Nat, n <= m,
         NEW target, Cut(w, cuts, n), Meets(w, cuts, n, target)
  PROVE  Cut(w, cuts, m) /\ Meets(w, cuts, m, target)
PROOF
  <1>1. 1 .. n \subseteq 1 .. m
    OBVIOUS
  <1>2. QED
    BY <1>1 DEF Cut, Meets

\* A message is sent behind the others.
LEMMA CutAppended ==
  ASSUME NEW w \in Seq(Byte), NEW cuts, NEW n \in 0 .. Len(Messages), NEW target,
         Cut(w, cuts, n), Meets(w, cuts, n, target), NEW i \in 1 .. n,
         NEW s, s = w \o Frame(i)
  PROVE  \E more : Cut(s, more, n) /\ Meets(s, more, n, target)
PROOF
  <1> DEFINE f    == Frame(i)
             more == cuts \cup {Len(s)}
  <1>1. n \in Nat /\ \A x \in 1 .. n : x \in 1 .. Len(Messages)
    BY TcpChannelAssumption
  <1>2. \A x \in 1 .. n : Frame(x) \in Seq(Byte) /\ Messages[x] \in Seq(Byte)
    BY <1>1, Frames
  <1>3. f \in Seq(Byte)
    BY <1>2
  <1> HIDE DEF f
  <1>4. s \in Seq(Byte) /\ Len(s) = Len(w) + Len(f)
    <2>1. s = w \o f
      BY DEF f
    <2>2. QED
      BY <1>3, <2>1, Concatenated
  <1>5. At(s, Len(w), f)
    <2>1. s = w \o f
      BY DEF f
    <2>2. QED
      BY <1>3, <2>1, AtEndOf
  <1>6. \A c \in Nat, g \in Seq(Byte) : At(w, c, g) => At(s, c, g)
    <2>1. s = w \o f
      BY DEF f
    <2>2. QED
      BY <1>3, <2>1, AtLonger
  <1>7. more \subseteq 0 .. Len(s) /\ Len(s) \in more
    <2>1. Len(w) \in Nat /\ Len(f) \in Nat /\ Len(s) \in Nat /\ Len(s) >= Len(w)
      BY <1>3, <1>4
    <2>2. ASSUME NEW c \in cuts PROVE c \in 0 .. Len(s)
      <3>1. c \in 0 .. Len(w)
        BY DEF Cut
      <3>2. QED
        BY <2>1, <3>1
    <2>3. QED
      BY <2>1, <2>2
  <1>8. ASSUME NEW c \in more, c < Len(s)
        PROVE  \E x \in 1 .. n : At(s, c, Frame(x)) /\ c + Len(Frame(x)) \in more
    <2>1. c \in cuts /\ c \in Nat /\ c <= Len(w)
      BY <1>8 DEF Cut
    <2>2. CASE c < Len(w)
      <3>1. PICK x \in 1 .. n : At(w, c, Frame(x)) /\ c + Len(Frame(x)) \in cuts
        BY <2>1, <2>2 DEF Cut
      <3>2. At(s, c, Frame(x))
        BY <1>2, <1>6, <2>1, <3>1
      <3>3. QED
        BY <3>1, <3>2
    <2>3. CASE c = Len(w)
      <3>1. At(s, c, Frame(i)) /\ c + Len(Frame(i)) = Len(s)
        BY <1>4, <1>5, <2>3 DEF f
      <3>2. QED
        BY <3>1
    <2>4. QED
      BY <2>1, <2>2, <2>3
  <1>9. Cut(s, more, n)
    <2> HIDE DEF more
    <2>1. QED
      BY <1>7, <1>8 DEF Cut
  <1>10. Meets(s, more, n, target)
    <2>1. ASSUME NEW x \in 1 .. n, At(w, 0, Messages[x]) PROVE At(s, 0, Messages[x])
      BY <1>2, <1>6, <2>1
    <2>2. QED
      BY <2>1 DEF Meets
  <1>11. QED
    BY <1>9, <1>10

\* Bytes are taken from the front, up to a place that need not be a cut.
Behind(cuts, k, n) == {c \in 0 .. n : c + k \in cuts}

LEMMA CutShifted ==
  ASSUME NEW w \in Seq(Byte), NEW cuts, NEW n \in 0 .. Len(Messages),
         Cut(w, cuts, n), NEW k \in Nat, k <= Len(w), NEW s \in Seq(Byte),
         Len(s) = Len(w) - k, \A j \in 1 .. Len(s) : s[j] = w[j + k]
  PROVE  Cut(s, Behind(cuts, k, Len(s)), n)
PROOF
  <1> DEFINE rest == Behind(cuts, k, Len(s))
  <1>1. \A x \in 1 .. n : Frame(x) \in Seq(Byte)
    BY TcpChannelAssumption, Frames
  <1>2. Len(s) \in Nat /\ Len(s) + k = Len(w)
    OBVIOUS
  <1>3. rest \subseteq 0 .. Len(s) /\ Len(s) \in rest
    BY <1>2 DEF Cut, Behind
  <1>4. ASSUME NEW c \in rest, c < Len(s)
        PROVE  \E x \in 1 .. n : At(s, c, Frame(x)) /\ c + Len(Frame(x)) \in rest
    <2>1. c \in Nat /\ c + k \in cuts /\ c + k < Len(w)
      BY <1>2, <1>4 DEF Behind
    <2>2. PICK x \in 1 .. n :
            At(w, c + k, Frame(x)) /\ c + k + Len(Frame(x)) \in cuts
      BY <2>1 DEF Cut
    <2>3. Frame(x) \in Seq(Byte)
      BY <1>1
    <2>4. At(s, c, Frame(x))
      BY <2>1, <2>2, <2>3, AtShifted
    <2>5. c + Len(Frame(x)) \in 0 .. Len(s)
      BY <1>2, <2>1, <2>3, <2>4 DEF At
    <2>6. c + Len(Frame(x)) + k \in cuts
      <3>1. c + Len(Frame(x)) + k = c + k + Len(Frame(x))
        BY <2>1, <2>3
      <3>2. QED
        BY <2>2, <3>1
    <2>7. QED
      BY <2>4, <2>5, <2>6 DEF Behind
  <1> HIDE DEF rest
  <1>5. QED
    BY <1>3, <1>4 DEF Cut, rest

-----------------------------------------------------------------------------
(* Steps.                                                                  *)

\* What is on its way is bytes, and what the loop has still to send is the
\* rest of the message.
LEMMA OnItsWay ==
  ASSUME Placed
  PROVE  /\ wire \in Seq(Byte) /\ Unsent \in Seq(Byte) /\ Stream \in Seq(Byte)
         /\ next \in Nat /\ Begun \in 0 .. Len(Messages)
         /\ next <= Len(Messages) =>
              /\ next \in 1 .. Len(Messages) /\ next \in 1 .. Begun
              /\ Carries(spkt, next) /\ Frame(next) \in Seq(Byte)
              /\ Flat(spkt) = Frame(next) /\ real_size(spkt) = Len(Frame(next))
         /\ spc = "loop" =>
              /\ next <= Len(Messages)
              /\ spkt.send_pos \in 1 .. Len(Frame(next)) - 1
              /\ Unsent = SubSeq(Frame(next), spkt.send_pos + 1, Len(Frame(next)))
         /\ spc # "loop" => Unsent = << >>
PROOF
  <1>1. /\ next \in 1 .. Len(Messages) + 1 /\ wire \in Seq(Byte)
        /\ Carries(spkt, next) /\ spkt \in PacketType /\ HasData(spkt) /\ SendPlace
        /\ spc = "loop" => next <= Len(Messages)
    BY DEF Placed, Sending, Network, Carries
  <1>2. Len(Messages) \in Nat /\ next \in Nat /\ next >= 1
    BY <1>1, TcpChannelAssumption
  <1>3. Begun \in 0 .. Len(Messages) /\ (next <= Len(Messages) => Begun = next)
    BY <1>1, <1>2 DEF Begun, Smaller
  <1>4. ASSUME next <= Len(Messages)
        PROVE  /\ next \in 1 .. Len(Messages) /\ next \in 1 .. Begun
               /\ Frame(next) \in Seq(Byte)
               /\ Flat(spkt) = Frame(next) /\ real_size(spkt) = Len(Frame(next))
    <2>1. next \in 1 .. Len(Messages) /\ next \in 1 .. Begun
      BY <1>2, <1>3, <1>4
    <2>2. Flat(spkt) = Frame(next)
      BY <1>1, <1>4 DEF Carries, Flat, Frame
    <2>3. Flat(spkt) \in Seq(Byte) /\ Len(Flat(spkt)) = real_size(spkt)
      BY <1>1, FlatBytes
    <2>4. QED
      BY <2>1, <2>2, <2>3
  <1>5. ASSUME spc = "loop"
        PROVE  /\ next <= Len(Messages)
               /\ spkt.send_pos \in 1 .. Len(Frame(next)) - 1
               /\ Unsent = SubSeq(Frame(next), spkt.send_pos + 1, Len(Frame(next)))
               /\ Unsent \in Seq(Byte)
    <2>1. next <= Len(Messages) /\ spkt.send_pos \in 1 .. Len(Frame(next)) - 1
          /\ Frame(next) \in Seq(Byte)
      BY <1>1, <1>4, <1>5 DEF SendPlace
    <2>2. Unsent = SubSeq(Frame(next), spkt.send_pos + 1, Len(Frame(next)))
      BY <1>4, <1>5, <2>1 DEF Unsent
    <2> DEFINE f == Frame(next)
               c == spkt.send_pos
    <2>3. f \in Seq(Byte) /\ c \in Nat /\ c <= Len(f) /\ Len(f) \in Nat
      BY <2>1
    <2> HIDE DEF f, c
    <2>4. SubSeq(f, c + 1, Len(f)) \in Seq(Byte)
      BY <2>3, Middle
    <2>5. QED
      BY <2>1, <2>2, <2>4 DEF f, c
  <1>6. spc # "loop" => Unsent = << >>
    BY DEF Unsent
  <1>7. Unsent \in Seq(Byte)
    <2>1. << >> \in Seq(Byte)
      OBVIOUS
    <2>2. CASE spc = "loop"
      BY <1>5, <2>2
    <2>3. CASE spc # "loop"
      BY <1>6, <2>1, <2>3
    <2>4. QED
      BY <2>2, <2>3
  <1>8. Stream \in Seq(Byte)
    BY <1>1, <1>7, Concatenated DEF Stream
  <1>9. QED
    BY <1>1, <1>2, <1>3, <1>4, <1>5, <1>6, <1>7, <1>8

\* The parts of the invariant after a step.
LEMMA UnsentNext ==
  ASSUME spc' = "loop", NEW p, spkt' = p
  PROVE  Unsent' = SubSeq(Flat(p), p.send_pos + 1, real_size(p))
BY DEF Unsent, Flat, Digits, real_size, work_size

LEMMA UnsentGone ==
  ASSUME spc' # "loop", wire' \in Seq(Byte)
  PROVE  Stream' = wire'
PROOF
  <1>1. Unsent' = << >>
    BY DEF Unsent
  <1>2. \A a \in Seq(Byte) : a \o << >> = a
    OBVIOUS
  <1>3. QED
    BY <1>1, <1>2 DEF Stream

LEMMA FramingNext ==
  ASSUME ~torn' /\ ~broken' => Reads(Stream', Begun', rpkt'.recv_target)
  PROVE  Framing'
BY DEF Framing, Reads, Cut, Meets, At, Frame, Digits

\* A step that sends the message the sender works on, or sends nothing that
\* was not on its way before.
LEMMA SenderFrames ==
  ASSUME Placed, Framing, UNCHANGED <<broken, rpkt>>, torn => torn',
         Begun' \in Begun .. Len(Messages),
         \/ Stream' = Stream
         \/ next \in 1 .. Begun /\ Stream' = Stream \o Frame(next)
  PROVE  Framing'
PROOF
  <1>1. SUFFICES ASSUME ~torn', ~broken'
                 PROVE  Reads(Stream', Begun', rpkt'.recv_target)
    BY FramingNext
  <1> DEFINE w == Stream
             n == Begun'
             t == rpkt.recv_target
  <1>2. w \in Seq(Byte) /\ Begun \in 0 .. Len(Messages)
    BY OnItsWay
  <1>3. Reads(w, Begun, t)
    BY <1>1 DEF Framing
  <1>4. Begun \in Nat /\ n \in Nat /\ Begun <= n /\ n \in 0 .. Len(Messages)
    BY <1>2, TcpChannelAssumption
  <1>5. PICK cuts : Cut(w, cuts, Begun) /\ Meets(w, cuts, Begun, t)
    BY <1>3 DEF Reads
  <1>6. rpkt'.recv_target = t
    OBVIOUS
  <1> HIDE DEF w, n, t
  <1>7. Cut(w, cuts, n) /\ Meets(w, cuts, n, t)
    BY <1>4, <1>5, CutLater
  <1>8. CASE Stream' = Stream
    <2>1. Reads(w, n, t)
      BY <1>7 DEF Reads
    <2>2. QED
      BY <1>6, <1>8, <2>1 DEF w, n
  <1>9. CASE next \in 1 .. Begun /\ Stream' = Stream \o Frame(next)
    <2>1. next \in 1 .. n
      BY <1>4, <1>9
    <2>2. \A s : s = w \o Frame(next) => Reads(s, n, t)
      BY <1>2, <1>4, <1>7, <2>1, CutAppended DEF Reads, w
    <2>3. QED
      BY <1>6, <1>9, <2>2 DEF w, n
  <1>10. QED
    BY <1>8, <1>9

\* A call of send() ends.
LEMMA SendEndsCall ==
  ASSUME Placed, NEW state, NEW p, NEW all, NEW none, SendReturns(state, p, all, none)
  PROVE  /\ spc' # "loop" /\ (torn => torn')
         /\ next' = IF state = "done" THEN next + 1 ELSE next
         /\ doubtful' = IF all /\ state # "done" THEN doubtful \cup {next}
                         ELSE doubtful
BY DEF SendReturns

\* The messages that the sender has come to.
LEMMA BegunLater ==
  ASSUME Placed, next <= Len(Messages), next' \in {next, next + 1}
  PROVE  Begun' \in Begun .. Len(Messages)
PROOF
  <1>1. next \in Nat /\ Len(Messages) \in Nat
    BY OnItsWay, TcpChannelAssumption
  <1>2. QED
    BY <1>1 DEF Begun, Smaller

\* The first ::send puts a message on its way, all of it or with the rest in
\* the loop, or nothing.
Whole(f)   == Stream' = Stream \o f /\ spc' # "loop" /\ next' = next + 1
Halved(f)  == Stream' = Stream \o f /\ spc' = "loop" /\ next' = next /\ ~SendBlocking
Nothing    == Stream' = Stream /\ spc' # "loop" /\ next' = next + 1
                /\ (broken \/ ~SendBlocking)

LEMMA FirstMoves ==
  ASSUME Placed, Placed', SendFirst
  PROVE  /\ next \in 1 .. Len(Messages) /\ next \in 1 .. Begun /\ spc # "loop"
         /\ UNCHANGED <<broken, rvars, doubtful>> /\ (torn => torn')
         /\ Whole(Frame(next)) \/ Halved(Frame(next)) \/ Nothing
PROOF
  <1> DEFINE f == Frame(next)
  <1>1. /\ spc = "ready" /\ next <= Len(Messages)
        /\ UNCHANGED <<here, shut, broken, rvars, conns>>
    BY DEF SendFirst
  <1>2. /\ wire \in Seq(Byte) /\ Unsent = << >> /\ f \in Seq(Byte)
        /\ Flat(spkt) = f /\ real_size(spkt) = Len(f) /\ Carries(spkt, next)
        /\ next \in 1 .. Begun /\ next \in 1 .. Len(Messages)
    BY <1>1, OnItsWay
  <1>3. Stream = wire
    <2>1. \A a \in Seq(Byte) : a \o << >> = a
      OBVIOUS
    <2>2. QED
      BY <1>2, <2>1 DEF Stream
  <1>4. Network /\ wire' \in Seq(Byte)
    BY <1>1 DEF Placed, Network
  <1> HIDE DEF f
  <1> DEFINE Moves == /\ UNCHANGED doubtful /\ (torn => torn')
                      /\ Whole(f) \/ Halved(f) \/ Nothing
  <1>5. ASSUME NEW k \in Takes(Len(f)),
               wire' = wire \o SubSeq(f, 1, k),
               LET p == [spkt EXCEPT !.send_pos = k]
               IN IF get_send_remainder(p) <= 0
                    THEN SendReturns("done", p, TRUE, FALSE)
                    ELSE /\ spc' = "loop" /\ spkt' = p /\ sres' = Unasked
                         /\ UNCHANGED <<next, doubtful, torn>>
        PROVE  Moves
    <2> DEFINE p == [spkt EXCEPT !.send_pos = k]
    <2>1. k \in 1 .. Len(f) /\ Len(f) \in Nat
      BY <1>2, <1>4, TakesSome
    <2>2. /\ Carries(p, next) /\ p.send_pos = k /\ real_size(p) = Len(f)
          /\ p.header = spkt.header /\ p.body = spkt.body
          /\ get_send_remainder(p) = Len(f) - k
      BY <1>2, <2>1, SendPos
    <2>3. Flat(p) = f
      BY <1>2, <2>2 DEF Flat
    <2>4. SubSeq(f, 1, k) \in Seq(Byte)
      BY <1>2, <2>1
    <2>5. CASE get_send_remainder(p) <= 0
      <3>1. SendReturns("done", p, TRUE, FALSE)
        BY <1>5, <2>5
      <3> HIDE DEF p
      <3>2. /\ spc' # "loop" /\ (torn => torn') /\ next' = next + 1
            /\ UNCHANGED doubtful
        BY <3>1, SendEndsCall
      <3>3. SubSeq(f, 1, k) = f
        <4>1. k = Len(f)
          BY <2>1, <2>2, <2>5
        <4>2. QED
          BY <1>2, <4>1
      <3>4. Stream' = Stream \o f
        BY <1>3, <1>4, <1>5, <3>2, <3>3, UnsentGone
      <3>5. QED
        BY <3>2, <3>4 DEF Whole
    <2>6. CASE ~(get_send_remainder(p) <= 0)
      <3>1. spc' = "loop" /\ spkt' = p /\ UNCHANGED <<next, doubtful, torn>>
        BY <1>5, <2>6
      <3> HIDE DEF p
      <3>2. Unsent' = SubSeq(f, k + 1, Len(f))
        BY <2>2, <2>3, <3>1, UnsentNext
      <3>3. Unsent' \in Seq(Byte)
        BY <1>2, <2>1, <3>2, Middle
      <3>4. SubSeq(f, 1, k) \o SubSeq(f, k + 1, Len(f)) = f
        <4>1. SubSeq(f, 0 + 1, k) \o SubSeq(f, k + 1, Len(f)) = SubSeq(f, 0 + 1, Len(f))
          BY <1>2, <2>1, Joined
        <4>2. SubSeq(f, 1, Len(f)) = f /\ 0 + 1 = 1
          BY <1>2
        <4>3. QED
          BY <4>1, <4>2
      <3>5. Stream' = Stream \o f
        <4> DEFINE a == SubSeq(f, 1, k)
                   b == SubSeq(f, k + 1, Len(f))
        <4>1. Stream' = (wire \o a) \o b
          BY <1>5, <3>2 DEF Stream
        <4>2. a \in Seq(Byte) /\ b \in Seq(Byte) /\ a \o b = f
          BY <2>4, <3>2, <3>3, <3>4
        <4> HIDE DEF a, b
        <4>3. (wire \o a) \o b = wire \o (a \o b)
          BY <1>2, <4>2, Associative
        <4>4. QED
          BY <1>3, <4>1, <4>2, <4>3
      <3>6. ~SendBlocking
        <4>1. k # Len(f)
          BY <2>1, <2>2, <2>6 DEF p
        <4>2. QED
          BY <1>5, <4>1 DEF Takes
      <3>7. QED
        BY <3>1, <3>5, <3>6 DEF Halved
    <2>7. QED
      BY <2>5, <2>6
  <1>6. ASSUME serr' \in SendErrors(Len(f)),
               SendReturns("done", spkt, FALSE, TRUE), UNCHANGED wire
        PROVE  Moves
    <2>1. /\ spc' # "loop" /\ (torn => torn') /\ next' = next + 1
          /\ UNCHANGED doubtful
      BY <1>6, SendEndsCall
    <2>2. Stream' = Stream
      BY <1>3, <1>4, <1>6, <2>1, UnsentGone
    <2>3. broken \/ ~SendBlocking
      BY <1>6 DEF SendErrors
    <2>4. QED
      BY <2>1, <2>2, <2>3 DEF Nothing
  <1>7. Moves
    <2> HIDE DEF Moves
    <2>1. QED
      BY <1>2, <1>5, <1>6 DEF SendFirst
  <1>8. QED
    BY <1>1, <1>2, <1>7 DEF f

\* So the stream can be read as before.
LEMMA FramesSendFirst ==
  ASSUME Placed, Placed', Framing, SendFirst
  PROVE  Framing' /\ UNCHANGED delivered
PROOF
  <1>1. /\ next \in 1 .. Len(Messages) /\ next \in 1 .. Begun
        /\ UNCHANGED <<broken, rvars>> /\ (torn => torn')
        /\ Whole(Frame(next)) \/ Halved(Frame(next)) \/ Nothing
    BY FirstMoves
  <1>2. /\ Stream' = Stream \/ Stream' = Stream \o Frame(next)
        /\ next' \in {next, next + 1}
    BY <1>1 DEF Whole, Halved, Nothing
  <1>3. next <= Len(Messages)
    BY <1>1, TcpChannelAssumption
  <1>4. QED
    BY <1>1, <1>2, <1>3, BegunLater, SenderFrames DEF rvars

\* A turn of the loop moves bytes of the message into the stream.  The call goes
\* on, or has sent all of it and says so or not; if it ends without all of them
\* it has torn the stream.
GoesOn    == spc' = "loop" /\ next' = next /\ UNCHANGED doubtful
SaysDone  == spc' # "loop" /\ next' = next + 1 /\ UNCHANGED doubtful
SaysElse  == spc' # "loop" /\ next' = next /\ doubtful' = doubtful \cup {next}
GivesUp   == /\ torn' \/ broken'
             /\ spc' # "loop" /\ next' \in {next, next + 1} /\ UNCHANGED doubtful

LEMMA MoreMoves ==
  ASSUME Placed, Placed', SendMore
  PROVE  /\ next \in 1 .. Len(Messages) /\ spc = "loop"
         /\ UNCHANGED <<broken, rvars>> /\ (torn => torn')
         /\ (Stream' = Stream /\ (GoesOn \/ SaysDone \/ SaysElse)) \/ GivesUp
PROOF
  <1> DEFINE f  == Frame(next)
             at == spkt.send_pos
  <1>1. spc = "loop" /\ UNCHANGED <<here, shut, broken, rvars, conns>>
    BY DEF SendMore
  <1>2. /\ wire \in Seq(Byte) /\ Unsent \in Seq(Byte) /\ f \in Seq(Byte)
        /\ Unsent = SubSeq(f, at + 1, Len(f)) /\ at \in 1 .. Len(f) - 1
        /\ Flat(spkt) = f /\ real_size(spkt) = Len(f) /\ Carries(spkt, next)
        /\ next \in 1 .. Len(Messages)
    BY <1>1, OnItsWay
  <1>3. Network /\ wire' \in Seq(Byte)
    BY <1>1 DEF Placed, Network
  <1>4. at \in Nat /\ at < Len(f) /\ Len(f) \in Nat /\ at >= 1
    BY <1>2
  <1>5. get_send_remainder(spkt) = Len(f) - at
    BY <1>2, <1>4 DEF get_send_remainder
  <1> DEFINE Moves == /\ torn => torn'
                      /\ \/ Stream' = Stream /\ (GoesOn \/ SaysDone \/ SaysElse)
                         \/ GivesUp
  <1> HIDE DEF f, at
  <1>7. ASSUME NEW k \in Takes(Len(f) - at),
               wire' = wire \o SubSeq(f, at + 1, at + k),
               LET p     == [spkt EXCEPT !.send_pos = at + k]
                   state == to_state(serr')
                   all   == get_send_remainder(p) <= 0
               IN IF state = "in_progress" /\ ~all
                    THEN spkt' = p /\ UNCHANGED <<next, spc, sres, doubtful, torn>>
                    ELSE SendReturns(state, p, all, FALSE)
        PROVE  Moves
    <2> DEFINE p   == [spkt EXCEPT !.send_pos = at + k]
               all == get_send_remainder(p) <= 0
               mid == at + k
               d   == SubSeq(f, at + 1, mid)
    <2>1. k \in 1 .. Len(f) - at /\ ~broken
      <3>1. Len(f) - at \in Nat
        BY <1>4
      <3>2. QED
        BY <1>3, <1>7, <3>1, TakesSome
    <2>2. mid \in Nat /\ at <= mid /\ mid <= Len(f) /\ mid \in Int /\ ~(mid < 1)
      BY <1>4, <2>1
    <2>3. /\ Carries(p, next) /\ p.send_pos = mid /\ real_size(p) = Len(f)
          /\ p.header = spkt.header /\ p.body = spkt.body
          /\ get_send_remainder(p) = Len(f) - mid
      <3> HIDE DEF mid
      <3>1. \A q : q = [spkt EXCEPT !.send_pos = mid] =>
              /\ Carries(q, next) /\ q.send_pos = mid /\ real_size(q) = Len(f)
              /\ q.header = spkt.header /\ q.body = spkt.body
              /\ get_send_remainder(q) = Len(f) - mid
        BY <1>2, <2>2, SendPos
      <3>2. QED
        BY <3>1 DEF mid
    <2>4. Flat(p) = f
      BY <1>2, <2>3 DEF Flat
    <2>5. IF to_state(serr') = "in_progress" /\ ~all
            THEN spkt' = p /\ UNCHANGED <<next, spc, doubtful, torn>>
            ELSE SendReturns(to_state(serr'), p, all, FALSE)
      BY <1>7
    <2>6. wire' = wire \o d
      BY <1>7
    <2> HIDE DEF p, mid
    <2>7. d \in Seq(Byte) /\ SubSeq(f, mid + 1, Len(f)) \in Seq(Byte)
          /\ d \o SubSeq(f, mid + 1, Len(f)) = Unsent
      <3>1. d \in Seq(Byte)
        BY <1>2, <1>4, <2>2, Middle
      <3>2. SubSeq(f, mid + 1, Len(f)) \in Seq(Byte)
        BY <1>2, <1>4, <2>2, Middle
      <3>3. SubSeq(f, at + 1, mid) \o SubSeq(f, mid + 1, Len(f))
              = SubSeq(f, at + 1, Len(f))
        <4> DEFINE n == Len(f)
        <4>1. f \in Seq(Byte) /\ n \in Nat /\ n <= Len(f)
          BY <1>2, <1>4
        <4> HIDE DEF n
        <4>2. SubSeq(f, at + 1, mid) \o SubSeq(f, mid + 1, n) = SubSeq(f, at + 1, n)
          BY <1>4, <2>2, <4>1, Joined DEF n
        <4>3. QED
          BY <4>2 DEF n
      <3>4. QED
        BY <1>2, <3>1, <3>2, <3>3
    <2> HIDE DEF d
    <2>8. CASE to_state(serr') = "in_progress" /\ ~all
      <3>1. spkt' = p /\ UNCHANGED <<next, spc, doubtful, torn>>
        BY <2>5, <2>8
      <3>2. Unsent' = SubSeq(f, mid + 1, Len(f))
        BY <1>1, <2>3, <2>4, <3>1, UnsentNext
      <3>3. Stream' = Stream
        <4> DEFINE b == SubSeq(f, mid + 1, Len(f))
        <4>1. Stream' = (wire \o d) \o b /\ Stream = wire \o Unsent
          BY <2>6, <3>2 DEF Stream
        <4>2. b \in Seq(Byte) /\ d \o b = Unsent
          BY <2>7
        <4> HIDE DEF b
        <4>3. (wire \o d) \o b = wire \o (d \o b)
          <5>1. \A x, y, z \in Seq(Byte) : (x \o y) \o z = x \o (y \o z)
            BY Associative
          <5>2. wire \in Seq(Byte) /\ d \in Seq(Byte) /\ b \in Seq(Byte)
            BY <1>2, <2>7, <4>2
          <5>3. QED
            BY <5>1, <5>2
        <4>4. QED
          BY <4>1, <4>2, <4>3
      <3>4. QED
        BY <1>1, <3>1, <3>3 DEF GoesOn
    <2>9. CASE ~(to_state(serr') = "in_progress" /\ ~all)
      <3>1. SendReturns(to_state(serr'), p, all, FALSE)
        BY <2>5, <2>9
      <3>2. /\ spc' # "loop" /\ (torn => torn')
            /\ next' = IF to_state(serr') = "done" THEN next + 1 ELSE next
            /\ doubtful' = IF all /\ to_state(serr') # "done"
                             THEN doubtful \cup {next} ELSE doubtful
        <4> HIDE DEF all
        <4>1. QED
          BY <3>1, SendEndsCall
      <3>3. CASE all
        <4>1. mid = Len(f)
          BY <1>4, <2>2, <2>3, <3>3
        <4>2. d = Unsent
          BY <1>2, <4>1 DEF d
        <4>3. Stream' = Stream
          BY <1>3, <2>6, <3>2, <4>2, UnsentGone DEF Stream
        <4>4. SaysDone \/ SaysElse
          <5> HIDE DEF all
          <5>1. QED
            BY <3>2, <3>3 DEF SaysDone, SaysElse
        <4>5. QED
          BY <3>2, <4>3, <4>4
      <3>4. CASE ~all
        <4>1. torn' = (torn \/ (~all /\ ~FALSE /\ ~broken))
          BY <3>1 DEF SendReturns
        <4>2. torn'
          BY <2>1, <3>4, <4>1
        <4>3. GivesUp
          <5> HIDE DEF all
          <5>1. QED
            BY <3>2, <3>4, <4>2 DEF GivesUp
        <4>4. QED
          BY <3>2, <4>3
      <3>5. QED
        BY <3>3, <3>4
    <2>10. QED
      BY <2>8, <2>9
  <1>8. ASSUME IF to_state(serr') = "in_progress"
                 THEN UNCHANGED <<next, spc, spkt, sres, doubtful, torn>>
                 ELSE SendReturns(to_state(serr'), spkt, FALSE, FALSE),
               UNCHANGED wire
        PROVE  Moves
    <2>1. CASE to_state(serr') = "in_progress"
      <3>1. UNCHANGED <<next, spc, spkt, doubtful, torn>>
        BY <1>8, <2>1
      <3>2. Unsent' = SubSeq(Flat(spkt), spkt.send_pos + 1, real_size(spkt))
        BY <1>1, <3>1, UnsentNext
      <3>3. Stream' = Stream
        BY <1>2, <1>8, <3>2 DEF Stream, at
      <3>4. QED
        BY <1>1, <3>1, <3>3 DEF GoesOn
    <2>2. CASE to_state(serr') # "in_progress"
      <3>1. SendReturns(to_state(serr'), spkt, FALSE, FALSE)
        BY <1>8, <2>2
      <3>2. torn' = (torn \/ (~FALSE /\ ~FALSE /\ ~broken))
        BY <3>1 DEF SendReturns
      <3>3. torn' \/ broken'
        BY <1>1, <3>2
      <3>4. /\ spc' # "loop" /\ (torn => torn') /\ UNCHANGED doubtful
            /\ next' \in {next, next + 1}
        BY <3>1, SendEndsCall
      <3>5. QED
        BY <3>3, <3>4 DEF GivesUp
    <2>3. QED
      BY <2>1, <2>2
  <1>9. Moves
    <2> HIDE DEF Moves
    <2>1. QED
      BY <1>2, <1>5, <1>7, <1>8 DEF SendMore, at
  <1>10. QED
    BY <1>1, <1>2, <1>9

\* So the stream can be read as before, or does not have to be.
LEMMA FramesSendMore ==
  ASSUME Placed, Placed', Framing, SendMore
  PROVE  Framing' /\ UNCHANGED delivered
PROOF
  <1>1. /\ next \in 1 .. Len(Messages)
        /\ UNCHANGED <<broken, rvars>> /\ (torn => torn')
        /\ (Stream' = Stream /\ (GoesOn \/ SaysDone \/ SaysElse)) \/ GivesUp
    BY MoreMoves
  <1>2. CASE GivesUp
    BY <1>1, <1>2 DEF GivesUp, Framing, rvars
  <1>3. CASE Stream' = Stream /\ (GoesOn \/ SaysDone \/ SaysElse)
    <2>1. next' \in {next, next + 1}
      BY <1>3 DEF GoesOn, SaysDone, SaysElse
    <2>2. next <= Len(Messages)
      BY <1>1, TcpChannelAssumption
    <2>3. QED
      BY <1>1, <1>3, <2>1, <2>2, BegunLater, SenderFrames DEF rvars
  <1>4. QED
    BY <1>1, <1>2, <1>3

\* The receiver reads the length of a message: the message follows.
LEMMA LengthIsRead ==
  ASSUME NEW w \in Seq(Byte), NEW n \in 0 .. Len(Messages), NEW target,
         target = -1, Reads(w, n, target), NEW s \in Seq(Byte), Len(w) >= 2,
         Len(s) = Len(w) - 2, \A j \in 1 .. Len(s) : s[j] = w[j + 2],
         NEW h \in Seq(Byte), Len(h) >= 2, \A j \in 1 .. 2 : h[j] = w[j]
  PROVE  Number(h) \in 1 .. LenMod - 1 /\ Reads(s, n, Number(h))
PROOF
  <1>1. PICK cuts : Cut(w, cuts, n) /\ 0 \in cuts
    BY DEF Reads, Meets
  <1>2. PICK i \in 1 .. n : At(w, 0, Frame(i)) /\ 0 + Len(Frame(i)) \in cuts
    <2>1. 0 < Len(w)
      OBVIOUS
    <2>2. QED
      BY <1>1, <2>1 DEF Cut
  <1> DEFINE m == Messages[i]
             t == Len(m)
             d == Digits(t)
             f == Frame(i)
  <1>3. i \in 1 .. Len(Messages)
    BY TcpChannelAssumption
  <1>4. /\ m \in Seq(Byte) /\ t \in 1 .. LenMod - 1 /\ d \in Seq(Byte) /\ Len(d) = 2
        /\ Number(d) = t /\ f \in Seq(Byte) /\ Len(f) = 2 + t
        /\ \A j \in 1 .. t : f[2 + j] = m[j]
        /\ \A j \in 1 .. 2 : f[j] = d[j]
    BY <1>3, Frames
  <1>5. At(w, 0, f) /\ 0 + Len(f) \in cuts
    BY <1>2
  <1>6. t = Len(m) /\ t \in Nat /\ t >= 1
    BY <1>4, Constants
  <1> HIDE DEF m, t, d, f
  <1>7. \A j \in 1 .. Len(f) : w[j] = f[j]
    <2>1. \A j \in 1 .. Len(f) : w[0 + j] = f[j] /\ 0 + j = j
      BY <1>5 DEF At
    <2>2. QED
      BY <2>1
  <1>8. Number(h) = t
    <2>1. 1 \in 1 .. 2 /\ 2 \in 1 .. 2 /\ 1 \in 1 .. Len(f) /\ 2 \in 1 .. Len(f)
      BY <1>4, <1>6
    <2>2. h[1] = d[1] /\ h[2] = d[2]
      BY <1>4, <1>7, <2>1
    <2>3. Number(h) = Number(d)
      BY <2>2 DEF Number
    <2>4. QED
      BY <1>4, <2>3
  <1>9. At(s, 0, m)
    <2>1. 2 + t <= Len(w)
      BY <1>4, <1>5, <1>6 DEF At
    <2>2. ASSUME NEW j \in 1 .. t PROVE s[0 + j] = m[j]
      <3>1. j \in 1 .. Len(s) /\ 2 + j \in 1 .. Len(f) /\ 0 + j = j /\ j + 2 = 2 + j
        BY <1>4, <1>6, <2>1
      <3>2. s[j] = w[2 + j]
        BY <3>1
      <3>3. w[2 + j] = f[2 + j] /\ f[2 + j] = m[j]
        BY <1>4, <1>7, <3>1
      <3>4. QED
        BY <3>1, <3>2, <3>3
    <2>3. QED
      BY <1>6, <2>1, <2>2 DEF At
  <1> DEFINE rest == Behind(cuts, 2, Len(s))
  <1>10. Cut(s, rest, n)
    <2> DEFINE k == 2
    <2>1. k \in Nat /\ k <= Len(w) /\ Len(s) = Len(w) - k
          /\ \A j \in 1 .. Len(s) : s[j] = w[j + k]
      OBVIOUS
    <2> HIDE DEF k
    <2>2. Cut(s, Behind(cuts, k, Len(s)), n)
      BY <1>1, <2>1, CutShifted
    <2>3. QED
      BY <2>2 DEF k
  <1>11. t \in rest
    <2>1. 2 + t <= Len(w) /\ 0 + Len(f) = t + 2
      BY <1>4, <1>5, <1>6 DEF At
    <2>2. t \in 0 .. Len(s) /\ t + 2 \in cuts
      BY <1>5, <1>6, <2>1
    <2>3. QED
      BY <2>2 DEF Behind
  <1> HIDE DEF rest
  <1>12. Meets(s, rest, n, t)
    <2>1. t # -1
      BY <1>6
    <2>2. t = Len(Messages[i]) /\ At(s, 0, Messages[i])
      BY <1>6, <1>9 DEF m
    <2>3. QED
      BY <1>11, <2>1, <2>2 DEF Meets
  <1>13. QED
    BY <1>4, <1>8, <1>10, <1>12 DEF Reads

\* The first k bytes of w, and those behind them.
IsFront(d, w, k) ==
  d \in Seq(Byte) /\ Len(d) = k /\ \A j \in 1 .. k : d[j] = w[j]
IsBehind(s, w, k) ==
  s \in Seq(Byte) /\ Len(s) = Len(w) - k /\ \A j \in 1 .. Len(s) : s[j] = w[j + k]

\* The receiver reads the payload whose length it knows: it is a message, and
\* the next one follows.
LEMMA PayloadIsRead ==
  ASSUME NEW w \in Seq(Byte), NEW n \in 0 .. Len(Messages), NEW t \in Nat,
         Reads(w, n, t), t <= Len(w), NEW s, IsBehind(s, w, t),
         NEW d, IsFront(d, w, t), NEW target, target = -1
  PROVE  /\ \E i \in 1 .. n : d = Messages[i]
         /\ Reads(s, n, target)
PROOF
  <1>1. /\ s \in Seq(Byte) /\ Len(s) = Len(w) - t
        /\ \A j \in 1 .. Len(s) : s[j] = w[j + t]
        /\ d \in Seq(Byte) /\ Len(d) = t /\ \A j \in 1 .. t : d[j] = w[j]
    BY DEF IsBehind, IsFront
  <1>2. PICK cuts : Cut(w, cuts, n) /\ Meets(w, cuts, n, t)
    BY DEF Reads
  <1>3. t # -1
    OBVIOUS
  <1>4. t \in cuts
    BY <1>2, <1>3 DEF Meets
  <1>5. PICK i \in 1 .. n : t = Len(Messages[i]) /\ At(w, 0, Messages[i])
    BY <1>2, <1>3 DEF Meets
  <1>6. d = Messages[i]
    <2> DEFINE m == Messages[i]
    <2>1. m \in Seq(Byte)
      BY TcpChannelAssumption
    <2>2. Len(m) = t /\ At(w, 0, m)
      BY <1>5
    <2> HIDE DEF m
    <2>3. \A j \in 1 .. t : w[0 + j] = m[j] /\ 0 + j = j
      BY <2>2 DEF At
    <2>4. \A j \in 1 .. Len(d) : d[j] = m[j]
      BY <1>1, <2>3
    <2>5. d = m
      BY <1>1, <2>1, <2>2, <2>4, SameBytes
    <2>6. QED
      BY <2>5 DEF m
  <1> DEFINE rest == Behind(cuts, t, Len(s))
  <1>7. Cut(s, rest, n)
    BY <1>1, <1>2, CutShifted
  <1>8. 0 \in rest
    <2>1. 0 \in 0 .. Len(s) /\ 0 + t \in cuts
      BY <1>1, <1>4
    <2>2. QED
      BY <2>1 DEF Behind
  <1> HIDE DEF rest
  <1>9. Meets(s, rest, n, target)
    BY <1>8 DEF Meets
  <1>10. QED
    BY <1>6, <1>7, <1>9 DEF Reads

\* A step of the receiver leaves what is still to be sent.
LEMMA UnsentStays ==
  ASSUME UNCHANGED svars
  PROVE  Unsent' = Unsent /\ Begun' = Begun
BY DEF svars, Unsent, Begun, Smaller, Flat, Digits, real_size, work_size

\* And moves the stream by what it takes.
LEMMA StreamTaken ==
  ASSUME Placed, UNCHANGED svars, NEW k \in Nat, k <= here, Take(k)
  PROVE  /\ Stream' \in Seq(Byte) /\ Len(Stream') = Len(Stream) - k
         /\ \A j \in 1 .. Len(Stream') : Stream'[j] = Stream[j + k]
         /\ k <= Len(wire) /\ Len(wire) \in Nat /\ Len(wire) <= Len(Stream)
         /\ \A j \in 1 .. Len(wire) : Stream[j] = wire[j]
PROOF
  <1>1. wire \in Seq(Byte) /\ Unsent \in Seq(Byte) /\ Unsent' = Unsent
    BY OnItsWay, UnsentStays
  <1>2. k \in 0 .. Len(wire) /\ Len(wire) \in Nat
    BY DEF Placed, Network
  <1> DEFINE s == Stream'
             u == Unsent
  <1>3. s = SubSeq(wire, k + 1, Len(wire)) \o u
    BY <1>1 DEF Stream, Take
  <1>4. Stream = wire \o u
    BY DEF Stream
  <1>5. u \in Seq(Byte)
    BY <1>1
  <1> HIDE DEF s, u
  <1>6. /\ s \in Seq(Byte) /\ Len(s) = Len(wire \o u) - k
        /\ \A j \in 1 .. Len(s) : s[j] = (wire \o u)[j + k]
    <2> DEFINE w == wire
    <2>1. w \in Seq(Byte) /\ k \in 0 .. Len(w)
      BY <1>1, <1>2
    <2> HIDE DEF w
    <2>2. \A r : r = SubSeq(w, k + 1, Len(w)) \o u =>
             /\ r \in Seq(Byte) /\ Len(r) = Len(w \o u) - k
             /\ \A j \in 1 .. Len(r) : r[j] = (w \o u)[j + k]
      BY <1>5, <2>1, TakenFront
    <2>3. QED
      BY <1>3, <2>2 DEF w
  <1>7. /\ Len(wire \o u) = Len(wire) + Len(u) /\ Len(u) \in Nat
        /\ \A j \in 1 .. Len(wire) : (wire \o u)[j] = wire[j]
    BY <1>1, <1>5, Concatenated, InPlace
  <1>8. QED
    BY <1>2, <1>4, <1>6, <1>7 DEF s

\* A step that takes no bytes and learns no length.
LEMMA ReceiverFrames ==
  ASSUME Placed, Framing, UNCHANGED svars, UNCHANGED <<wire, broken>>,
         torn => torn', rpkt'.recv_target = rpkt.recv_target
  PROVE  Framing'
PROOF
  <1>1. Unsent' = Unsent /\ Begun' = Begun
    BY UnsentStays
  <1>2. Stream' = Stream
    BY <1>1 DEF Stream
  <1>3. QED
    BY <1>1, <1>2, FramingNext DEF Framing

\* ::recv for a length leaves a payload to be read, or everything as it was.
LEMMA FramesRecvHeader ==
  ASSUME Placed, Placed', Framing, RecvHeader
  PROVE  Framing' /\ UNCHANGED delivered
PROOF
  <1> DEFINE fresh == IF rpkt.recv_pos < 0 THEN clear(rpkt).pkt ELSE rpkt
  <1>1. rpkt.recv_target < 0 /\ UNCHANGED <<svars, shut, broken, conns>>
    BY DEF RecvHeader
  <1>2. Network /\ Sound(rpkt) /\ rpkt.recv_target = -1 /\ rpkt.recv_pos = -1
    BY <1>1, Constants DEF Placed, Receiving, Expecting
  <1>3. fresh.recv_target = -1 /\ empty(fresh)
    BY <1>2, ClearResult, ClearKeeps
  <1> HIDE DEF fresh
  <1>4. ASSUME NEW whole, ReceiveReturns(fresh, whole)
        PROVE  rpkt'.recv_target = rpkt.recv_target /\ UNCHANGED delivered
    BY <1>2, <1>3, <1>4 DEF ReceiveReturns
  <1>5. ASSUME NEW k \in Hands(HeaderSize),
               Take(k),
               torn' = (torn \/ k \notin {0, HeaderSize}),
               IF k = HeaderSize /\ Number(wire) > 0
                 THEN /\ rpkt' = [fresh EXCEPT !.recv_target = Number(wire)]
                      /\ UNCHANGED delivered
                 ELSE ReceiveReturns(fresh, "none")
        PROVE  Framing' /\ UNCHANGED delivered
    <2>1. k \in 0 .. 2 /\ k <= here /\ HeaderSize = 2 /\ k \in Nat
      <3>1. HeaderSize \in Nat /\ HeaderSize = 2
        BY DEF HeaderSize
      <3>2. k \in 0 .. HeaderSize /\ k <= here
        BY <1>2, <3>1, HandsSome
      <3>3. QED
        BY <3>1, <3>2
    <2>2. delivered' = delivered
      BY <1>4, <1>5
    <2>3. CASE k = 0
      <3>1. ReceiveReturns(fresh, "none")
        BY <1>5, <2>1, <2>3
      <3>2. wire' = wire
        <4>1. wire \in Seq(Byte)
          BY <1>2 DEF Network
        <4>2. wire' = SubSeq(wire, 1, Len(wire))
          BY <1>5, <2>3 DEF Take
        <4>3. QED
          BY <4>1, <4>2
      <3>3. QED
        BY <1>1, <1>4, <1>5, <2>2, <3>1, <3>2, ReceiverFrames
    <2>4. CASE k = 1
      <3>1. k \notin {0, HeaderSize}
        BY <2>1, <2>4
      <3>2. torn'
        BY <1>5, <3>1, Zenon
      <3>3. QED
        BY <2>2, <3>2 DEF Framing
    <2>5. CASE k = 2
      <3>1. SUFFICES ASSUME ~torn', ~broken'
                     PROVE  Reads(Stream', Begun', rpkt'.recv_target)
        BY <2>2, FramingNext
      <3> DEFINE w == Stream
                 s == Stream'
                 n == Begun
                 h == wire
                 c == rpkt.recv_target
      <3>2. Reads(w, n, c) /\ c = -1
        BY <1>1, <1>2, <1>5, <3>1 DEF Framing
      <3>3. /\ s \in Seq(Byte) /\ Len(s) = Len(w) - 2
            /\ \A j \in 1 .. Len(s) : s[j] = w[j + 2]
            /\ 2 <= Len(h) /\ Len(h) \in Nat /\ Len(h) <= Len(w)
            /\ \A j \in 1 .. Len(h) : w[j] = h[j]
        BY <1>1, <1>5, <2>1, <2>5, StreamTaken
      <3>4. w \in Seq(Byte) /\ h \in Seq(Byte) /\ n \in 0 .. Len(Messages)
        BY OnItsWay
      <3>5. Begun' = n
        BY <1>1, UnsentStays
      <3> HIDE DEF w, s, n, h, c
      <3>6. Len(w) >= 2 /\ Len(h) >= 2 /\ \A j \in 1 .. 2 : h[j] = w[j]
        BY <3>3, <3>4
      <3>7. Number(h) \in 1 .. LenMod - 1 /\ Reads(s, n, Number(h))
        BY <3>2, <3>3, <3>4, <3>6, LengthIsRead
      <3>8. Number(h) > 0
        BY <3>7, Constants
      <3>9. rpkt' = [fresh EXCEPT !.recv_target = Number(h)]
        BY <1>5, <2>1, <2>5, <3>8 DEF h
      <3>10. rpkt'.recv_target = Number(h)
        <4>1. fresh \in PacketType
          BY <1>2, ClearSound DEF fresh, Sound
        <4>2. QED
          BY <3>9, <4>1 DEF PacketType
      <3>11. QED
        BY <3>5, <3>7, <3>10 DEF s
    <2>6. QED
      BY <2>1, <2>3, <2>4, <2>5
  <1>6. ASSUME ReceiveReturns(fresh, "none"), UNCHANGED <<wire, here, torn>>
        PROVE  Framing' /\ UNCHANGED delivered
    BY <1>1, <1>4, <1>6, ReceiverFrames
  <1>7. QED
    BY <1>5, <1>6 DEF RecvHeader, fresh

\* ::recv for a payload takes a message, or everything stays as it was, or it
\* has torn the stream.
LEMMA FramesRecvBody ==
  ASSUME Placed, Placed', Framing, RecvBody
  PROVE  Framing' /\ TakesSent
PROOF
  <1> DEFINE t     == rpkt.recv_target
             sized == resize(rpkt, t + HeaderSize)
             s     == sized.pkt
             p     == AtStart(s)
  <1>1. UNCHANGED <<svars, shut, broken, conns>> /\ Network
        /\ Expecting(rpkt) /\ t \in 1 .. LenMod - 1
    <2>1. Receiving /\ Network
      BY DEF Placed
    <2>2. rpc = "body" \/ (rpc = "ready" /\ t >= 0)
      BY DEF RecvBody
    <2>3. UNCHANGED <<svars, shut, broken, conns>>
      BY DEF RecvBody
    <2>4. Expecting(rpkt) /\ t \in 1 .. LenMod - 1
      BY <2>1, <2>2 DEF Receiving, Expecting
    <2>5. QED
      BY <2>1, <2>3, <2>4
  <1>2. \/ /\ rpkt' = s
           /\ UNCHANGED <<wire, here, delivered, torn>>
        \/ /\ ~sized.threw
           /\ \E k \in Hands(get_recv_remainder(p)) :
                /\ Take(k)
                /\ torn' = (torn \/ k < get_recv_remainder(p))
                /\ LET q == [p EXCEPT
                              !.body = Overwritten(@, 0, SubSeq(wire, 1, k)),
                              !.recv_pos = @ + k]
                   IN IF get_recv_remainder(q) = 0
                        THEN ReceiveReturns(recv_reset(q), "all")
                        ELSE ReceiveReturns(q, IF k = 0 THEN "none" ELSE "part")
        \/ /\ ~sized.threw
           /\ rerr' \in RecvErrors
           /\ ReceiveReturns(p, "none")
           /\ UNCHANGED <<wire, here, torn>>
    BY DEF RecvBody, AtStart
  <1> HIDE DEF sized, p
  <1>3. /\ Expecting(s) /\ HasData(s) /\ s.recv_target = t
        /\ ~sized.threw => work_size(s) = t
    BY <1>1, SizedFor DEF sized
  <1>4. ~sized.threw => get_recv_remainder(p) = t
    <2> DEFINE e == << >>
    <2>1. e \in Seq(Byte) /\ Len(e) <= t
      BY <1>1
    <2> HIDE DEF e
    <2>2. QED
      BY <1>1, <1>3, <2>1, StoredIn DEF p
  <1>5. p.recv_target = t
    <2>1. s \in PacketType
      BY <1>3 DEF Expecting, Sound
    <2>2. QED
      BY <1>3, <2>1, AtStartFields DEF p
  <1>6. CASE rpkt' = s /\ UNCHANGED <<wire, here, delivered, torn>>
    <2>1. Framing'
      BY <1>1, <1>3, <1>6, ReceiverFrames
    <2>2. QED
      BY <1>6, <2>1 DEF TakesSent
  <1>7. ASSUME ~sized.threw,
               NEW k \in Hands(get_recv_remainder(p)),
               Take(k),
               torn' = (torn \/ k < get_recv_remainder(p)),
               LET q == [p EXCEPT
                          !.body = Overwritten(@, 0, SubSeq(wire, 1, k)),
                          !.recv_pos = @ + k]
               IN IF get_recv_remainder(q) = 0
                    THEN ReceiveReturns(recv_reset(q), "all")
                    ELSE ReceiveReturns(q, IF k = 0 THEN "none" ELSE "part")
        PROVE  Framing' /\ TakesSent
    <2> DEFINE d == SubSeq(wire, 1, k)
               q == Stored(p, d)
               z == recv_reset(q)
    <2>1. k \in 0 .. t /\ k <= here /\ ~broken /\ t \in Nat /\ k \in Nat
      <3>1. t \in Nat
        BY <1>1, Constants
      <3>2. k \in Hands(t)
        BY <1>4, <1>7
      <3>3. k \in 0 .. t /\ k <= here /\ ~broken
        BY <1>1, <3>1, <3>2, HandsSome
      <3>4. QED
        BY <3>1, <3>3
    <2>2. CASE k < t
      <3>1. torn'
        BY <1>4, <1>7, <2>2
      <3>2. QED
        BY <3>1 DEF Framing, TakesSent
    <2>3. CASE k = t
      <3>1. SUFFICES ASSUME ~torn'
                     PROVE  /\ Reads(Stream', Begun', rpkt'.recv_target)
                            /\ TakesSent
        BY FramingNext DEF TakesSent, Framing
      <3>2. d \in Seq(Byte) /\ Len(d) = t /\ \A j \in 1 .. t : d[j] = wire[j]
        <4>1. wire \in Seq(Byte) /\ here \in 0 .. Len(wire)
          BY <1>1 DEF Network
        <4>2. QED
          BY <2>1, <2>3, <4>1
      <3>3. /\ get_recv_remainder(q) = 0 /\ q.body = d /\ q \in PacketType
            /\ Expecting(recv_reset(q))
        <4> HIDE DEF d
        <4>1. get_recv_remainder(q) = t - Len(d) /\ q.body = d
              /\ Expecting(recv_reset(q))
          BY <1>1, <1>3, <1>7, <2>1, <3>2, StoredIn DEF p
        <4>2. p \in PacketType
          BY <1>3, AtStartFields DEF p, Expecting, Sound
        <4>3. q \in PacketType
          BY <3>2, <4>2, StoredFields
        <4>4. QED
          BY <2>1, <3>2, <4>1, <4>3
      <3>4. ReceiveReturns(recv_reset(q), "all")
        <4>1. q = [p EXCEPT !.body = Overwritten(@, 0, SubSeq(wire, 1, k)),
                            !.recv_pos = @ + k]
          BY <2>3, <3>2 DEF Stored
        <4>2. QED
          BY <1>7, <3>3, <4>1
      <3>5. z.recv_target = -1 /\ z.body = d
        BY <3>3, ResetFields
      <3> HIDE DEF q, z
      <3>6. /\ rpkt'.recv_target = -1
            /\ delivered' = delivered \/ delivered' = Append(delivered, d)
        BY <3>1, <3>4, <3>5 DEF ReceiveReturns, z
      <3> HIDE DEF d
      <3> DEFINE w == Stream
                 x == Stream'
                 n == Begun
      <3>7. Reads(w, n, t)
        BY <1>1, <1>7, <2>1, <3>1 DEF Framing
      <3>8. /\ x \in Seq(Byte) /\ Len(x) = Len(w) - t
            /\ \A j \in 1 .. Len(x) : x[j] = w[j + t]
            /\ t <= Len(wire) /\ Len(wire) \in Nat /\ Len(wire) <= Len(w)
            /\ \A j \in 1 .. Len(wire) : w[j] = wire[j]
        BY <1>1, <1>7, <2>1, <2>3, StreamTaken
      <3>9. w \in Seq(Byte) /\ n \in 0 .. Len(Messages)
        BY OnItsWay
      <3>10. Begun' = n
        BY <1>1, UnsentStays
      <3> HIDE DEF w, x, n
      <3>11. t <= Len(w) /\ \A j \in 1 .. t : d[j] = w[j]
        BY <2>1, <3>2, <3>8, <3>9
      <3> DEFINE c == rpkt'.recv_target
      <3>12. c = -1
        BY <3>6
      <3> HIDE DEF c
      <3>13. (\E i \in 1 .. n : d = Messages[i]) /\ Reads(x, n, c)
        <4> DEFINE m == t
        <4>1. /\ m \in Nat /\ Reads(w, n, m) /\ m <= Len(w)
              /\ IsBehind(x, w, m) /\ IsFront(d, w, m)
          BY <2>1, <3>2, <3>7, <3>8, <3>11 DEF IsBehind, IsFront
        <4> HIDE DEF m
        <4>2. QED
          BY <3>9, <3>12, <4>1, PayloadIsRead
      <3>14. TakesSent
        BY <3>6, <3>13 DEF TakesSent, n, Begun
      <3>15. QED
        BY <3>10, <3>13, <3>14 DEF x, c
    <2>4. QED
      BY <2>1, <2>2, <2>3
  <1>8. ASSUME rerr' \in RecvErrors, ReceiveReturns(p, "none"),
               UNCHANGED <<wire, here, torn>>
        PROVE  Framing' /\ TakesSent
    <2>1. rpkt'.recv_target = t /\ delivered' = delivered
      <3>1. rerr' \in {"connection_reset", "would_block"}
        BY <1>8 DEF RecvErrors
      <3>2. to_state(rerr') # "done"
        BY <3>1, States
      <3>3. QED
        BY <1>5, <1>8, <3>2 DEF ReceiveReturns
    <2>2. Framing'
      BY <1>1, <1>8, <2>1, ReceiverFrames
    <2>3. QED
      BY <2>1, <2>2 DEF TakesSent
  <1>9. QED
    BY <1>2, <1>6, <1>7, <1>8

\* The network, and a sender that closes, move nothing.
LEMMA FramesOthers ==
  ASSUME Placed, Placed', Framing, Arrive \/ SenderCloses \/ UNCHANGED vars
  PROVE  Framing' /\ UNCHANGED delivered
PROOF
  <1>1. /\ UNCHANGED <<wire, broken, rpkt, torn, next, spkt, delivered>>
        /\ spc' = spc \/ (spc = "ready" /\ spc' = "stopped")
    BY DEF Arrive, SenderCloses, vars, svars, net, rvars, again
  <1>2. Unsent' = Unsent
    <2>1. spc' = "loop" <=> spc = "loop"
      BY <1>1
    <2>2. QED
      BY <1>1, <2>1 DEF Unsent, Flat, Digits, real_size, work_size
  <1>3. Stream' = Stream /\ Begun' = Begun
    BY <1>1, <1>2 DEF Stream, Begun, Smaller
  <1>4. QED
    BY <1>1, <1>3, FramingNext DEF Framing

\* Where there are no bytes, there is one cut.
LEMMA NothingReads ==
  ASSUME NEW w, w = << >>, NEW n, NEW target, target = -1
  PROVE  Reads(w, n, target)
PROOF
  <1>1. Len(w) = 0
    OBVIOUS
  <1>2. Cut(w, {0}, n)
    BY <1>1 DEF Cut
  <1>3. Meets(w, {0}, n, target)
    BY DEF Meets
  <1>4. QED
    BY <1>2, <1>3 DEF Reads

\* Two ends that connect have nothing on its way.
LEMMA FramesReconnect ==
  ASSUME Placed, Placed', Framing, Reconnect
  PROVE  Framing' /\ UNCHANGED delivered
PROOF
  <1>1. /\ broken /\ spc # "loop" /\ spc' \in {spc, "ready"}
        /\ rpkt' = IF FreshPacket THEN NewPacket ELSE rpkt
        /\ torn' = (rpkt'.recv_target >= 0)
        /\ UNCHANGED <<wire, delivered>>
    BY DEF Reconnect
  <1>2. SUFFICES ASSUME ~torn' PROVE Reads(Stream', Begun', rpkt'.recv_target)
    BY <1>1, FramingNext
  <1>3. Stream' = << >>
    <2>1. wire' = << >> /\ wire' \in Seq(Byte) /\ spc' # "loop"
      BY <1>1 DEF Placed, Network
    <2>2. QED
      BY <2>1, UnsentGone
  <1> DEFINE q == rpkt'
             c == q.recv_target
  <1>4. Expecting(q)
    BY <1>1, NewExpects DEF Placed, Receiving
  <1>5. ~(c >= 0)
    BY <1>1, <1>2
  <1> HIDE DEF q
  <1>6. c = -1
    BY <1>4, <1>5, Constants DEF Expecting
  <1> HIDE DEF c
  <1>7. Reads(Stream', Begun', c)
    BY <1>3, <1>6, NothingReads
  <1>8. QED
    BY <1>7 DEF c, q

-----------------------------------------------------------------------------
(* The theorem.                                                            *)

\* Nothing is on its way at the start.
LEMMA FramesInit == Init => Framing
PROOF
  <1> SUFFICES ASSUME Init PROVE Framing
    OBVIOUS
  <1> DEFINE w == Stream
             n == Begun
             c == rpkt.recv_target
  <1>1. w = << >>
    <2>1. wire = << >> /\ Unsent = << >>
      BY DEF Init, Unsent
    <2>2. QED
      BY <2>1 DEF Stream
  <1>2. c = -1
    BY DEF Init, NewPacket
  <1> HIDE DEF w, n, c
  <1>3. Reads(w, n, c)
    BY <1>1, <1>2, NothingReads
  <1>4. QED
    BY <1>3 DEF Framing, w, n, c

\* Every step keeps the framing, and takes only messages that were sent.
LEMMA FramesStep ==
  ASSUME Placed, Placed', Framing, [Next]_vars
  PROVE  Framing' /\ TakesSent
PROOF
  <1>1. UNCHANGED delivered => TakesSent
    BY DEF TakesSent
  <1>2. CASE Break
    BY <1>1, <1>2 DEF Break, Framing, rvars
  <1>3. QED
    BY <1>1, <1>2, FramesSendFirst, FramesSendMore, FramesRecvHeader,
      FramesRecvBody, FramesOthers, FramesReconnect
      DEF Next, Sender, Receiver, Reset, ReceiverCloses, SenderAborts

\* While nothing has torn the stream, what receive() delivers are messages
\* that were sent, byte for byte.
THEOREM PacketsAreFramed == Spec => Framed
PROOF
  <1>1. Init => Placed /\ Framing
    BY PlacedInit, FramesInit
  <1>2. Placed /\ Framing /\ [Next]_vars => (Placed /\ Framing)'
    BY PlacedStep, FramesStep
  <1>3. Placed /\ Framing /\ [Next]_vars => [TakesSent]_vars
    BY PlacedStep, FramesStep
  <1>4. QED
    BY <1>1, <1>2, <1>3, PTL DEF Spec, Framed

=============================================================================
