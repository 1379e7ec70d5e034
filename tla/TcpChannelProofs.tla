-------------------------- MODULE TcpChannelProofs --------------------------
(***************************************************************************)
(* Theorems about TcpChannel, for all messages, every capacity of the      *)
(* stream, blocking and non-blocking sockets, and every way in which the   *)
(* stack splits, refuses and loses bytes.                                  *)
(***************************************************************************)
EXTENDS TcpChannel, PacketLemmas, TLAPS

-----------------------------------------------------------------------------
(* The inductive invariant.                                                *)

Errors == {"none", "would_block", "connection_reset"}

\* A packet with data, which is the message that the sender works on.
Carries(p, i) ==
  /\ p \in PacketType /\ HasData(p)
  /\ i <= Len(Messages) => p.header = Len(Messages[i]) /\ p.body = Messages[i]

\* The sender's side.
Sending ==
  /\ next \in 1 .. Len(Messages) + 1
  /\ spc \in {"ready", "loop", "stopped"}
  /\ spc = "loop" => next <= Len(Messages)
  /\ serr \in Errors
  /\ sres.state \in SocketStates \cup {"unasked"}
  /\ doubtful \subseteq 1 .. Len(Messages)
  /\ Carries(spkt, next)
  /\ SendPlace

\* A packet that receive() may be called with: a length and a position are
\* known or not, and the position is in a payload of that length.
Expecting(p) ==
  /\ Sound(p)
  /\ p.recv_target = -1 \/ p.recv_target \in 1 .. LenMod - 1
  /\ p.recv_target = -1 => p.recv_pos = -1
  /\ p.recv_pos # -1 =>
       /\ p.recv_pos \in HeaderSize .. real_size(p) - 1
       /\ p.recv_target = work_size(p)

\* The receiver's side.
Receiving ==
  /\ rpc \in {"ready", "body", "stopped"}
  /\ rpc = "body" => rpkt.recv_target # -1
  /\ rerr \in Errors
  /\ rgot \in {"none", "part", "all"}
  /\ delivered \in Seq(Seq(Byte))
  /\ Expecting(rpkt)

\* What is between them.  A connection that is gone has lost its bytes.
Network ==
  /\ wire \in Seq(Byte) /\ Len(wire) <= Cap /\ here \in 0 .. Len(wire)
  /\ shut \in BOOLEAN /\ broken \in BOOLEAN
  /\ conns \in 1 .. Connections /\ torn \in BOOLEAN
  /\ broken => wire = << >>

\* The sender has the error of a connection while that is gone, and on the
\* connections after it.
OldError == serr = "connection_reset" => broken \/ conns > 1

Placed == Sending /\ Receiving /\ Network /\ OldError /\ OtherResultsTrue

-----------------------------------------------------------------------------
(* Packets on their way.                                                   *)

\* A message is made into a packet with its length and its bytes.
LEMMA FilledMessage ==
  ASSUME NEW i \in 1 .. Len(Messages)
  PROVE  Carries(Filled(Messages[i]), i) /\ Filled(Messages[i]).send_pos = -1
PROOF
  <1> DEFINE m == Messages[i]
             q == Filled(m)
  <1>1. m \in Seq(Byte) /\ HeaderSize + Len(m) < DatagramSize
    BY TcpChannelAssumption, Constants DEF HeaderSize
  <1>2. q = [NewPacket EXCEPT !.header    = Len(m),
                              !.body      = m,
                              !.write_pos = HeaderSize + Len(m)]
        /\ Sound(q) /\ HasData(q)
    <2> HIDE DEF m
    <2>1. QED
      BY <1>1, FilledPacket DEF Filled
  <1>3. q.header = Len(m) /\ q.body = m /\ q.send_pos = -1
    <2> HIDE DEF m
    <2>1. QED
      BY <1>2 DEF NewPacket
  <1>4. q \in PacketType /\ HasData(q)
    BY <1>2 DEF Sound
  <1>5. QED
    BY <1>3, <1>4 DEF Carries

\* A position in a packet that is being sent.
LEMMA SendPos ==
  ASSUME NEW i, NEW p, Carries(p, i), NEW c \in Int, NEW q,
         q = [p EXCEPT !.send_pos = c]
  PROVE  /\ Carries(q, i) /\ q.send_pos = c
         /\ q.header = p.header /\ q.body = p.body
         /\ real_size(q) = real_size(p) /\ real_size(p) \in Nat
         /\ get_send_remainder(q) = IF c < 1 THEN 0 ELSE real_size(p) - c
PROOF
  <1>1. p \in PacketType /\ HasData(p)
    BY DEF Carries
  <1>2. /\ q \in PacketType /\ q.header = p.header /\ q.body = p.body
        /\ q.send_pos = c
    BY <1>1 DEF PacketType
  <1>3. real_size(q) = real_size(p) /\ HasData(q)
    BY <1>1, <1>2 DEF real_size, HasData
  <1>4. real_size(p) \in Nat
    BY <1>1, Fields
  <1>5. Carries(q, i)
    BY <1>2, <1>3 DEF Carries
  <1>6. QED
    BY <1>2, <1>3, <1>4, <1>5 DEF get_send_remainder

\* A part of some bytes.
LEMMA Part ==
  ASSUME NEW b \in Seq(Byte), NEW at \in Nat, NEW k \in Nat, at + k <= Len(b)
  PROVE  SubSeq(b, at + 1, at + k) \in Seq(Byte) /\ Len(SubSeq(b, at + 1, at + k)) = k
OBVIOUS

\* What ::send takes is some of what it is given, and there is room for it.
LEMMA TakesSome ==
  ASSUME Network, NEW n \in Nat, NEW k \in Takes(n)
  PROVE  k \in 1 .. n /\ Len(wire) + k <= Cap /\ ~broken
PROOF
  <1>1. ~broken /\ k \in 1 .. Smaller(n, Room)
    BY DEF Takes
  <1>2. Len(wire) \in Nat /\ Cap \in Nat
    BY TcpChannelAssumption DEF Network
  <1>3. QED
    BY <1>1, <1>2 DEF Smaller, Room

\* Bytes enter the stream.
LEMMA Enters ==
  ASSUME Network, ~broken, NEW s \in Seq(Byte), Len(wire) + Len(s) <= Cap,
         wire' = wire \o s, torn' \in BOOLEAN,
         UNCHANGED <<here, shut, broken, conns>>
  PROVE  Network'
PROOF
  <1>1. wire \in Seq(Byte) /\ here \in 0 .. Len(wire)
    BY DEF Network
  <1>2. wire' \in Seq(Byte) /\ Len(wire') = Len(wire) + Len(s)
    BY <1>1, Concatenated
  <1>3. here' \in 0 .. Len(wire')
    BY <1>1, <1>2
  <1>4. QED
    BY <1>2, <1>3 DEF Network

\* What ::recv hands out is here, and it is what was asked for or all there is.
LEMMA HandsSome ==
  ASSUME Network, NEW n \in Nat, NEW k \in Hands(n)
  PROVE  /\ k \in 0 .. n /\ k <= here /\ ~broken
         /\ k = 0 => n = 0 \/ here = 0
BY DEF Hands, Smaller, Network

\* Bytes leave the stream.
LEMMA Leaves ==
  ASSUME Network, ~broken, NEW k \in Nat, k <= here, Take(k), torn' \in BOOLEAN,
         UNCHANGED <<shut, broken, conns>>
  PROVE  Network'
PROOF
  <1>1. wire \in Seq(Byte) /\ here \in 0 .. Len(wire) /\ Len(wire) <= Cap
        /\ Cap \in Nat
    BY TcpChannelAssumption DEF Network
  <1>2. wire' = SubSeq(wire, k + 1, Len(wire)) /\ here' = here - k
    BY DEF Take
  <1>3. wire' \in Seq(Byte) /\ Len(wire') = Len(wire) - k
    BY <1>1, <1>2
  <1>4. QED
    BY <1>1, <1>2, <1>3 DEF Network

\* What the last errors that occur stand for.
LEMMA States ==
  /\ to_state("none") = "done"
  /\ to_state("would_block") = "in_progress"
  /\ to_state("connection_reset") = "closed"
  /\ \A error : to_state(error) \in SocketStates
BY DEF to_state, SocketStates, ProgressErrors, ClosedErrors, DoneErrors

-----------------------------------------------------------------------------
(* The sender.                                                             *)

\* A call of send() ends: the packet of the next message, or the same packet
\* without a position, is what the sender goes on with.
LEMMA SendEnds ==
  ASSUME Sending, next <= Len(Messages), NEW state \in SocketStates,
         NEW p, Carries(p, next), NEW all, NEW none,
         SendReturns(state, p, all, none), serr' \in Errors
  PROVE  Sending' /\ sres'.state = state /\ sres'.all = all /\ spc' # "loop"
PROOF
  <1>1. next \in Nat /\ next >= 1 /\ Len(Messages) \in Nat
    BY TcpChannelAssumption DEF Sending
  <1>2. /\ sres' = [state |-> state, all |-> all]
        /\ next' = IF state = "done" THEN next + 1 ELSE next
        /\ spc' \in {"stopped", "ready"}
        /\ doubtful' \in {doubtful, doubtful \cup {next}}
        /\ spkt' = IF state = "done" /\ next' <= Len(Messages)
                     THEN Filled(Messages[next']) ELSE send_reset(p)
    BY DEF SendReturns
  <1>3. next' \in 1 .. Len(Messages) + 1
    BY <1>1, <1>2
  <1>4. Carries(spkt', next') /\ spkt'.send_pos = -1
    <2>1. CASE state = "done" /\ next' <= Len(Messages)
      <3>1. next' \in 1 .. Len(Messages)
        BY <1>1, <1>3, <2>1
      <3>2. QED
        BY <1>2, <2>1, <3>1, FilledMessage
    <2>2. CASE ~(state = "done" /\ next' <= Len(Messages))
      <3>1. spkt' = [p EXCEPT !.send_pos = -1]
        BY <1>2, <2>2 DEF send_reset
      <3>2. Carries(spkt', next) /\ spkt'.send_pos = -1
        <4> DEFINE c == -1
        <4>1. c \in Int
          OBVIOUS
        <4> HIDE DEF c
        <4>2. \A q : q = [p EXCEPT !.send_pos = c] => Carries(q, next) /\ q.send_pos = c
          BY <4>1, SendPos
        <4>3. QED
          BY <3>1, <4>2 DEF c
      <3>3. next' = next \/ ~(next' <= Len(Messages))
        BY <1>2, <2>2
      <3>4. QED
        BY <3>2, <3>3 DEF Carries
    <2>3. QED
      BY <2>1, <2>2
  <1>5. sres'.state = state /\ sres'.all = all
    BY <1>2
  <1>6. doubtful' \subseteq 1 .. Len(Messages)
    BY <1>1, <1>2 DEF Sending
  <1>7. QED
    BY <1>2, <1>3, <1>4, <1>5, <1>6 DEF Sending, Carries, SendPlace, HasData

\* What a step of the sender leaves alone on the other side.
LEMMA ReceiverStays ==
  ASSUME Receiving, UNCHANGED rvars
  PROVE  Receiving'
BY DEF Receiving, rvars, Expecting, Sound, PacketType, HasData, real_size, work_size,
  full

\* And what a step of the receiver leaves alone.
LEMMA SenderStays ==
  ASSUME Sending, UNCHANGED svars
  PROVE  Sending'
BY DEF Sending, svars, Carries, SendPlace, PacketType, HasData, real_size

\* The first ::send.
LEMMA PlacedSendFirst == Placed /\ SendFirst => Placed'
PROOF
  <1> SUFFICES ASSUME Placed, SendFirst PROVE Placed'
    OBVIOUS
  <1> DEFINE bytes == Flat(spkt)
  <1>1. /\ Sending /\ Receiving /\ Network /\ OldError /\ OtherResultsTrue
        /\ next <= Len(Messages) /\ spc = "ready" /\ spkt.send_pos = -1
        /\ UNCHANGED <<here, shut, broken, rvars, conns>>
    BY DEF Placed, SendFirst, Sending, SendPlace
  <1>2. Receiving'
    BY <1>1, ReceiverStays
  <1>3. Carries(spkt, next) /\ spkt \in PacketType /\ HasData(spkt)
    BY <1>1 DEF Sending, Carries
  <1>4. bytes \in Seq(Byte) /\ Len(bytes) = real_size(spkt) /\ real_size(spkt) \in Nat
    BY <1>3, FlatBytes, Fields
  <1>5. "done" \in SocketStates
    BY DEF SocketStates
  <1> HIDE DEF bytes
  <1>6. ASSUME NEW k \in Takes(Len(bytes)),
               wire' = wire \o SubSeq(bytes, 1, k),
               serr' \in AfterSuccess(serr),
               LET p == [spkt EXCEPT !.send_pos = k]
               IN IF get_send_remainder(p) <= 0
                    THEN SendReturns("done", p, TRUE, FALSE)
                    ELSE /\ spc' = "loop" /\ spkt' = p /\ sres' = Unasked
                         /\ UNCHANGED <<next, doubtful, torn>>
        PROVE  Placed'
    <2> DEFINE p == [spkt EXCEPT !.send_pos = k]
    <2>1. k \in 1 .. Len(bytes) /\ Len(wire) + k <= Cap /\ ~broken
      BY <1>1, <1>4, <1>6, TakesSome
    <2>2. SubSeq(bytes, 1, k) \in Seq(Byte) /\ Len(SubSeq(bytes, 1, k)) = k
      <3>1. SubSeq(bytes, 0 + 1, 0 + k) \in Seq(Byte)
            /\ Len(SubSeq(bytes, 0 + 1, 0 + k)) = k
        BY <1>4, <2>1, Part
      <3>2. 0 + 1 = 1 /\ 0 + k = k
        BY <1>4, <2>1
      <3>3. QED
        BY <3>1, <3>2
    <2>3. serr' \in Errors /\ (serr' = "connection_reset" => serr = "connection_reset")
      BY <1>1, <1>6 DEF AfterSuccess, Sending, Errors
    <2>4. OldError'
      BY <1>1, <2>3 DEF OldError
    <2>5. /\ Carries(p, next) /\ p.send_pos = k /\ real_size(p) = real_size(spkt)
          /\ get_send_remainder(p) = real_size(spkt) - k
      BY <1>3, <1>4, <2>1, SendPos
    <2> HIDE DEF p
    <2>6. CASE get_send_remainder(p) <= 0
      <3>1. SendReturns("done", p, TRUE, FALSE)
        BY <1>6, <2>6 DEF p
      <3>2. Sending' /\ sres'.state = "done"
        BY <1>1, <1>5, <2>3, <2>5, <3>1, SendEnds
      <3>3. torn' \in BOOLEAN
        BY <1>1, <3>1 DEF SendReturns, Network
      <3>4. Network'
        BY <1>1, <1>6, <2>1, <2>2, <3>3, Enters
      <3>5. QED
        BY <1>2, <2>4, <3>2, <3>4 DEF Placed, OtherResultsTrue
    <2>7. CASE ~(get_send_remainder(p) <= 0)
      <3>1. /\ spc' = "loop" /\ spkt' = p /\ sres' = Unasked
            /\ UNCHANGED <<next, doubtful, torn>>
        BY <1>6, <2>7 DEF p
      <3>2. k \in 1 .. real_size(p) - 1
        BY <1>4, <2>1, <2>5, <2>7
      <3>3. SendPlace'
        BY <2>5, <3>1, <3>2 DEF SendPlace
      <3>4. sres'.state = "unasked"
        BY <3>1 DEF Unasked
      <3>5. Carries(spkt', next')
        BY <2>5, <3>1
      <3>6. Sending'
        BY <1>1, <2>3, <3>1, <3>3, <3>4, <3>5 DEF Sending, Carries, HasData
      <3>7. torn' \in BOOLEAN
        BY <1>1, <3>1 DEF Network
      <3>8. Network'
        BY <1>1, <1>6, <2>1, <2>2, <3>7, Enters
      <3>9. QED
        BY <1>2, <2>4, <3>4, <3>6, <3>8 DEF Placed, OtherResultsTrue
    <2>8. QED
      BY <2>6, <2>7
  <1>7. ASSUME serr' \in SendErrors(Len(bytes)),
               SendReturns("done", spkt, FALSE, TRUE), UNCHANGED wire
        PROVE  Placed'
    <2>1. serr' \in Errors /\ (serr' = "connection_reset" => broken)
      BY <1>7 DEF SendErrors, Errors
    <2>2. Sending' /\ sres'.state = "done"
      BY <1>1, <1>3, <1>5, <1>7, <2>1, SendEnds
    <2>3. torn' \in BOOLEAN
      BY <1>1, <1>7 DEF SendReturns, Network
    <2>4. Network'
      BY <1>1, <1>7, <2>3 DEF Network
    <2>5. OldError'
      BY <1>1, <2>1 DEF OldError
    <2>6. QED
      BY <1>2, <2>2, <2>4, <2>5 DEF Placed, OtherResultsTrue
  <1>8. QED
    BY <1>6, <1>7 DEF SendFirst, bytes

\* A turn of the loop in send().
LEMMA PlacedSendMore == Placed /\ SendMore => Placed'
PROOF
  <1> SUFFICES ASSUME Placed, SendMore PROVE Placed'
    OBVIOUS
  <1> DEFINE bytes == Flat(spkt)
             at    == spkt.send_pos
             rest  == get_send_remainder(spkt)
  <1>1. /\ Sending /\ Receiving /\ Network /\ OldError /\ OtherResultsTrue
        /\ spc = "loop" /\ next <= Len(Messages)
        /\ at \in 1 .. real_size(spkt) - 1
        /\ UNCHANGED <<here, shut, broken, rvars, conns>>
    BY DEF Placed, SendMore, Sending, SendPlace
  <1>2. Receiving'
    BY <1>1, ReceiverStays
  <1>3. Carries(spkt, next) /\ spkt \in PacketType /\ HasData(spkt)
    BY <1>1 DEF Sending, Carries
  <1>4. bytes \in Seq(Byte) /\ Len(bytes) = real_size(spkt) /\ real_size(spkt) \in Nat
    BY <1>3, FlatBytes, Fields
  <1>5. rest = real_size(spkt) - at /\ rest \in Nat
    BY <1>1, <1>4 DEF get_send_remainder
  <1> HIDE DEF bytes, rest
  <1>6. ASSUME NEW k \in Takes(rest),
               wire' = wire \o SubSeq(bytes, at + 1, at + k),
               serr' \in AfterSuccess(serr),
               LET p     == [spkt EXCEPT !.send_pos = at + k]
                   state == to_state(serr')
                   all   == get_send_remainder(p) <= 0
               IN IF state = "in_progress" /\ ~all
                    THEN spkt' = p /\ UNCHANGED <<next, spc, sres, doubtful, torn>>
                    ELSE SendReturns(state, p, all, FALSE)
        PROVE  Placed'
    <2> DEFINE p     == [spkt EXCEPT !.send_pos = at + k]
               state == to_state(serr')
               all   == get_send_remainder(p) <= 0
    <2>1. k \in 1 .. rest /\ Len(wire) + k <= Cap /\ ~broken
      BY <1>1, <1>5, <1>6, TakesSome
    <2>2. at \in Nat /\ k \in Nat /\ at + k <= Len(bytes)
      BY <1>1, <1>4, <1>5, <2>1
    <2>3. SubSeq(bytes, at + 1, at + k) \in Seq(Byte)
          /\ Len(SubSeq(bytes, at + 1, at + k)) = k
      <3> HIDE DEF at
      <3>1. QED
        BY <1>4, <2>2, Part
    <2>4. serr' \in Errors /\ (serr' = "connection_reset" => serr = "connection_reset")
      BY <1>1, <1>6 DEF AfterSuccess, Sending, Errors
    <2>5. OldError' /\ (serr' = "connection_reset" => conns > 1)
      BY <1>1, <2>1, <2>4 DEF OldError
    <2>6. /\ Carries(p, next) /\ p.send_pos = at + k /\ real_size(p) = real_size(spkt)
          /\ get_send_remainder(p) = real_size(spkt) - (at + k)
      <3>1. at + k \in Int /\ ~(at + k < 1)
        BY <1>1, <2>1, <2>2
      <3> HIDE DEF at
      <3>2. QED
        BY <1>3, <3>1, SendPos
    <2>7. state \in SocketStates /\ state \in {"done", "in_progress", "closed"}
          /\ (state = "closed" => serr' = "connection_reset")
      BY <2>4, States DEF Errors
    <2>8. CASE state = "in_progress" /\ ~all
      <3>1. spkt' = p /\ UNCHANGED <<next, spc, sres, doubtful, torn>>
        BY <1>6, <2>8
      <3>2. at + k \in 1 .. real_size(p) - 1
        <4> HIDE DEF p
        <4>1. QED
          BY <1>1, <1>4, <2>1, <2>2, <2>6, <2>8
      <3>3. SendPlace'
        <4> HIDE DEF p
        <4>1. QED
          BY <1>1, <2>6, <3>1, <3>2 DEF SendPlace
      <3>4. Carries(spkt', next')
        <4> HIDE DEF p
        <4>1. QED
          BY <2>6, <3>1
      <3>5. Sending'
        BY <1>1, <2>4, <3>1, <3>3, <3>4 DEF Sending, Carries, HasData
      <3>6. torn' \in BOOLEAN
        BY <1>1, <3>1 DEF Network
      <3>7. Network'
        BY <1>1, <1>6, <2>1, <2>3, <3>6, Enters
      <3>8. OtherResultsTrue'
        BY <1>1, <3>1 DEF OtherResultsTrue
      <3>9. QED
        BY <1>2, <2>5, <3>5, <3>7, <3>8 DEF Placed
    <2>9. CASE ~(state = "in_progress" /\ ~all)
      <3>1. SendReturns(state, p, all, FALSE)
        BY <1>6, <2>9
      <3>2. Sending' /\ sres'.state = state /\ sres'.all = all
        <4> HIDE DEF p, state, all
        <4>1. QED
          BY <1>1, <2>4, <2>6, <2>7, <3>1, SendEnds
      <3>3. torn' \in BOOLEAN
        <4> HIDE DEF p, state
        <4>1. QED
          BY <1>1, <3>1 DEF SendReturns, Network
      <3>4. Network'
        BY <1>1, <1>6, <2>1, <2>3, <3>3, Enters
      <3>5. OtherResultsTrue'
        <4> HIDE DEF p, state, all
        <4>1. QED
          BY <1>1, <2>5, <2>7, <2>9, <3>2 DEF OtherResultsTrue
      <3>6. QED
        BY <1>2, <2>5, <3>2, <3>4, <3>5 DEF Placed
    <2>10. QED
      BY <2>8, <2>9
  <1>7. ASSUME serr' \in SendErrors(rest),
               IF to_state(serr') = "in_progress"
                 THEN UNCHANGED <<next, spc, spkt, sres, doubtful, torn>>
                 ELSE SendReturns(to_state(serr'), spkt, FALSE, FALSE),
               UNCHANGED wire
        PROVE  Placed'
    <2>1. serr' \in Errors /\ (serr' = "connection_reset" => broken)
      BY <1>7 DEF SendErrors, Errors
    <2>2. OldError'
      BY <1>1, <2>1 DEF OldError
    <2>3. CASE to_state(serr') = "in_progress"
      <3>1. UNCHANGED <<next, spc, spkt, sres, doubtful, torn>>
        BY <1>7, <2>3
      <3>2. Sending'
        BY <1>1, <2>1, <3>1 DEF Sending, Carries, SendPlace, PacketType, HasData,
          real_size
      <3>3. QED
        BY <1>1, <1>2, <1>7, <2>2, <3>1, <3>2 DEF Placed, Network, OtherResultsTrue
    <2>4. CASE ~(to_state(serr') = "in_progress")
      <3>1. SendReturns(to_state(serr'), spkt, FALSE, FALSE)
        BY <1>7, <2>4
      <3>2. to_state(serr') \in SocketStates
        BY States
      <3>3. Sending' /\ sres'.state = to_state(serr') /\ sres'.all = FALSE
        BY <1>1, <1>3, <2>1, <3>1, <3>2, SendEnds
      <3>4. torn' \in BOOLEAN
        BY <1>1, <3>1 DEF SendReturns, Network
      <3>5. Network'
        BY <1>1, <1>7, <3>4 DEF Network
      <3>6. OtherResultsTrue'
        BY <2>4, <3>3 DEF OtherResultsTrue
      <3>7. QED
        BY <1>2, <2>2, <3>3, <3>5, <3>6 DEF Placed
    <2>5. QED
      BY <2>3, <2>4
  <1>8. QED
    BY <1>6, <1>7 DEF SendMore, bytes, rest

-----------------------------------------------------------------------------
(* The receiver.                                                           *)

\* A call of receive() ends with a packet that it may be called with again.
LEMMA ReceiveEnds ==
  ASSUME Receiving, NEW q, Expecting(q), NEW whole \in {"none", "part", "all"},
         ReceiveReturns(q, whole), rerr' \in Errors
  PROVE  Receiving'
PROOF
  <1> DEFINE state == to_state(rerr')
  <1>1. /\ rpkt' = q
        /\ rgot' \in {"none", "part", "all"}
        /\ rpc' \in {"ready", "stopped"}
    BY DEF ReceiveReturns
  <1>2. delivered' \in Seq(Seq(Byte))
    <2>1. q.body \in Seq(Byte)
      BY DEF Expecting, Sound, PacketType
    <2>2. delivered \in Seq(Seq(Byte))
      BY DEF Receiving
    <2>3. Append(delivered, q.body) \in Seq(Seq(Byte))
      BY <2>1, <2>2
    <2>4. QED
      BY <2>2, <2>3 DEF ReceiveReturns
  <1>3. QED
    BY <1>1, <1>2 DEF Receiving, Expecting, Sound, HasData, real_size, work_size,
      full, PacketType

\* The two bytes of a length.
LEMMA LengthRead ==
  ASSUME NEW w \in Seq(Byte), Len(w) >= 2
  PROVE  Number(w) \in 0 .. LenMod - 1
PROOF
  <1> DEFINE a == w[1]
             b == w[2]
  <1>1. a \in 0 .. Radix - 1 /\ b \in 0 .. Radix - 1
    <2>1. 1 \in 1 .. Len(w) /\ 2 \in 1 .. Len(w)
      OBVIOUS
    <2>2. w[1] \in Byte /\ w[2] \in Byte
      BY <2>1
    <2>3. QED
      BY <2>2 DEF Byte
  <1> HIDE DEF a, b
  <1>2. Radix * b <= Radix * (Radix - 1) /\ Radix * b >= 0
    BY <1>1, Constants
  <1>3. Radix * (Radix - 1) = LenMod - Radix
    BY Constants DEF LenMod
  <1>4. Number(w) = a + Radix * b
    BY DEF Number, a, b
  <1>5. Radix * b \in Int
    BY <1>1, Constants
  <1>6. a + Radix * b \in 0 .. LenMod - 1
    <2> DEFINE c == Radix * b
               d == Radix * (Radix - 1)
    <2> HIDE DEF c, d
    <2>1. c \in Int /\ c >= 0 /\ c <= LenMod - Radix
      BY <1>2, <1>3, <1>5 DEF c, d
    <2>2. a + c \in 0 .. LenMod - 1
      BY <1>1, <2>1, Constants
    <2>3. QED
      BY <2>2 DEF c
  <1>7. QED
    BY <1>4, <1>6

\* ::recv for a length.
LEMMA PlacedRecvHeader == Placed /\ RecvHeader => Placed'
PROOF
  <1> SUFFICES ASSUME Placed, RecvHeader PROVE Placed'
    OBVIOUS
  <1> DEFINE fresh == IF rpkt.recv_pos < 0 THEN clear(rpkt).pkt ELSE rpkt
  <1>1. /\ Sending /\ Receiving /\ Network /\ OldError /\ OtherResultsTrue
        /\ rpc = "ready" /\ rpkt.recv_target < 0
        /\ UNCHANGED <<svars, shut, broken, conns>>
    BY DEF Placed, RecvHeader
  <1>2. Sending' /\ OldError' /\ OtherResultsTrue'
    BY <1>1, SenderStays DEF OldError, OtherResultsTrue, svars
  <1>3. /\ Sound(rpkt) /\ rpkt.recv_target = -1 /\ rpkt.recv_pos = -1
    BY <1>1, Constants DEF Receiving, Expecting
  <1>4. Sound(fresh) /\ fresh.recv_target = -1 /\ fresh.recv_pos = -1
    BY <1>3, ClearSound, ClearKeeps
  <1> HIDE DEF fresh
  <1>5. Expecting(fresh)
    BY <1>4 DEF Expecting
  <1>6. ASSUME NEW k \in Hands(HeaderSize),
               Take(k),
               rerr' \in AfterSuccess(rerr),
               torn' = (torn \/ k \notin {0, HeaderSize}),
               IF k = HeaderSize /\ Number(wire) > 0
                 THEN /\ rpkt' = [fresh EXCEPT !.recv_target = Number(wire)]
                      /\ rpc'  = "body"
                      /\ rgot' = "all"
                      /\ UNCHANGED delivered
                 ELSE ReceiveReturns(fresh, "none")
        PROVE  Placed'
    <2>1. k \in 0 .. HeaderSize /\ k <= here /\ ~broken
      <3>1. HeaderSize \in Nat
        BY DEF HeaderSize
      <3>2. QED
        BY <1>1, <1>6, <3>1, HandsSome
    <2>2. Network'
      <3>1. torn' \in BOOLEAN
        BY <1>1, <1>6 DEF Network
      <3>2. k \in Nat
        BY <2>1 DEF HeaderSize
      <3>3. QED
        BY <1>1, <1>6, <2>1, <3>1, <3>2, Leaves
    <2>3. rerr' \in Errors
      BY <1>1, <1>6 DEF AfterSuccess, Receiving, Errors
    <2>4. CASE k = HeaderSize /\ Number(wire) > 0
      <3> DEFINE q == [fresh EXCEPT !.recv_target = Number(wire)]
      <3>1. rpkt' = q /\ rpc' = "body" /\ rgot' = "all" /\ UNCHANGED delivered
        BY <1>6, <2>4
      <3>2. wire \in Seq(Byte) /\ Len(wire) >= 2
        <4>1. wire \in Seq(Byte) /\ here \in 0 .. Len(wire)
          BY <1>1 DEF Network
        <4>2. QED
          BY <2>1, <2>4, <4>1 DEF HeaderSize
      <3>3. Number(wire) \in 1 .. LenMod - 1
        <4>1. Number(wire) \in 0 .. LenMod - 1
          BY <3>2, LengthRead
        <4>2. QED
          BY <2>4, <4>1, Constants
      <3>4. Sound(q) /\ q.recv_pos = -1 /\ q.recv_target = Number(wire)
        <4> DEFINE t == Number(wire)
        <4>1. fresh \in PacketType /\ t \in Int
          BY <1>4, <3>3, Constants DEF Sound
        <4> HIDE DEF t
        <4>2. /\ q \in PacketType /\ q.header = fresh.header /\ q.body = fresh.body
              /\ q.read_pos = fresh.read_pos /\ q.write_pos = fresh.write_pos
              /\ q.recv_pos = fresh.recv_pos /\ q.recv_target = t
          BY <4>1 DEF PacketType, t
        <4> HIDE DEF q
        <4>3. Sound(q)
          BY <1>4, <4>2, LikeSound
        <4>4. QED
          BY <1>4, <4>2, <4>3 DEF t
      <3>5. Expecting(q) /\ q.recv_target # -1
        <4> HIDE DEF q
        <4>1. QED
          BY <3>3, <3>4 DEF Expecting
      <3>6. Expecting(rpkt') /\ rpkt'.recv_target # -1
        <4> HIDE DEF q
        <4>1. QED
          BY <3>1, <3>5
      <3>7. Receiving'
        BY <1>1, <2>3, <3>1, <3>6 DEF Receiving, Expecting, Sound, HasData,
          real_size, work_size, full, PacketType
      <3>8. QED
        BY <1>2, <2>2, <3>7 DEF Placed
    <2>5. CASE ~(k = HeaderSize /\ Number(wire) > 0)
      <3>1. ReceiveReturns(fresh, "none")
        BY <1>6, <2>5
      <3>2. Receiving'
        BY <1>1, <1>5, <2>3, <3>1, ReceiveEnds
      <3>3. QED
        BY <1>2, <2>2, <3>2 DEF Placed
    <2>6. QED
      BY <2>4, <2>5
  <1>7. ASSUME rerr' \in RecvErrors, ReceiveReturns(fresh, "none"),
               UNCHANGED <<wire, here, torn>>
        PROVE  Placed'
    <2>1. rerr' \in Errors
      BY <1>7 DEF RecvErrors, Errors
    <2>2. Receiving'
      BY <1>1, <1>5, <1>7, <2>1, ReceiveEnds
    <2>3. Network'
      BY <1>1, <1>7 DEF Network
    <2>4. QED
      BY <1>2, <2>2, <2>3 DEF Placed
  <1>8. QED
    BY <1>6, <1>7 DEF RecvHeader, fresh

\* The vector is sized for the payload that was announced, and the packet can
\* be received into whether that throws or not.
LEMMA SizedFor ==
  ASSUME NEW p, Expecting(p), NEW t \in 1 .. LenMod - 1, p.recv_target = t,
         NEW sized, sized = resize(p, t + HeaderSize)
  PROVE  /\ Expecting(sized.pkt) /\ HasData(sized.pkt)
         /\ sized.pkt.recv_target = t
         /\ ~sized.threw => work_size(sized.pkt) = t
PROOF
  <1> DEFINE size == t + HeaderSize
             n    == Larger(HeaderSize, Smaller(DatagramSize, size)) - HeaderSize
             s    == sized.pkt
  <1>1. Sound(p) /\ p \in PacketType /\ t \in Nat /\ t >= 1
    BY Constants DEF Expecting, Sound
  <1>2. size \in Nat /\ size = t + 2 /\ HeaderSize = 2
    BY <1>1 DEF HeaderSize
  <1> HIDE DEF size
  <1>3. sized = resize(p, size)
    BY DEF size
  <1>4. Sound(s) /\ HasData(s)
    BY <1>1, <1>2, <1>3, ResizeSound
  <1>5. /\ n \in Nat /\ work_size(s) = n /\ SameElsewhere(p, s)
        /\ ~sized.threw => HeaderSize + n < DatagramSize
    BY <1>1, <1>2, <1>3, ResizeExact
  <1>6. s.recv_pos = p.recv_pos /\ s.recv_target = t
    BY <1>5 DEF SameElsewhere
  <1>7. n = IF DatagramSize <= t + 2 THEN DatagramSize - 2 ELSE t
    BY <1>1, <1>2, Constants DEF Larger, Smaller
  <1> HIDE DEF n, s
  <1>8. ~sized.threw => work_size(s) = t
    BY <1>1, <1>2, <1>5, <1>7, Constants
  <1>9. s \in PacketType /\ real_size(s) = 2 + work_size(s)
    BY <1>2, <1>4, Fields DEF Sound
  <1>10. ASSUME p.recv_pos # -1
         PROVE  p.recv_pos \in HeaderSize .. real_size(s) - 1 /\ t = work_size(s)
    <2>1. p.recv_pos \in HeaderSize .. real_size(p) - 1 /\ t = work_size(p)
          /\ real_size(p) <= DatagramSize
      BY <1>10 DEF Expecting, Sound
    <2>2. real_size(p) = 2 + work_size(p)
      BY <1>1, <1>2, <2>1, Fields
    <2>3. n = t
      BY <1>1, <1>7, <2>1, <2>2, Constants
    <2>4. QED
      BY <1>5, <1>9, <2>1, <2>2, <2>3
  <1>11. Expecting(s)
    BY <1>1, <1>4, <1>6, <1>10 DEF Expecting
  <1>12. QED
    BY <1>4, <1>6, <1>8, <1>11 DEF s

\* The packet before and after what one ::recv hands out is stored in it.
AtStart(p)   == [p EXCEPT !.recv_pos = HeaderSize]
Stored(p, d) == [p EXCEPT !.body = Overwritten(@, 0, d),
                          !.recv_pos = @ + Len(d)]

\* What these, and the reset at the end, do to a packet.
LEMMA AtStartFields ==
  ASSUME NEW p \in PacketType
  PROVE  /\ AtStart(p) \in PacketType
         /\ AtStart(p).header = p.header /\ AtStart(p).body = p.body
         /\ AtStart(p).read_pos = p.read_pos /\ AtStart(p).write_pos = p.write_pos
         /\ AtStart(p).recv_pos = 2 /\ AtStart(p).recv_target = p.recv_target
BY DEF PacketType, AtStart, HeaderSize

LEMMA StoredFields ==
  ASSUME NEW p \in PacketType, NEW d \in Seq(Byte)
  PROVE  /\ Stored(p, d) \in PacketType
         /\ Stored(p, d).header = p.header
         /\ Stored(p, d).body = Overwritten(p.body, 0, d)
         /\ Stored(p, d).read_pos = p.read_pos
         /\ Stored(p, d).write_pos = p.write_pos
         /\ Stored(p, d).recv_pos = p.recv_pos + Len(d)
         /\ Stored(p, d).recv_target = p.recv_target
PROOF
  <1> DEFINE b == Overwritten(p.body, 0, d)
             k == p.recv_pos + Len(d)
  <1>1. p.body \in Seq(Byte) /\ p.recv_pos \in Int
    BY DEF PacketType
  <1>2. \A body \in Seq(Byte) : Overwritten(body, 0, d) \in Seq(Byte)
    BY OverwrittenBytes
  <1>3. b \in Seq(Byte) /\ k \in Int
    BY <1>1, <1>2
  <1>4. Stored(p, d) = [p EXCEPT !.body = b, !.recv_pos = k]
    BY DEF Stored
  <1> HIDE DEF b, k
  <1>5. /\ Stored(p, d) \in PacketType
        /\ Stored(p, d).header = p.header /\ Stored(p, d).body = b
        /\ Stored(p, d).read_pos = p.read_pos
        /\ Stored(p, d).write_pos = p.write_pos
        /\ Stored(p, d).recv_pos = k /\ Stored(p, d).recv_target = p.recv_target
    BY <1>3, <1>4 DEF PacketType
  <1>6. QED
    BY <1>5 DEF b, k

LEMMA ResetFields ==
  ASSUME NEW p \in PacketType
  PROVE  /\ recv_reset(p) \in PacketType
         /\ recv_reset(p).header = p.header /\ recv_reset(p).body = p.body
         /\ recv_reset(p).read_pos = p.read_pos
         /\ recv_reset(p).write_pos = p.write_pos
         /\ recv_reset(p).recv_pos = -1 /\ recv_reset(p).recv_target = -1
PROOF
  <1> DEFINE c == -1
             q == recv_reset(p)
  <1>1. c \in Int /\ q = [p EXCEPT !.recv_pos = c, !.recv_target = c]
    BY DEF recv_reset
  <1> HIDE DEF c, q
  <1>2. /\ q \in PacketType /\ q.header = p.header /\ q.body = p.body
        /\ q.read_pos = p.read_pos /\ q.write_pos = p.write_pos
        /\ q.recv_pos = c /\ q.recv_target = c
    BY <1>1 DEF PacketType
  <1>3. QED
    BY <1>2 DEF c, q

\* What one ::recv hands out is stored at the start of the payload.
LEMMA StoredIn ==
  ASSUME NEW s, Expecting(s), HasData(s), NEW t \in 1 .. LenMod - 1,
         s.recv_target = t, work_size(s) = t,
         NEW p, p = AtStart(s), NEW d \in Seq(Byte), Len(d) <= t,
         NEW q, q = Stored(p, d)
  PROVE  /\ Expecting(p) /\ get_recv_remainder(p) = t
         /\ get_recv_remainder(q) = t - Len(d)
         /\ Len(d) < t => Expecting(q)
         /\ Len(d) = t => Expecting(recv_reset(q)) /\ q.body = d
         /\ q.recv_target = t
PROOF
  <1> DEFINE k == Len(d)
             z == recv_reset(q)
  <1>1. /\ Sound(s) /\ s \in PacketType /\ s.body \in Seq(Byte) /\ Len(s.body) = t
        /\ t \in Nat /\ t >= 1 /\ HeaderSize = 2 /\ k \in Nat /\ k <= t
    BY Constants, Fields DEF Expecting, Sound, PacketType, work_size, HeaderSize
  <1>2. real_size(s) = 2 + t
    BY <1>1, Fields
  <1>3. /\ p \in PacketType /\ p.header = s.header /\ p.body = s.body
        /\ p.read_pos = s.read_pos /\ p.write_pos = s.write_pos
        /\ p.recv_pos = 2 /\ p.recv_target = t
    BY <1>1, AtStartFields
  <1>4. /\ q \in PacketType /\ q.header = s.header
        /\ q.body = Overwritten(s.body, 0, d)
        /\ q.read_pos = s.read_pos /\ q.write_pos = s.write_pos
        /\ q.recv_pos = 2 + k /\ q.recv_target = t
    BY <1>3, StoredFields
  <1>5. /\ z \in PacketType /\ z.header = q.header /\ z.body = q.body
        /\ z.read_pos = q.read_pos /\ z.write_pos = q.write_pos
        /\ z.recv_pos = -1 /\ z.recv_target = -1
    BY <1>4, ResetFields
  <1>6. Len(q.body) = t /\ (k = t => q.body = d)
    <2> DEFINE b == s.body
    <2>1. b \in Seq(Byte) /\ Len(b) = t /\ q.body = Overwritten(b, 0, d)
      BY <1>1, <1>4
    <2> HIDE DEF b
    <2>2. Len(Overwritten(b, 0, d)) = Larger(Len(b), 0 + Len(d))
      BY <2>1, OverwrittenBytes
    <2>3. Len(q.body) = t
      BY <1>1, <2>1, <2>2 DEF Larger
    <2>4. k = t => Overwritten(b, 0, d) = d
      BY <1>1, <2>1, OverwrittenAll
    <2>5. QED
      BY <2>1, <2>3, <2>4
  <1> HIDE DEF k, z
  <1>7. Sound(p) /\ work_size(p) = t /\ real_size(p) = 2 + t
    BY <1>1, <1>2, <1>3, LikeSound
  <1>8. Sound(q) /\ work_size(q) = t /\ real_size(q) = 2 + t
    BY <1>1, <1>2, <1>4, <1>6, LikeSound
  <1>9. Sound(z)
    BY <1>5, <1>8, LikeSound
  <1>10. Expecting(p)
    BY <1>1, <1>3, <1>7 DEF Expecting
  <1>11. k < t => Expecting(q)
    BY <1>1, <1>4, <1>8 DEF Expecting
  <1>12. Expecting(z)
    BY <1>5, <1>9 DEF Expecting
  <1>13. get_recv_remainder(p) = t /\ get_recv_remainder(q) = t - k
    BY <1>1, <1>3, <1>4 DEF get_recv_remainder
  <1>14. QED
    BY <1>4, <1>6, <1>10, <1>11, <1>12, <1>13 DEF k, z

\* ::recv for a payload.
LEMMA PlacedRecvBody == Placed /\ RecvBody => Placed'
PROOF
  <1> SUFFICES ASSUME Placed, RecvBody PROVE Placed'
    OBVIOUS
  <1> DEFINE t     == rpkt.recv_target
             sized == resize(rpkt, t + HeaderSize)
             s     == sized.pkt
             p     == AtStart(s)
  <1>1. /\ Sending /\ Receiving /\ Network /\ OldError /\ OtherResultsTrue
        /\ rpc = "body" \/ (rpc = "ready" /\ t >= 0)
        /\ UNCHANGED <<svars, shut, broken, conns>>
    BY DEF Placed, RecvBody
  <1>2. Sending' /\ OldError' /\ OtherResultsTrue'
    BY <1>1, SenderStays DEF OldError, OtherResultsTrue, svars
  <1>3. Expecting(rpkt) /\ t \in 1 .. LenMod - 1
    BY <1>1 DEF Receiving, Expecting
  <1>4. \/ /\ sized.threw
           /\ rpkt' = s
           /\ rpc'  = "stopped"
           /\ UNCHANGED <<wire, here, rerr, rgot, delivered, torn>>
        \/ /\ ~sized.threw
           /\ \E k \in Hands(get_recv_remainder(p)) :
                /\ Take(k)
                /\ rerr' \in AfterSuccess(rerr)
                /\ torn' = (torn \/ k < get_recv_remainder(p))
                /\ LET q == [p EXCEPT
                              !.body = Overwritten(@, 0, SubSeq(wire, 1, k)),
                              !.recv_pos = @ + k]
                   IN IF get_recv_remainder(q) = 0
                        THEN ReceiveReturns(recv_reset(q), "all")
                        ELSE ReceiveReturns(q, IF k = 0 THEN "none" ELSE "part")
        \/ /\ ~sized.threw
           /\ rerr' \in RecvErrors
           /\ ReceiveReturns(p, "none")
           /\ UNCHANGED <<wire, here, torn>>
    BY DEF RecvBody, AtStart
  <1> HIDE DEF sized, p
  <1>5. /\ Expecting(s) /\ HasData(s) /\ s.recv_target = t
        /\ ~sized.threw => work_size(s) = t
    BY <1>3, SizedFor DEF sized
  <1>6. CASE sized.threw
    <2>1. /\ rpkt' = s /\ rpc' = "stopped"
          /\ UNCHANGED <<wire, here, rerr, rgot, delivered, torn>>
      BY <1>4, <1>6
    <2>2. Network'
      BY <1>1, <2>1 DEF Network
    <2>3. Expecting(rpkt')
      BY <1>5, <2>1
    <2>4. Receiving'
      BY <1>1, <2>1, <2>3 DEF Receiving, Expecting, Sound, HasData, real_size,
        work_size, full, PacketType
    <2>5. QED
      BY <1>2, <2>2, <2>4 DEF Placed
  <1>7. ASSUME ~sized.threw,
               NEW k \in Hands(get_recv_remainder(p)),
               Take(k),
               rerr' \in AfterSuccess(rerr),
               torn' = (torn \/ k < get_recv_remainder(p)),
               LET q == [p EXCEPT
                          !.body = Overwritten(@, 0, SubSeq(wire, 1, k)),
                          !.recv_pos = @ + k]
               IN IF get_recv_remainder(q) = 0
                    THEN ReceiveReturns(recv_reset(q), "all")
                    ELSE ReceiveReturns(q, IF k = 0 THEN "none" ELSE "part")
        PROVE  Placed'
    <2> DEFINE d == SubSeq(wire, 1, k)
               q == Stored(p, d)
    <2>1. Expecting(p) /\ get_recv_remainder(p) = t
      <3> DEFINE e == << >>
      <3>1. e \in Seq(Byte) /\ Len(e) <= t
        BY <1>3
      <3> HIDE DEF e
      <3>2. QED
        BY <1>3, <1>5, <1>7, <3>1, StoredIn DEF p
    <2>2. k \in 0 .. t /\ k <= here /\ ~broken
      <3>1. t \in Nat
        BY <1>3, Constants
      <3>2. k \in Hands(t)
        BY <1>7, <2>1
      <3>3. QED
        BY <1>1, <3>1, <3>2, HandsSome
    <2>3. d \in Seq(Byte) /\ Len(d) = k
      <3>1. wire \in Seq(Byte) /\ here \in 0 .. Len(wire)
        BY <1>1 DEF Network
      <3>2. QED
        BY <2>2, <3>1
    <2>4. \/ k = t /\ ReceiveReturns(recv_reset(q), "all")
          \/ k < t /\ ReceiveReturns(q, IF k = 0 THEN "none" ELSE "part")
      <3>1. q = [p EXCEPT !.body = Overwritten(@, 0, SubSeq(wire, 1, k)),
                          !.recv_pos = @ + k]
        BY <2>3 DEF Stored
      <3>2. get_recv_remainder(q) = t - k
        <4> HIDE DEF d
        <4>1. QED
          BY <1>3, <1>5, <1>7, <2>2, <2>3, StoredIn DEF p
      <3>3. IF get_recv_remainder(q) = 0
              THEN ReceiveReturns(recv_reset(q), "all")
              ELSE ReceiveReturns(q, IF k = 0 THEN "none" ELSE "part")
        BY <1>7, <3>1
      <3>4. t \in Int /\ k \in Int
        BY <1>3, <2>2
      <3> HIDE DEF q
      <3>5. CASE k = t
        BY <3>2, <3>3, <3>4, <3>5
      <3>6. CASE k < t
        BY <3>2, <3>3, <3>4, <3>6
      <3>7. QED
        BY <2>2, <3>4, <3>5, <3>6
    <2> HIDE DEF d
    <2>5. /\ k < t => Expecting(q)
          /\ k = t => Expecting(recv_reset(q))
      BY <1>3, <1>5, <1>7, <2>2, <2>3, StoredIn DEF p
    <2> HIDE DEF q
    <2>6. rerr' \in Errors
      BY <1>1, <1>7 DEF AfterSuccess, Receiving, Errors
    <2>7. Receiving'
      <3>1. (IF k = 0 THEN "none" ELSE "part") \in {"none", "part", "all"}
            /\ "all" \in {"none", "part", "all"}
        OBVIOUS
      <3>2. CASE k = t /\ ReceiveReturns(recv_reset(q), "all")
        BY <1>1, <2>5, <2>6, <3>1, <3>2, ReceiveEnds
      <3>3. CASE k < t /\ ReceiveReturns(q, IF k = 0 THEN "none" ELSE "part")
        BY <1>1, <2>5, <2>6, <3>1, <3>3, ReceiveEnds
      <3>4. QED
        BY <2>4, <3>2, <3>3
    <2>8. Network'
      <3>1. torn' \in BOOLEAN /\ k \in Nat
        BY <1>1, <1>7, <2>2 DEF Network
      <3>2. QED
        BY <1>1, <1>7, <2>2, <3>1, Leaves
    <2>9. QED
      BY <1>2, <2>7, <2>8 DEF Placed
  <1>8. ASSUME ~sized.threw, rerr' \in RecvErrors, ReceiveReturns(p, "none"),
               UNCHANGED <<wire, here, torn>>
        PROVE  Placed'
    <2>1. Expecting(p)
      <3> DEFINE e == << >>
      <3>1. e \in Seq(Byte) /\ Len(e) <= t
        BY <1>3
      <3> HIDE DEF e
      <3>2. QED
        BY <1>3, <1>5, <1>8, <3>1, StoredIn DEF p
    <2>2. rerr' \in Errors
      BY <1>8 DEF RecvErrors, Errors
    <2>3. Receiving'
      BY <1>1, <1>8, <2>1, <2>2, ReceiveEnds
    <2>4. Network'
      BY <1>1, <1>8 DEF Network
    <2>5. QED
      BY <1>2, <2>3, <2>4 DEF Placed
  <1>9. QED
    BY <1>4, <1>6, <1>7, <1>8

-----------------------------------------------------------------------------
(* The network and the programs.                                           *)

\* A packet that was just constructed can be received into.
LEMMA NewExpects == Expecting(NewPacket)
PROOF
  <1>1. NewPacket.recv_pos = -1 /\ NewPacket.recv_target = -1
    BY DEF NewPacket
  <1>2. QED
    BY <1>1, NewPacketSound DEF Expecting

\* Bytes arrive.
LEMMA PlacedArrive == Placed /\ Arrive => Placed'
PROOF
  <1> SUFFICES ASSUME Placed, Arrive PROVE Placed'
    OBVIOUS
  <1>1. /\ Sending /\ Receiving /\ Network /\ OldError /\ OtherResultsTrue
        /\ UNCHANGED <<svars, wire, shut, broken, rvars, again>>
    BY DEF Placed, Arrive
  <1>2. here' \in 0 .. Len(wire)
    <2>1. PICK k \in 1 .. Len(wire) - here : here' = here + k
      BY DEF Arrive
    <2>2. Len(wire) \in Nat /\ here \in 0 .. Len(wire)
      BY <1>1 DEF Network
    <2>3. QED
      BY <2>1, <2>2
  <1>3. Network'
    BY <1>1, <1>2 DEF Network, again
  <1>4. Sending' /\ Receiving'
    BY <1>1, SenderStays, ReceiverStays
  <1>5. QED
    BY <1>1, <1>3, <1>4 DEF Placed, OldError, OtherResultsTrue, svars, again

\* The connection is gone.
LEMMA PlacedBreak == Placed /\ Break => Placed'
PROOF
  <1> SUFFICES ASSUME Placed, Break PROVE Placed'
    OBVIOUS
  <1>1. /\ Sending /\ Receiving /\ Network /\ OldError /\ OtherResultsTrue
        /\ broken' = TRUE /\ wire' = << >> /\ here' = 0
        /\ UNCHANGED <<svars, shut, rvars, again>>
    BY DEF Placed, Break
  <1>2. Len(<< >>) = 0 /\ << >> \in Seq(Byte) /\ 0 <= Cap
    BY TcpChannelAssumption
  <1>3. Network'
    BY <1>1, <1>2 DEF Network, again
  <1>4. Sending' /\ Receiving'
    BY <1>1, SenderStays, ReceiverStays
  <1>5. QED
    BY <1>1, <1>3, <1>4 DEF Placed, OldError, OtherResultsTrue, svars, again

\* The sender has nothing left to send.
LEMMA PlacedSenderCloses == Placed /\ SenderCloses => Placed'
PROOF
  <1> SUFFICES ASSUME Placed, SenderCloses PROVE Placed'
    OBVIOUS
  <1>1. /\ Sending /\ Receiving /\ Network /\ OldError /\ OtherResultsTrue
        /\ spc = "ready" /\ spc' = "stopped" /\ shut' = TRUE
        /\ UNCHANGED <<next, spkt, serr, sres, doubtful, wire, here, broken, rvars,
                       again>>
    BY DEF Placed, SenderCloses
  <1>2. Sending'
    BY <1>1 DEF Sending, Carries, SendPlace, PacketType, HasData, real_size
  <1>3. Receiving'
    BY <1>1, ReceiverStays
  <1>4. Network'
    BY <1>1 DEF Network, again
  <1>5. QED
    BY <1>1, <1>2, <1>3, <1>4 DEF Placed, OldError, OtherResultsTrue, again

\* The programs connect again.
LEMMA PlacedReconnect == Placed /\ Reconnect => Placed'
PROOF
  <1> SUFFICES ASSUME Placed, Reconnect PROVE Placed'
    OBVIOUS
  <1>1. /\ Sending /\ Receiving /\ Network /\ OldError /\ OtherResultsTrue
        /\ conns < Connections /\ conns' = conns + 1 /\ broken' = FALSE
        /\ spc # "loop" /\ spc' \in {spc, "ready"} /\ rpc' = "ready"
        /\ rpkt' = IF FreshPacket THEN NewPacket ELSE rpkt
        /\ torn' \in BOOLEAN
        /\ UNCHANGED <<next, spkt, serr, sres, doubtful, wire, here, shut, rerr,
                       rgot, delivered>>
    BY DEF Placed, Reconnect
  <1>2. Sending'
    BY <1>1 DEF Sending, Carries, SendPlace, PacketType, HasData, real_size
  <1>3. Expecting(rpkt')
    BY <1>1, NewExpects DEF Receiving
  <1>4. Receiving'
    BY <1>1, <1>3 DEF Receiving, Expecting, Sound, HasData, real_size,
      work_size, full, PacketType
  <1>5. conns' \in 1 .. Connections /\ conns' > 1 /\ conns \in Nat
    BY <1>1, TcpChannelAssumption DEF Network
  <1>6. Network'
    BY <1>1, <1>5 DEF Network
  <1>7. OldError' /\ OtherResultsTrue'
    BY <1>1, <1>5 DEF OldError, OtherResultsTrue
  <1>8. QED
    BY <1>2, <1>4, <1>6, <1>7 DEF Placed

\* How the programs and the stack start.
LEMMA PlacedInit == Init => Placed
PROOF
  <1> SUFFICES ASSUME Init PROVE Placed
    OBVIOUS
  <1>1. Carries(spkt, 1) /\ spkt.send_pos = -1
    <2>1. CASE Messages = << >>
      <3>1. spkt = NewPacket /\ Len(Messages) = 0
        BY <2>1 DEF Init
      <3>2. NewPacket \in PacketType /\ HasData(NewPacket) /\ NewPacket.send_pos = -1
        BY NewPacketSound, Constants DEF Sound, NewPacket, HasData, NoHeader
      <3>3. QED
        BY <3>1, <3>2 DEF Carries
    <2>2. CASE Messages # << >>
      <3>1. 1 \in 1 .. Len(Messages)
        BY <2>2, TcpChannelAssumption
      <3>2. QED
        BY <2>2, <3>1, FilledMessage DEF Init
    <2>3. QED
      BY <2>1, <2>2
  <1>2. Sending
    <2>1. next = 1 /\ 1 \in 1 .. Len(Messages) + 1
      BY TcpChannelAssumption DEF Init
    <2>2. sres.state = "unasked"
      BY DEF Init, Unasked
    <2>3. QED
      BY <1>1, <2>1, <2>2 DEF Init, Sending, SendPlace, Errors
  <1>3. Receiving
    <2>1. Expecting(rpkt)
      BY NewExpects DEF Init
    <2>2. QED
      BY <2>1 DEF Init, Receiving, Errors
  <1>4. Network
    <2>1. Len(<< >>) = 0 /\ << >> \in Seq(Byte) /\ 0 <= Cap
          /\ 1 \in 1 .. Connections
      BY TcpChannelAssumption
    <2>2. /\ wire = << >> /\ here = 0 /\ shut = FALSE /\ broken = FALSE
          /\ conns = 1 /\ torn = FALSE
      BY DEF Init
    <2>3. wire \in Seq(Byte) /\ Len(wire) <= Cap /\ here \in 0 .. Len(wire)
      BY <2>1, <2>2
    <2>4. QED
      BY <2>1, <2>2, <2>3 DEF Network
  <1>5. OldError /\ OtherResultsTrue
    BY DEF Init, OldError, OtherResultsTrue, Unasked
  <1>6. QED
    BY <1>2, <1>3, <1>4, <1>5 DEF Placed

\* Every step of the programs and the network keeps the places.
LEMMA PlacedStep == Placed /\ [Next]_vars => Placed'
PROOF
  <1> SUFFICES ASSUME Placed, [Next]_vars PROVE Placed'
    OBVIOUS
  <1>1. CASE UNCHANGED vars
    <2>1. /\ UNCHANGED svars /\ UNCHANGED rvars /\ UNCHANGED net
          /\ UNCHANGED again
      BY <1>1 DEF vars
    <2>2. Sending' /\ Receiving'
      BY <2>1, SenderStays, ReceiverStays DEF Placed
    <2>3. QED
      BY <2>1, <2>2 DEF Placed, Network, OldError, OtherResultsTrue, svars, net,
        again
  <1>2. QED
    BY <1>1, PlacedSendFirst, PlacedSendMore, PlacedSenderCloses, PlacedBreak,
      PlacedRecvHeader, PlacedRecvBody, PlacedArrive, PlacedReconnect
      DEF Next, Sender, Receiver, Reset, ReceiverCloses, SenderAborts

\* Whatever the stack does, both packets can be gone on with after every call.
THEOREM PlacesKept == Spec => []Placed
PROOF
  <1>1. QED
    BY PlacedInit, PlacedStep, PTL DEF Spec

-----------------------------------------------------------------------------
(* The invariants that the runs check.                                     *)

\* The types of the state.
THEOREM ChannelTypes == Spec => []TypeOK
PROOF
  <1>1. Placed => TypeOK
    BY DEF Placed, Sending, Receiving, Network, Carries, Expecting, Sound, TypeOK,
      Errors
  <1>2. QED
    BY <1>1, PlacesKept, PTL

\* send() keeps its place in the packet: every call starts with the header,
\* and a call in the loop has sent something and has something left.
THEOREM SendKeepsPlace == Spec => []SendPlace
PROOF
  <1>1. Placed => SendPlace
    BY DEF Placed, Sending
  <1>2. QED
    BY <1>1, PlacesKept, PTL

\* receive() stores inside a payload that was sized for the announced length.
THEOREM ReceiveKeepsPlace == Spec => []ReceivePlace
PROOF
  <1>1. Placed => ReceivePlace
    <2>1. SUFFICES ASSUME Expecting(rpkt) PROVE ReceivePlace
      BY DEF Placed, Receiving
    <2>2. rpkt.recv_target < 0 => rpkt.recv_target = -1
      BY <2>1, Constants DEF Expecting
    <2>3. QED
      BY <2>1, <2>2 DEF Expecting, ReceivePlace
  <1>2. QED
    BY <1>1, PlacesKept, PTL

\* Every result of send() other than done is true.
THEOREM ResultsOtherThanDone == Spec => []OtherResultsTrue
PROOF
  <1>1. Placed => OtherResultsTrue
    BY DEF Placed
  <1>2. QED
    BY <1>1, PlacesKept, PTL

=============================================================================
