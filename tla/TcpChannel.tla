----------------------------- MODULE TcpChannel -----------------------------
(***************************************************************************)
(* A program that sends packets over a connected TcpSocket, the byte       *)
(* stream, and a program that receives them at the other end.              *)
(*                                                                         *)
(* Socket::send(Packet&) and Socket::receive(Packet&) are not atomic: one  *)
(* step is one call of ::send or ::recv with the code up to the next one.  *)
(* Both ends keep a last error of their own, as WSAGetLastError() does, and *)
(* the packets of both are packets of module Packet.                       *)
(*                                                                         *)
(* The programs do what the SocketState they are answered with tells them: *)
(* done is success, in_progress is tried again with the same packet,       *)
(* closed, error and an exception end the connection.                      *)
(***************************************************************************)
EXTENDS Packet, SocketError

CONSTANTS
  Messages,      \* the payloads to send, in order
  Cap,           \* bytes the stream holds between the two ends
  SendBlocking,  \* Socket::blocking_ of the sender
  RecvBlocking,  \* and of the receiver
  SplitSend,     \* ::send may take a part of the bytes it is given
  SplitArrival,  \* bytes sent together may arrive one after the other
  KeepsError,    \* a call that succeeds may leave the last error as it was
  Resets,        \* bound: so many connections may be reset, from the first one
  Wanted,        \* the receiver takes this many packets and closes
  Connections,   \* bound: how often the programs connect, the first time too
  FreshPacket    \* the receiver makes a new packet for each connection

\* Payloads that can be sent as packets: empty ones are not sent at all, and
\* the header of a full packet is not written.
ASSUME TcpChannelAssumption ==
  /\ Messages \in Seq(Seq(Byte))
  /\ \A i \in DOMAIN Messages : Len(Messages[i]) \in 1 .. DatagramSize - 3
  /\ Cap \in Nat
  /\ \A i \in DOMAIN Messages : HeaderSize + Len(Messages[i]) <= Cap
  /\ {SendBlocking, RecvBlocking, SplitSend, SplitArrival, KeepsError,
      FreshPacket} \subseteq BOOLEAN
  /\ {Wanted, Connections} \subseteq Nat \ {0} /\ Resets \in Nat

VARIABLES
  next,       \* the message the sender works on, by its index
  spc,        \* where the sender is: ready, loop (inside send) or stopped
  spkt,       \* its packet
  serr,       \* its last error
  sres,       \* history: what its latest send(Packet&) returned, and whether
              \* all of the packet's bytes were in the stream then
  doubtful,   \* history: the messages that a send(Packet&) put into the stream
              \* whole and did not return done for, by their index
  wire,       \* the bytes in the stream
  here,       \* how many of them have arrived at the receiver
  shut,       \* the sender has closed its end
  broken,     \* the connection is gone
  rpc,        \* where the receiver is: ready, body (inside receive) or stopped
  rpkt,       \* its packet
  rerr,       \* its last error
  rgot,       \* history: how much of a payload its latest receive(Packet&) got
              \* if that returned done; "all" if it returned anything else
  delivered,  \* the payloads the receiver took for received packets; nothing
              \* is noted of one that it took while torn
  conns,      \* how often the programs connected
  torn        \* history: the ends no longer agree where packets start

svars == <<next, spc, spkt, serr, sres, doubtful>>
rvars == <<rpc, rpkt, rerr, rgot, delivered>>
net   == <<wire, here, shut, broken>>
again == <<conns, torn>>
vars  == <<svars, net, rvars, again>>

\* The result of a call that has not returned.
Unasked == [state |-> "unasked", all |-> FALSE]

\* The packet a program makes of a payload.
Filled(payload) == write_data(NewPacket, payload, TRUE).pkt

-----------------------------------------------------------------------------
(* Winsock.                                                                *)

\* The last error after a call that succeeds.
AfterSuccess(err) == {"none"} \cup (IF KeepsError THEN {err} ELSE {})

\* How many of the n bytes it is given ::send may take now.
Room == Cap - Len(wire)

Takes(n) ==
  IF broken THEN {}
  ELSE {k \in 1 .. Smaller(n, Room) : k = n \/ (SplitSend /\ ~SendBlocking)}

\* The errors it may fail with instead.
SendErrors(n) ==
  (IF broken THEN {"connection_reset"} ELSE {})
    \cup (IF ~SendBlocking /\ ~broken /\ Room < n THEN {"would_block"} ELSE {})

\* What ::recv hands out of the n bytes it is asked for: those that are here.
\* Zero is the end of the stream.
AtEnd == shut /\ wire = << >>

Hands(n) ==
  IF broken THEN {}
  ELSE IF here > 0 THEN {Smaller(n, here)}
  ELSE IF AtEnd THEN {0} ELSE {}

\* The errors it may fail with instead.
RecvErrors ==
  (IF broken THEN {"connection_reset"} ELSE {})
    \cup (IF ~RecvBlocking /\ ~broken /\ here = 0 /\ ~AtEnd
            THEN {"would_block"} ELSE {})

\* ::recv takes the first k bytes.
Take(k) ==
  /\ wire' = SubSeq(wire, k + 1, Len(wire))
  /\ here' = here - k

\* The network brings bytes to the receiver.
Arrive ==
  /\ \E k \in 1 .. Len(wire) - here :
       /\ SplitArrival \/ here + k = Len(wire)
       /\ here' = here + k
  /\ UNCHANGED <<svars, wire, shut, broken, rvars, again>>

\* The connection is gone, and with it what is in the stream.
Break ==
  /\ ~broken
  /\ broken' = TRUE
  /\ wire' = << >> /\ here' = 0
  /\ UNCHANGED <<svars, shut, rvars, again>>

-----------------------------------------------------------------------------
(* Socket::send(Packet&).                                                  *)

\* The call returns state and leaves the packet p.  The program goes on to the
\* next packet, tries again, or stops.
SendReturns(state, p, all, none) ==
  LET following == IF state = "done" THEN next + 1 ELSE next
  IN /\ sres' = [state |-> state, all |-> all]
     /\ torn' = (torn \/ (~all /\ ~none /\ ~broken))
     /\ doubtful' = doubtful \cup (IF all /\ state # "done" THEN {next} ELSE {})
     /\ next' = following
     /\ spc'  = IF state \in {"closed", "error"} THEN "stopped" ELSE "ready"
     /\ spkt' = IF state = "done" /\ following <= Len(Messages)
                  THEN Filled(Messages[following])
                  ELSE send_reset(p)

\* The first ::send of a call, for the whole packet.  Its error is not looked
\* at: send_pos_ stays -1, nothing remains to be sent, the result is done.
SendFirst ==
  /\ spc = "ready" /\ next <= Len(Messages)
  /\ LET bytes == Flat(spkt)
     IN \/ \E k \in Takes(Len(bytes)) :
             /\ wire' = wire \o SubSeq(bytes, 1, k)
             /\ serr' \in AfterSuccess(serr)
             /\ LET p == [spkt EXCEPT !.send_pos = k]
                IN IF get_send_remainder(p) <= 0
                     THEN SendReturns("done", p, TRUE, FALSE)
                     ELSE /\ spc' = "loop" /\ spkt' = p /\ sres' = Unasked
                          /\ UNCHANGED <<next, doubtful, torn>>
        \/ /\ serr' \in SendErrors(Len(bytes))
           /\ SendReturns("done", spkt, FALSE, TRUE)
           /\ UNCHANGED wire
  /\ UNCHANGED <<here, shut, broken, rvars, conns>>

\* Mutant of SendMore: the loop is left after one turn.
SendOnce ==
  /\ spc = "loop"
  /\ LET bytes == Flat(spkt)
         at    == spkt.send_pos
     IN \/ \E k \in Takes(get_send_remainder(spkt)) :
             /\ wire' = wire \o SubSeq(bytes, at + 1, at + k)
             /\ serr' \in AfterSuccess(serr)
             /\ LET p     == [spkt EXCEPT !.send_pos = at + k]
                    state == to_state(serr')
                    all   == get_send_remainder(p) <= 0
                IN SendReturns(state, p, all, FALSE)
        \/ /\ serr' \in SendErrors(get_send_remainder(spkt))
           /\ SendReturns(to_state(serr'), spkt, FALSE, FALSE)
           /\ UNCHANGED wire
  /\ UNCHANGED <<here, shut, broken, rvars, conns>>

\* One turn of the loop: ::send for the remainder, then the last error, which
\* is asked for whether or not the call failed.
SendMore ==
  /\ spc = "loop"
  /\ LET bytes == Flat(spkt)
         at    == spkt.send_pos
     IN \/ \E k \in Takes(get_send_remainder(spkt)) :
             /\ wire' = wire \o SubSeq(bytes, at + 1, at + k)
             /\ serr' \in AfterSuccess(serr)
             /\ LET p     == [spkt EXCEPT !.send_pos = at + k]
                    state == to_state(serr')
                    all   == get_send_remainder(p) <= 0
                IN IF state = "in_progress" /\ ~all
                     THEN /\ spkt' = p
                          /\ UNCHANGED <<next, spc, sres, doubtful, torn>>
                     ELSE SendReturns(state, p, all, FALSE)
        \/ /\ serr' \in SendErrors(get_send_remainder(spkt))
           /\ IF to_state(serr') = "in_progress"
                THEN UNCHANGED <<next, spc, spkt, sres, doubtful, torn>>
                ELSE SendReturns(to_state(serr'), spkt, FALSE, FALSE)
           /\ UNCHANGED wire
  /\ UNCHANGED <<here, shut, broken, rvars, conns>>

\* With nothing left to send the program closes its socket.
SenderCloses ==
  /\ spc = "ready" /\ next > Len(Messages)
  /\ spc'  = "stopped"
  /\ shut' = TRUE
  /\ UNCHANGED <<next, spkt, serr, sres, doubtful, wire, here, broken, rvars,
                 again>>

-----------------------------------------------------------------------------
(* Socket::receive(Packet&).                                               *)

\* The call returns the state of the last error with the packet p, into which
\* it put whole: "all", a "part" or "none" of a payload.  The program takes p
\* for a received packet on done, unless it is empty.
ReceiveReturns(p, whole) ==
  LET state == to_state(rerr')
  IN /\ rpkt' = p
     /\ rgot' = IF state = "done" THEN whole ELSE "all"
     /\ delivered' = IF state = "done" /\ ~empty(p)
                       THEN Append(delivered, IF torn' THEN << >> ELSE p.body)
                       ELSE delivered
     /\ rpc'  = IF state \in {"closed", "error"} \/ Len(delivered') = Wanted
                  THEN "stopped" ELSE "ready"

\* The length: ::recv for its two bytes, which are gone if only one comes.
RecvHeader ==
  /\ rpc = "ready" /\ rpkt.recv_target < 0
  /\ LET fresh == IF rpkt.recv_pos < 0 THEN clear(rpkt).pkt ELSE rpkt
     IN \/ \E k \in Hands(HeaderSize) :
             /\ Take(k)
             /\ rerr' \in AfterSuccess(rerr)
             /\ torn' = (torn \/ k \notin {0, HeaderSize})
             /\ IF k = HeaderSize /\ Number(wire) > 0
                  THEN /\ rpkt' = [fresh EXCEPT !.recv_target = Number(wire)]
                       /\ rpc'  = "body"
                       /\ rgot' = "all"
                       /\ UNCHANGED delivered
                  ELSE ReceiveReturns(fresh, "none")
        \/ /\ rerr' \in RecvErrors
           /\ UNCHANGED <<wire, here, torn>>
           /\ ReceiveReturns(fresh, "none")
  /\ UNCHANGED <<svars, shut, broken, conns>>

\* The payload, in the same call or in a later one: the packet is sized, the
\* position put back to its start, and what one ::recv hands out stored there.
RecvBody ==
  /\ rpc = "body" \/ (rpc = "ready" /\ rpkt.recv_target >= 0)
  /\ LET sized == resize(rpkt, rpkt.recv_target + HeaderSize)
         p     == [sized.pkt EXCEPT !.recv_pos = HeaderSize]
     IN \/ /\ sized.threw
           /\ rpkt' = sized.pkt
           /\ rpc'  = "stopped"
           /\ UNCHANGED <<wire, here, rerr, rgot, delivered, torn>>
        \/ /\ ~sized.threw
           /\ \E k \in Hands(get_recv_remainder(p)) :
                /\ Take(k)
                /\ rerr' \in AfterSuccess(rerr)
                /\ torn' = (torn \/ k < get_recv_remainder(p))
                /\ LET q == [p EXCEPT
                              !.body = Overwritten(@, 0, SubSeq(wire, 1, k)),
                              !.recv_pos = @ + k]
                   IN IF get_recv_remainder(q) = 0
                        THEN ReceiveReturns(recv_reset(q), "all")
                        ELSE ReceiveReturns(q, IF k = 0 THEN "none" ELSE "part")
        \/ /\ ~sized.threw
           /\ rerr' \in RecvErrors
           /\ UNCHANGED <<wire, here, torn>>
           /\ ReceiveReturns(p, "none")
  /\ UNCHANGED <<svars, shut, broken, conns>>

-----------------------------------------------------------------------------

Reset == conns <= Resets /\ Break

\* A program that gave up closes its socket.
ReceiverCloses == rpc = "stopped" /\ Break
SenderAborts   == spc = "stopped" /\ ~shut /\ Break

\* When the connection is gone and their calls have come back, the programs
\* connect again and go on where they are; a packet that a length was received
\* into keeps it, unless the program makes a new one.
Reconnect ==
  /\ broken /\ conns < Connections
  /\ spc # "loop" /\ rpc # "body" /\ Len(delivered) < Wanted
  /\ conns'  = conns + 1
  /\ broken' = FALSE
  /\ spc'  = IF shut THEN spc ELSE "ready"
  /\ rpc'  = "ready"
  /\ rpkt' = IF FreshPacket THEN NewPacket ELSE rpkt
  /\ torn' = (rpkt'.recv_target >= 0)
  /\ UNCHANGED <<next, spkt, serr, sres, doubtful, wire, here, shut, rerr,
                 rgot, delivered>>

Init ==
  /\ next = 1
  /\ spc  = "ready"
  /\ spkt = IF Messages = << >> THEN NewPacket ELSE Filled(Messages[1])
  /\ serr = "none"
  /\ sres = Unasked
  /\ doubtful = {}
  /\ wire = << >> /\ here = 0 /\ shut = FALSE /\ broken = FALSE
  /\ rpc  = "ready"
  /\ rpkt = NewPacket
  /\ rerr = "none"
  /\ rgot = "all"
  /\ delivered = << >>
  /\ conns = 1 /\ torn = FALSE

Sender   == SendFirst \/ SendMore \/ SenderCloses \/ SenderAborts
Receiver == RecvHeader \/ RecvBody \/ ReceiverCloses
Next     == Sender \/ Receiver \/ Arrive \/ Reset \/ Reconnect

Spec == Init /\ [][Next]_vars

\* Both programs go on while they can, what is sent arrives, and ::send does
\* not refuse for ever what there is room for.
Fairness ==
  /\ WF_vars(Sender)
  /\ WF_vars(SendMore /\ wire' # wire)
  /\ WF_vars(Receiver)
  /\ WF_vars(Arrive)

FairSpec == Spec /\ Fairness

-----------------------------------------------------------------------------
(* Invariants.                                                             *)

\* The packets of both ends are packets, errors and results what they say.
TypeOK ==
  /\ next \in 1 .. Len(Messages) + 1
  /\ spc \in {"ready", "loop", "stopped"}
  /\ rpc \in {"ready", "body", "stopped"}
  /\ spkt \in PacketType /\ rpkt \in PacketType
  /\ {serr, rerr} \subseteq {"none", "would_block", "connection_reset"}
  /\ sres.state \in SocketStates \cup {"unasked"}
  /\ doubtful \subseteq 1 .. Len(Messages)
  /\ rgot \in {"none", "part", "all"}
  /\ wire \in Seq(Byte) /\ Len(wire) <= Cap /\ here \in 0 .. Len(wire)
  /\ {shut, broken} \subseteq BOOLEAN
  /\ delivered \in Seq(Seq(Byte))
  /\ conns \in 1 .. Connections /\ torn \in BOOLEAN

\* Whatever the stack takes or refuses, send() keeps its place: between calls
\* send_pos_ is unset, so a call always starts with the header, and inside
\* the loop something of the packet is sent and something remains.
SendPlace ==
  IF spc = "loop"
    THEN spkt.send_pos \in 1 .. real_size(spkt) - 1
    ELSE spkt.send_pos = -1

\* receive() stores bytes inside the packet only, and resumes where a packet
\* was announced: while a length is known, the position it stores at is unset
\* or within a payload sized for that length; otherwise both are unset.
ReceivePlace ==
  /\ rpkt.recv_target < 0 => rpkt.recv_target = -1 /\ rpkt.recv_pos = -1
  /\ rpkt.recv_pos # -1 =>
       /\ rpkt.recv_pos \in HeaderSize .. real_size(rpkt) - 1
       /\ rpkt.recv_target = work_size(rpkt)

\* The sender can go by every result of send() that is not done: in_progress
\* is answered only when the whole packet is in the stream (so that trying
\* again sends it twice), closed and error only when it is not, unless an
\* earlier connection left its error.
OtherResultsTrue ==
  /\ sres.state = "in_progress" => sres.all
  /\ sres.state \in {"closed", "error"} => ~sres.all \/ conns > 1

\* Framing is lost for no other reasons than that receive() was handed a part of
\* a length or of a payload, that send() dropped the rest of a packet, or that
\* a length was kept from one connection to the next: otherwise what is taken
\* for a received packet is one that was sent, through would_blocks, last
\* errors that are out of date, calls made again, resets and new connections;
\* and a new connection with a new packet mends it.
TakesSent ==
  delivered' # delivered /\ ~torn' =>
    \E i \in 1 .. Smaller(next, Len(Messages)) :
      delivered' = Append(delivered, Messages[i])

Framed == [][TakesSent]_vars

-----------------------------------------------------------------------------
(* What a connection promises.                                             *)

\* The number of the message a payload is; 0 for none.
NumberOf(payload) ==
  IF \E i \in DOMAIN Messages : Messages[i] = payload
    THEN CHOOSE i \in DOMAIN Messages : Messages[i] = payload
    ELSE 0

Numbers == [n \in DOMAIN delivered |-> NumberOf(delivered[n])]

ReliableChannel == INSTANCE PacketChannel WITH
  Count <- Len(Messages), Lossy <- FALSE,
  accepted <- next - 1, received <- Numbers

LossyChannel == INSTANCE PacketChannel WITH
  Count <- Len(Messages), Lossy <- TRUE,
  accepted <- next - 1, received <- Numbers

\* Blocking sockets on a connection that stays up and hands out what was sent
\* together in one piece: the ends always agree where packets start, every
\* packet is delivered once, in order, and all of them in the end.
IsReliableChannel == ReliableChannel!FairChannelSpec /\ []~torn

\* Whatever the sockets, the stack and the network do, and however often the
\* programs connect: while the ends agree where packets start (Framed has the
\* only reasons for which they do not), what is delivered was sent, and in
\* order; and it is delivered twice only if a call of send() put all of it into
\* the stream and then answered something else than done, by a last error that
\* is out of date, so that the program sent it again.  Packets that were
\* answered with done may be missing.
IsLossyChannel == LossyChannel!ChannelSpec

-----------------------------------------------------------------------------
(* Liveness.                                                               *)

\* send() spins while ::send would block.  Because the receiver takes bytes
\* or goes away, the call always comes back, even when last errors that are
\* out of date keep it in the loop.
SendComesBack == spc = "loop" ~> spc # "loop"

-----------------------------------------------------------------------------
(* Statements of the documentation.                                        *)

\* Socket.h:172, of send(Packet&): "\return sws::SocketState::done on
\* success".  On done the packet is in the stream.
DoneMeansSent == sres.state = "done" => sres.all

\* Socket.h:182, of receive(Packet&): "\return sws::SocketState::done on
\* success".  On done a packet was received.
DoneDelivers == rgot = "all"
=============================================================================
