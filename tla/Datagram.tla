------------------------------ MODULE Datagram ------------------------------
(***************************************************************************)
(* Programs that exchange packets over UdpSockets, one per end, and a      *)
(* network that loses, doubles and reorders datagrams and brings those of  *)
(* strangers, whatever they contain.                                       *)
(*                                                                         *)
(* An end is connected to another one, and uses Socket::send and receive,  *)
(* or it uses UdpSocket::send_to and receive_from with an Address that the *)
(* last datagram, a resolver or getnameinfo gave it.  Each call makes one  *)
(* native call and is one step.                                            *)
(***************************************************************************)
EXTENDS Packet, Address, SocketError, FiniteSets

CONSTANTS
  Ends,        \* the programs, each with its socket
  At,          \* the native address that each socket is bound to
  Peer,        \* the end that it is connected to, or NoPeer
  NoPeer,
  Payloads,    \* the payloads that packets are filled with
  Forged,      \* the datagrams of strangers: where from, which bytes
  Answers,     \* what getaddrinfo may find: sequences of native addresses
  HostName,    \* what getnameinfo finds
  MaxNative,   \* the bytes of the longest datagram that the stack sends
  MaxInFlight, \* bound: what is sent with this many under way is lost
  KeepsError   \* a call that succeeds may leave the last error as it was

\* No datagram has every byte a packet may have, as UDP's own limit is lower.
\* An address of an end is more than a scope away from that of a stranger.
ASSUME DatagramAssumption ==
  /\ DatagramSize = LenMod
  /\ Peer \in [Ends -> Ends \cup {NoPeer}] /\ NoPeer \notin Ends
  /\ \A e, f \in Ends : At[e] = At[f] => e = f
  /\ \A e \in Ends : /\ IsNative(At[e]) /\ At[e].scope = 0
                    /\ Translatable(from_native(At[e]))
  /\ Payloads \subseteq Seq(Byte)
  /\ \A m \in Payloads : HeaderSize + Len(m) < DatagramSize
  /\ \A d \in Forged : \A e \in Ends : d.from # [At[e] EXCEPT !.scope = d.from.scope]
  /\ \A d \in Forged : /\ IsNative(d.from) /\ Supported(d.from)
                       /\ d.bytes \in Seq(Byte) /\ Len(d.bytes) < DatagramSize
  /\ \A found \in Answers : \A i \in DOMAIN found : IsNative(found[i])
  /\ MaxNative \in Nat /\ MaxInFlight \in Nat
  /\ KeepsError \in BOOLEAN

VARIABLES
  net,   \* the datagrams under way to the ends
  pkt,   \* the packet of each end
  addr,  \* the address of each end that is not connected
  err,   \* the last error of each end's thread
  last   \* history: the latest call, its result, and what really happened

vars == <<net, pkt, addr, err, last>>

Connected(e) == Peer[e] # NoPeer
Filled(payload) == write_data(NewPacket, payload, TRUE).pkt

-----------------------------------------------------------------------------
(* Winsock.                                                                *)

AfterSuccess(error) == {"none"} \cup (IF KeepsError THEN {error} ELSE {})

\* The stack takes a datagram.  Only those to an end are of interest.
Transmit(from, to, bytes) ==
  LET d == [from |-> from, to |-> to, bytes |-> bytes]
  IN net' \in {net} \cup (IF Cardinality(net) < MaxInFlight
                               /\ \E e \in Ends : At[e] = to
                            THEN {net \cup {d}} ELSE {})

\* The errors it may fail with; it must fail for what is too long.
TooLong(bytes) == Len(bytes) > MaxNative
SendErrors(to, bytes) ==
  IF TooLong(bytes)                THEN {"message_too_large"}
  ELSE IF \E e \in Ends : At[e] = to THEN {"would_block"}
  ELSE                                  {"network_unreachable"}

ReceiveErrors == {"would_block", "connection_reset"}

\* What a socket may be handed; from its peer only if it is connected.
Arriving(e) ==
  {d \in net : d.to = At[e] /\ (Connected(e) => d.from = At[Peer[e]])}

Lose == \E d \in net : net' = net \ {d} /\ UNCHANGED <<pkt, addr, err, last>>

Forge ==
  /\ \E d \in Forged, e \in Ends :
       /\ Cardinality(net) < MaxInFlight
       /\ net' = net \cup {[from |-> d.from, to |-> At[e], bytes |-> d.bytes]}
  /\ UNCHANGED <<pkt, addr, err, last>>

-----------------------------------------------------------------------------
(* Sending.                                                                *)

Outgoing(e) == {Filled(m) : m \in Payloads} \cup {pkt[e]}

\* What a call answered, and what became of the packet.
Answered(op, e, state, fate) ==
  last' = [op |-> op, end |-> e, state |-> state, fate |-> fate]

\* Mutant: the connected send answers done, as send_to does.
SendUnlooked(e, p) ==
  /\ Connected(e) /\ ~empty(p)
  /\ \/ /\ ~TooLong(Flat(p))
        /\ Transmit(At[e], At[Peer[e]], Flat(p))
        /\ err' = [err EXCEPT ![e] = "none"]
        /\ Answered("send", e, "done", "moved")
     \/ /\ \E error \in SendErrors(At[Peer[e]], Flat(p)) :
             err' = [err EXCEPT ![e] = error]
        /\ Answered("send", e, "done", "none")
        /\ UNCHANGED net
  /\ UNCHANGED <<pkt, addr>>

\* Socket::send(Packet&) of a connected UDP socket does not look at what ::send
\* returns; it answers with the last error, be it from an earlier call.
send(e, p) ==
  /\ Connected(e) /\ ~empty(p)
  /\ \/ /\ ~TooLong(Flat(p))
        /\ Transmit(At[e], At[Peer[e]], Flat(p))
        /\ \E error \in AfterSuccess(err[e]) :
             /\ err' = [err EXCEPT ![e] = error]
             /\ Answered("send", e, to_state(error), "moved")
     \/ /\ \E error \in SendErrors(At[Peer[e]], Flat(p)) :
             /\ err' = [err EXCEPT ![e] = error]
             /\ Answered("send", e, to_state(error), "none")
        /\ UNCHANGED net
  /\ UNCHANGED <<pkt, addr>>

\* UdpSocket::send_to(const Packet&, const Address&).
send_to(e, p, a) ==
  /\ ~Connected(e) /\ ~empty(p)
  /\ \/ /\ ~Translatable(a)
        /\ Answered("send_to", e, "threw", "none")
        /\ UNCHANGED <<net, err>>
     \/ /\ Translatable(a) /\ ~TooLong(Flat(p))
        /\ Transmit(At[e], to_native(a), Flat(p))
        /\ \E error \in AfterSuccess(err[e]) : err' = [err EXCEPT ![e] = error]
        /\ Answered("send_to", e, "done", "moved")
     \/ /\ Translatable(a)
        /\ \E error \in SendErrors(to_native(a), Flat(p)) :
             /\ err' = [err EXCEPT ![e] = error]
             /\ Answered("send_to", e, to_state(error), "none")
        /\ UNCHANGED net
  /\ UNCHANGED <<pkt, addr>>

\* Both answer done for an empty packet, and hand nothing to the stack.
SendEmpty(e, p) ==
  /\ empty(p)
  /\ Answered(IF Connected(e) THEN "send" ELSE "send_to", e, "done", "empty")
  /\ UNCHANGED <<net, pkt, addr, err>>

-----------------------------------------------------------------------------
(* Receiving.                                                              *)

\* Mutant: the length inside the datagram is not compared with its size.
SizeUnchecked(bytes) == Len(bytes) >= HeaderSize

\* A datagram of n bytes says so in its first two.
SizeRight(bytes) ==
  Len(bytes) >= HeaderSize /\ Number(bytes) = (Len(bytes) % LenMod) - HeaderSize

\* The whole datagram, its length too, is copied over a cleared packet: the
\* header is what the datagram says.
Copied(p, bytes) ==
  LET sized == resize(clear(p).pkt, Len(bytes)).pkt
  IN  write_data([sized EXCEPT !.write_pos = 0], bytes, TRUE).pkt

\* Socket::receive_datagram_packet, for a native call that brought bytes: none
\* of them is taken for an error, which there need not be.
receive_datagram_packet(op, e, bytes) ==
  \/ /\ bytes = << >>
     /\ Answered(op, e, to_state(err'[e]), "void")
     /\ UNCHANGED pkt
  \/ /\ bytes # << >> /\ ~SizeRight(bytes)
     /\ Answered(op, e, "threw", "none")
     /\ UNCHANGED pkt
  \/ /\ SizeRight(bytes)
     /\ Answered(op, e, "done", "moved")
     /\ pkt' = [pkt EXCEPT ![e] = Copied(@, bytes)]

\* The native call fails.
Unreceived(op, e) ==
  /\ \E error \in ReceiveErrors :
       /\ err' = [err EXCEPT ![e] = error]
       /\ Answered(op, e, to_state(error), "none")
  /\ UNCHANGED <<net, pkt, addr>>

\* The native call takes d; the network may have doubled it.
Received(op, e, d) ==
  /\ net' \in {net, net \ {d}}
  /\ \E error \in AfterSuccess(err[e]) : err' = [err EXCEPT ![e] = error]
  /\ receive_datagram_packet(op, e, d.bytes)

\* Socket::receive(Packet&) of a connected UDP socket.
receive(e) ==
  /\ Connected(e)
  /\ \/ Unreceived("receive", e)
     \/ \E d \in Arriving(e) : Received("receive", e, d) /\ UNCHANGED addr

\* UdpSocket::receive_from(Packet&, Address&): the address is stored before
\* the datagram is looked at.
receive_from(e) ==
  /\ ~Connected(e)
  /\ \/ Unreceived("receive_from", e)
     \/ \E d \in Arriving(e) :
          /\ addr' = [addr EXCEPT ![e] = from_native(d.from)]
          /\ Received("receive_from", e, d)

-----------------------------------------------------------------------------
(* Addresses.                                                              *)

\* The program looks up a host, and takes one of the addresses found.
Resolve(e) ==
  /\ ~Connected(e)
  /\ \E found \in Answers :
       LET r == get_addresses(found)
       IN \/ r.threw /\ UNCHANGED addr
          \/ ~r.threw /\ \E i \in DOMAIN found :
                           addr' = [addr EXCEPT ![e] = r.addresses[i]]
  /\ UNCHANGED <<net, pkt, err, last>>

\* It asks for the name of the host it knows, and puts up with an exception.
GetName(e) ==
  /\ ~Connected(e) /\ Translatable(addr[e])
  /\ addr' = [addr EXCEPT ![e] = get_name(@, HostName)]
  /\ UNCHANGED <<net, pkt, err, last>>

-----------------------------------------------------------------------------

Init ==
  /\ net  = {}
  /\ pkt  = [e \in Ends |-> NewPacket]
  /\ addr = [e \in Ends |-> DefaultAddress]
  /\ err  = [e \in Ends |-> "none"]
  /\ last = [op |-> "none", end |-> NoPeer, state |-> "unasked", fate |-> "none"]

Sends(e) ==
  \E p \in Outgoing(e) : send(e, p) \/ send_to(e, p, addr[e]) \/ SendEmpty(e, p)

Next ==
  \/ \E e \in Ends : \/ Sends(e) \/ receive(e) \/ receive_from(e)
                     \/ Resolve(e) \/ GetName(e)
  \/ Lose \/ Forge

Spec == Init /\ [][Next]_vars

-----------------------------------------------------------------------------
(* Properties.                                                             *)

\* Packets are packets, with no cursor or header lost by receiving over them,
\* addresses have ports that fit, and what is under way goes to an end.
TypeOK ==
  /\ pkt \in [Ends -> PacketType]
  /\ \A e \in Ends :
       /\ verify_size(pkt[e])
       /\ pkt[e].read_pos = HeaderSize /\ pkt[e].write_pos = real_size(pkt[e])
       /\ addr[e].port \in Ports
  /\ err \in [Ends -> {"none", "would_block", "connection_reset",
                      "message_too_large", "network_unreachable"}]
  /\ \A d \in net : d.bytes \in Seq(Byte) /\ \E e \in Ends : d.to = At[e]

\* What a program may conclude from the result of a call.  Done says that the
\* stack has the packet or that the packet was received, but for two cases: an
\* empty packet, of which nothing is sent, and an empty datagram, after which
\* the last error is answered.  Any other result says that nothing was sent or
\* received, but for one: the connected send, which looks at nothing but the
\* last error, denies what it sent if there is one.
Truthful ==
  /\ last.state = "done" => last.fate \in {"moved", "empty", "void"}
  /\ last.fate = "empty" => last.state = "done"
  /\ last.fate = "moved" /\ last.state # "done" =>
       /\ last.op = "send"
       /\ err[last.end] # "none" /\ last.state = to_state(err[last.end])

\* That error is then one of an earlier call.
StaleOnly ==
  last'.fate = "moved" /\ last'.state # "done" =>
    err'[last'.end] = err[last'.end]

ResultsTrue == [][Truthful' /\ StaleOnly]_vars

-----------------------------------------------------------------------------
(* What the sockets promise.                                               *)

\* A datagram that is a packet with a given payload; the bytes behind a length.
IsPacket(bytes, body) == bytes = Digits(Len(body)) \o body
Behind(bytes)         == SubSeq(bytes, HeaderSize + 1, Len(bytes))

\* The payloads that packets can have: those that programs fill them with, and
\* what strangers make up.
Bodies ==
  Payloads \cup {<< >>} \cup
    {Behind(d.bytes) : d \in {f \in Forged : IsPacket(f.bytes, Behind(f.bytes))}}

\* Who has a native address, and who is named by an address.
Who(n)    == IF \E e \in Ends : At[e] = n THEN CHOOSE e \in Ends : At[e] = n
                                         ELSE NoPeer
Named(a)  == IF Translatable(a) THEN Who(to_native(a)) ELSE NoPeer

\* The datagrams under way that are packets, and what they are to the ends.
Carriers(ds) == {d \in ds : \E body \in Bodies : IsPacket(d.bytes, body)}
Message(d)   == [from |-> Who(d.from), to |-> Who(d.to), body |-> Behind(d.bytes)]
Messages(ds) == {Message(d) : d \in Carriers(ds)}
Transit      == Messages(net)

Held  == [e \in Ends |-> pkt[e].body]
Heard == [e \in Ends |-> IF Connected(e) THEN Peer[e] ELSE Named(addr[e])]

Service == INSTANCE DatagramService WITH
             Outside <- NoPeer, transit <- Transit, held <- Held, heard <- Heard

\* What a program receives was sent to it, whole, by the end that the address
\* it gets names, and a reply goes back there, although addresses pass through
\* text, host byte order and the network's; a datagram that is not a packet,
\* an exception or a failure leaves the packet the program has.
IsDatagramService == Service!ServiceSpec

-----------------------------------------------------------------------------
(* Strings of addresses.                                                   *)

Reachable ==
  {a \in {from_native(At[e]) : e \in Ends} \cup {addr[e] : e \in Ends} :
     Translatable(a)}

\* No port is taken for a part of a host: two addresses that a program can send
\* to have different strings, with brackets or without.
NamesApart ==
  \A a, b \in Reachable : a # b => to_string(a) # to_string(b)

\* Address.h:125-127: "For example, the address "::1" and port 8080 become
\* "[::1]:8080"".  An IPv6 address that has a port is written in brackets.
BracketedWithPort ==
  \A a \in Reachable :
    a.family = "inet6" /\ a.port # 0 =>
      to_string(a) = <<"[">> \o a.address \o <<"]", ":">> \o Decimal(a.port)
=============================================================================
