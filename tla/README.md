# Verification of simple-winsock-wrapper

TLA+ models, model-checking runs and machine-checked proofs for the C++ library
in `src/` (namespace `sws`): packets with typed reads and writes, and TCP and
UDP sockets that exchange them. The library has no tests and no README; the
promises the properties compare the code with are the doc comments of its
headers.

## 1. The system

| Component | Source | State | Operations that change it |
|---|---|---|---|
| Packet | `sws/Packet.cpp`, `include/sws/Packet.h` | `data_` (two length bytes, then the payload), `read_pos_`, `write_pos_`, `send_pos_`, `recv_pos_`, `recv_target_` | construct, copy, move; `read*`, `operator>>`; `write*`, `operator<<`; `seek`; `clear`; `resize`; `reserve`, `shrink_to_fit`; the private positions the socket keeps |
| Socket, packets over TCP | `sws/Socket.cpp` | `native_error_`, the native socket, the thread's last Winsock error | `send(Packet&)`, `receive(Packet&)`, `close` |
| Socket, life cycle | `sws/Socket.cpp`, `sws/TcpSocket.cpp` | `socket_`, `connected_`, `blocking_`, the two addresses, `is_initialized_` | construct, move, `initialize`, `cleanup`, `bind`, `connect`, `listen`, `accept`, `blocking`, `close` |
| Packets over UDP | `sws/UdpSocket.cpp`, `Socket::receive_datagram_packet` | `datagram_` buffer, the sender's address | `send_to`, `receive_from`, and `send`/`receive` of a connected UDP socket |
| Raw loops | `sws/TcpSocket.cpp` | a running total | `send_all`, `receive_all` |
| SocketError | `include/sws/SocketError.h` | none | `to_state` |
| Address | `sws/Address.cpp` | address text, port, family | conversions from and to the native forms, `resolve` |
| enforce, SocketException | `sws/enforce.cpp`, `sws/SocketException.cpp` | none | throw with a message |

**How they interact.** The program calls a packet's member functions; all of
them are synchronous and a packet is not shared between threads. A socket is a
friend of the packet: `send` and `receive` read `data_`, and keep the progress
of a transfer in the packet's own `send_pos_`, `recv_pos_` and `recv_target_`,
not in the socket. Between `::send` and `::recv` calls the peer, the network
and the thread's last error change. `WSAGetLastError` is shared state of a kind
of its own: the library asks for it after calls that succeeded too, and what it
then reads may be left over from an earlier call.

**What is hard.**

- *Packet*: every write ends in `update_size`, which writes the header through
  the same write path, with the write cursor moved to 0 and then sought back.
  Both of its steps can throw half-way. Sizes and positions are unsigned and
  subtracted. Programs may catch an exception and go on with the packet.
- *TCP*: partial sends and receives, `would_block`, a loop that spins, the end
  of the stream, a reset, and the last error as the only result.
- *Life cycle*: operations that fail half-way and are called again; moved-from
  sockets.
- *UDP*: datagrams from anyone, and results of `::send` that are not looked at.
- *Raw loops*: two peers that both send first.

**What makes each component correct.**

- *Packet*: the length in front of the payload is the payload's; cursors move by
  what a call says it moved and stay usable; bytes already written stay as they
  are, also when a call throws; `clear` recovers; used from front to back it is
  a first-in first-out byte queue.
- *TCP*: while both ends agree where packets start, packets come out in order,
  and are ones that went in; none comes out twice unless the sending program was
  told to try again; between blocking sockets on a connection that stays up and
  hands them out whole, all of them come out; the result of a call tells what
  happened to the packet; `send` returns.
- *Life cycle*: no handle is leaked or used after it was closed, `connected_`
  agrees with the connection, a failed operation can be tried again.
- *UDP*: a packet that is accepted is one that was sent, whole.
- *Raw loops*: `true` means all bytes; the loops end unless both ends wait.

The hazards behind these, each at its line, are listed in `PROJECT.json`.

## 2. Modules

| Module | Models |
|---|---|
| `Packet` | The packet as a record, and every member function as an operator that yields an *outcome*: the packet afterwards, the value returned, whether `enforce` threw, the bytes taken out. |
| `PacketApi` | A program that owns some packets and calls these functions in any order, one action per member function, catching what is thrown. |
| `ByteQueue` | Abstract: a bounded first-in first-out queue of bytes whose calls say which bytes went in or came out. `PacketApi` instantiates it with the unread payload of each packet and the room behind it. |
| `MCPacketApi` | Constant values. |
| `PacketLemmas` | What each operation does with a single packet: lemmas about `Packet` that the proofs about programs, TCP and UDP share. |
| `PacketProofs` | Theorems about `PacketApi`. |
| `SocketError` | `to_state`. |
| `TcpChannel` | A sending and a receiving program on a TCP connection: `Socket::send(Packet&)` and `Socket::receive(Packet&)`, one step per native call, the byte stream between them, the last error of each end. Uses `Packet` and `SocketError`. |
| `PacketChannel` | Abstract: a channel of numbered packets, lossy or not, for as long as its ends agree where packets start. `TcpChannel` instantiates both with the packets that were accepted, doubtful and delivered. |
| `MCTcpChannel` | Constant values. |
| `TcpChannelProofs` | Theorems about what each end of `TcpChannel` keeps between native calls. |
| `FramingProofs` | The theorem about where packets start in the stream. |
| `OrderProofs` | That `TcpChannel` implements `PacketChannel`, as far as it is safety. |
| `SocketLifecycle` | `TcpSocket` objects and the native sockets they own: construction, move, `initialize`, `cleanup`, `bind`, `connect`, `listen`, `accept`, `blocking`, `close`. Uses `SocketError`. |
| `MCSocketLifecycle` | The view and the symmetry of its run. |
| `SocketLifecycleProofs` | Theorems about `SocketLifecycle`. |
| `SendAll` | `TcpSocket::send_all` and `receive_all` at both ends of a connection, one step per native call. |
| `MCSendAll` | The messages and the programs of its run. |
| `SendAllProofs` | Theorems about `SendAll`. |
| `Address` | The conversions of addresses from and to the native forms, `get_addresses`, `get_name`, `is_numeric` and `to_string`, as operators. |
| `Datagram` | Programs that exchange packets over UDP sockets, connected or not: `send`, `receive`, `send_to`, `receive_from`, and a network that loses, doubles, reorders and brings datagrams of strangers. Uses `Packet`, `Address` and `SocketError`. |
| `DatagramService` | Abstract: packets posted to an end, received whole or not at all, with the address of who posted them. `Datagram` instantiates it with the datagrams that are packets. |
| `MCDatagram` | Constant values. |
| `DatagramProofs` | Theorems about `Datagram`. |

Definitions keep the source's names (`update_size`, `read_data`, `recv_target`,
`to_state`). `PROJECT.json` maps each of them to its lines. Operators marked
*Mutant* in a comment are plausible wrong versions of the definition below
them; nothing uses them. They are there to show that each property can fail.

### How the models correspond to the code

**Packet.** `data_` is split into `header`, the number in its first two bytes,
and `body`, the rest; a vector that was moved away is `header = NoHeader` with
an empty body. Cursors keep the code's positions, counted from the start of
`data_`. A byte has `Radix` values and a length `Radix * Radix`, so the length
field and the signed length of a string keep their width. `update_size` is its
two calls in order: `operator<<` at position 0, which throws on a full packet
and leaves the cursor at 0, and the checked `seek`, which throws on a cursor
that is out of range and leaves it behind the header. A write at position 0
(`AtFront`) writes the header itself and does not update it (`Packet.cpp:236`);
one behind it (`AtCursor`) does. `read_data` with the cursor behind the end
wraps, as the unsigned subtraction does; the bytes it then copies are arbitrary
(`beyond`). The two operands of the `+` in `write(const std::string&)` are
unsequenced, so both orders are steps. Each typed overload of `read`, `write`,
`operator>>` and `operator<<` is the same template with another `sizeof`: it is
an action with a size or a byte string.

**TCP.** `SendFirst` is the first `::send` of `send(Packet&)` with the code up
to the next native call, `SendMore` one turn of the loop, `RecvHeader` and
`RecvBody` the two `::recv` calls of `receive(Packet&)`. A call that can end
after either of them ends inside that action (`SendReturns`, `ReceiveReturns`),
where the state of the last error is computed, `native_error_` stored, the
positions reset, and the program decides what to do next. `::send` and `::recv`
are external: `::send` takes some of the bytes the stream has room for or fails
with `would_block` or a reset, `::recv` hands out bytes that have arrived, 0 at
the end of the stream, or fails. `AfterSuccess` says that a call that succeeds
either leaves the last error alone or clears it. `Arrive` moves bytes from the
stream to the receiver; `Reset` breaks the connection.

The programs follow the documented meaning of the result: `done` is success,
`in_progress` is tried again with the same packet, anything else ends the
exchange. This is what turns a wrong result of the library into a packet that is lost or
doubled; `PacketChannel` says when that may happen. A program that ends the
exchange closes its socket (`SenderAborts`, `ReceiverCloses`), and what reaches
a closed socket breaks the connection. `Reconnect` makes a further connection
with the packets and last errors as the first one left them: `clear` does not
reset `recv_target_` (`Packet.cpp:510`), so a receiver that does not make a new
packet takes the length of the old connection along. `torn` and `doubtful` are
history variables: `torn` is set when the ends stop agreeing where packets
start, `doubtful` collects the messages that a `send` put into the stream whole
and answered with something else than `done`. `native_error_` is left out; only
its getter reads it.

**Life cycle.** `socks` holds the fields of each object, `native` the state of
each native socket: whether it is free, idle, connecting, connected, has lost
its connection or listens, whether it is bound, its mode and its peer. A call
is one action; every native call in it may fail, and the action then ends where
the code returns or throws: `init_socket` and `update_addresses` are sets of
outcomes, used by the calls that make them. Between calls, attempts to connect
end (`Settles`) and connections break (`Breaks`). Addresses are abstract: none,
the socket's own, a peer's, or `Hollow`, what a move leaves (the text is gone,
port and family stay). An address that cannot be converted throws before
anything changes, and `WSAStartup` or `WSACleanup` failing changes nothing: no
step. `native_error_` is left out; only its getter reads it.

**Raw loops.** `send_all` and `receive_all` are turns of the two loops: a turn is
one native call that transfers some bytes. `Complete`, `ReceiveNothing` and
`Fail` are the ways out of a loop, `Retry` is the turn that is made again after
`would_block`. A blocking `::send` returns only when it has taken everything, so
what it took so far (`taken`) is kept apart from what the loop counts (`total`):
the bytes are in the stream, and the loop does not know of them. The two
programs, one or two calls each in either order, their messages and the modes of
their sockets are chosen in `Init`. `Refused` is the reset that a socket
answers with when bytes reach it after it was closed.

**UDP.** Each call makes one native call and is one step. `send` is
`Socket::send(Packet&)` for a UDP socket (`Socket.cpp:157`): it does not look at
what `::send` returns and answers with the last error. `send_to` does look. Both
answer `done` for an empty packet without a native call (`SendEmpty`). `receive`
and `receive_from` take one datagram or fail; `receive_from` stores the sender's
address first, then `receive_datagram_packet` looks at the bytes: none, a length
that is not theirs, which throws, or a packet, copied over the cleared one with
the header that it brings (`Copied`): the copy is a write at position 0, so that
a datagram with a wrong length, if it were let through, would make a packet with
a wrong header. `Resolve` and `GetName` are the other ways in which a program
comes by an address. `Lose` and `Forge` are the network; a datagram that is
taken may stay in it, so it arrives again.

**Address.** A text is a sequence of characters, since the format is what the
property is about; a port is two bytes, swapped by `htons` and `ntohs`. The scope
of an IPv6 address is lost by `to_native` (`Address.cpp:248`). `is_numeric` is
its two loops as they are: they look at the characters only. `Decimal` writes a
port without recursion, from the number of its digits, so that it can be
reasoned about. `InetText` and `Inet6Text` say of the hosts what the library
relies on in `inet_ntop`: an IPv4 host has no colons, an IPv6 one has at least
two, never three in a row, and none behind a dot. They and the 16 bits of a port
are `AddressAssumption`, which TLC evaluates for the hosts of the run.

## 3. Runs

| Run | Question | Bounds |
|---|---|---|
| `packet_api` | Do header, cursors and data survive every sequence of calls on two packets, with overflows, failed reads, seeks, resizes, copies, moves and appends; does `clear` always recover? | 3 byte values, 5 bytes per packet; no two packets with more than a byte of payload at once |
| `packet_stream` | Are packets used from front to back byte queues (`ByteQueue`), and does each call, a failing one too, put in or take out the bytes it should? | 2 packets, 6 bytes |
| `packet_fill` | *Fails.* Is a value that fits reported as written? | 6 bytes |
| `tcp_blocking` | Do blocking sockets on a connection that stays up and hands out in one piece what was sent together deliver every packet once and in order, in the end? | 7 messages, 12 bytes in the stream; no splits |
| `tcp_split` | With sends and arrivals in pieces, `would_block`, a reset and stale last errors: do the positions kept between native calls stay right, can the sender trust results other than `done`, does `send` come back, what are all the ways to lose framing, and are packets in order and not doubled otherwise? | 2 messages, 4 bytes, 2 connections, the first may be reset; the receiver keeps its packet and closes after 3 |
| `socket_lifecycle` | Is every native socket owned by exactly one object, whatever fails; do `connected_`, `blocking_` and the addresses agree with it; do the answers of `bind`, `connect` and `listen`? | 2 objects, 3 native sockets, 2 peers |
| `send_all` | Do the loops transfer every byte once and in order, can `true` be trusted, and exactly when do two programs wait for each other for ever? | messages of 0, 2 and 4 bytes, 2 bytes in each direction, all programs and modes |
| `datagram` | Is what is received a packet that the end its address names sent to the receiver, does a reply go back there, does anything else leave the packet alone, and what does an answer tell? | one end connected to one that is not, strangers, 2 datagrams under way |
| `tcp_done_unsent` | *Fails.* Does `done` mean that the packet was sent? | 2 messages, 4 bytes |
| `tcp_done_empty` | *Fails.* Does `done` mean that a packet was received? | 2 messages, 4 bytes |
| `listen_done` | *Fails.* Does `done` mean that the socket listens? | as `socket_lifecycle` |
| `address_brackets` | *Fails.* Is an IPv6 host with a port written in brackets? | as `datagram` |

**The bounds and why they are enough.** `Radix = 3` gives nine lengths, of which
4 to 8 are negative as `int16_t`; the bytes written include ones that form such
a length, 0 and 1 (a valid `bool`). `DatagramSize` is small enough that a few
writes overflow a packet, from every cursor position, and large enough for a
string with its length and, in `packet_stream`, one more byte. `resize` shrinks
and extends to one byte of payload, and is asked for more than the maximum.
`MaxReadPos` lets the read cursor pass the end of the data after a `resize` by
at least the largest read; further on, every read wraps in the same way and only
the number changes. `VIEW View` identifies states that differ in the history
variable `last` alone: no action reads it, and the properties read its new value
only. In the TCP runs `Cap` holds one packet to two, so a second send meets a
full stream, and the messages differ in length and contents, so that bytes of
one taken for a length or a payload of another are noticed. `Wanted` is the
number of packets the receiver takes before it closes: it is above the number of
messages where the receiver should wait for the end of the stream, and in
`tcp_split` so that a message can come out twice and another one after it.
`OneSmall` is a constraint of `packet_api`: of two packets, one has at most a
byte of payload. Appended to the other one it can still fill it, overflow it or
be refused, and a packet of any size can be copied or moved over it. In
`socket_lifecycle` two objects move and accept into each other, and `accept`
needs a third native socket while both hold one; with two peers an address that
belongs to an earlier connection can be told from the current one. In `send_all`
the connection holds 2 bytes in each direction: a message of 2 fits exactly, one
of 4 takes several turns, one of 0 none. In `datagram` `DatagramSize` is the
number of values of a length, as in the code (65536, `Socket.h:47`); `MaxNative`
lies between the packets of the two payloads, so the stack refuses the longer
one. Strangers send nothing at all, half a length, a datagram that was cut, and
a packet; their address has a scope, which the conversions lose, the ends' have
none. Ports are two bytes of 3 values, and one host is written like another one
with the port of an end behind it. `MaxInFlight` 2 lets datagrams pass each
other; what is sent beyond it is lost, which the network may do at any time.
`VIEW View` leaves out the history of the latest call here too.

**Deadlock** is checked where the model should never stop. It is off for
`tcp_split` and the two violation runs about TCP, where both
programs can come to an end, and for `send_all`, where they do too, or wait for
each other for ever: that case is the subject of `NeitherReturns` and
`ExchangeEnds`, which say more than a deadlock check.

**Fairness** (`FairSpec`). `WF(Sender)` and `WF(Receiver)`: a program that can
go on does, which is the scheduling of two processes. `WF(SendMore` *taking
bytes*`)`: `::send` does not answer `would_block` for ever while the stream
keeps room; the loop in `send` calls it again and again. `WF(Arrive)`: what TCP
accepted arrives while the connection stands. Nothing is assumed of resets, of
how a send is split, or of the last error. In `SendAll`, `WF(Proceed(e))` for each
end is its program's scheduling and that a native call does not refuse for ever
what it could do, and `WF(Refused)` that the reset of a closed socket arrives.
Nothing is assumed of other breaks. `Datagram` has no liveness: UDP promises none.

**What the passing runs show.** `packet_api`: `HeaderTracksSize` and
`WriteCursorInBuffer` hold with one exception, which both name: a packet filled
to `datagram_size`, whose header can no longer be written. `CursorsMoveByReturn`
and `EarlierBytesKept` hold even for calls whose second half throws, except that
a string read which runs out of characters has consumed the string's length and
says 0. `packet_stream` is exact about the bytes: a raw write puts in what there
is room for, a value or a packet all or nothing, and a string that fails leaves
the one of its two parts that fitted, or none (with the characters written
first, they can be there without their length); the write that fills a packet
throws with its bytes stored; a read that fails takes nothing, but for the
length of a string and the byte of a `bool`. `tcp_blocking` implements the
reliable `PacketChannel` with its liveness, where no segment is split.
`tcp_split` shows what holds with everything the code may meet: positions never
leave the packet, `send_pos_` never leaks from one call to the next, an answer
`in_progress` comes only with the whole packet in the stream (so the documented
retry sends it twice), and the spinning loop returns. `Framed` shows that the
ends lose each other's place for three reasons only: a `send` that returns after
a part of the packet, a `::recv` that brings a part of a length or of a payload,
and a packet that brings its length from an earlier connection. `IsLossyChannel`
adds the order: while they have not lost it, packets come out in the order they
were sent in, some may be missing, and one comes out twice only if `send`
answered something else than `done` for it with all of it in the stream. When
they have lost it, what comes out may be anything, and neither property says
more. With two connections it also shows what a last error does that outlives
the connection it belongs to: a `send` whose packet is in the stream whole may
be answered `closed`, so `closed` tells the truth on a first connection only
(`OtherResultsTrue` says so). `socket_lifecycle` shows that nothing leaks,
though a `bind` that fails and an `init_socket` that throws leave the native
socket in the object, and that `blocking_` differs from the native mode only
after `ioctlsocket` refused. It also bounds what an answer means: a `connect`
that is repeated until it is `done` has its connection but not `connected_`
(`Socket.cpp:113`). `AnswersTrue` says nothing of a `listen` on a socket that
has its connection: that is `listen_done`. `send_all` gives the deadlock of two
peers exactly: they wait for ever if both send first, each more than the
connection holds, or both receive first and neither message is empty
(`NeitherReturns`), and in no other case (`ExchangeEnds`), whatever the modes
and the way native calls split. Why is said by two properties that need no
fairness: in every other state one end can go on or a reset is on its way
(`NobodyStuck`), and each turn that is not made again brings its end nearer to
its last answer (`TurnsRunOut`). A `false` never comes from a call that would
have to wait. `datagram` implements `DatagramService`: nothing is taken for a
packet that was not sent as one, though addresses pass through text and two byte
orders. A program can rely on `done` (`ResultsTrue`), but for an empty packet,
of which nothing is sent, and an empty datagram; and on `send_to` not having
sent otherwise. A connected `send` may deny a packet it sent, but only by an
error that an earlier call left. `NamesApart` holds although `is_numeric` does
not take `::` for numeric and `to_string` then writes `:::2`
(`address_brackets`): no other address reads so.

**What the failing runs show** (`findings` in `PROJECT.json`).

- `packet_fill`: `update_size` (`Packet.cpp:573`) writes the header with
  `operator<<`, which fails on a full packet. The call that fills a packet
  stores its bytes, throws, and leaves the old length in the header.
- `tcp_done_unsent`: the first `::send` (`Socket.cpp:162`) is only looked at when
  it is positive. When it fails, nothing remains to be sent as far as
  `get_send_remainder` can tell, and `done` is returned.
- `tcp_done_empty`: at the end of the stream `::recv` returns 0 and leaves no
  error, so `receive` answers `done` with an empty packet (`Socket.cpp:219`).
- `listen_done`: `::listen` on a socket that has its connection fails with
  `WSAEISCONN`, which `to_state` makes `done` (`TcpSocket.cpp:17`).
- `address_brackets`: `is_numeric` wants a digit (`Address.cpp:299`), so `::` is not
  numeric, and `to_string` writes it with a port but without brackets.

**Behaviour that the models contain and that no property forbids.** A send that
takes three `::send` calls is dropped after the second one with `done`
(`Socket.cpp:187`). A payload that arrives in pieces is answered with `done`,
and the rest of it overwrites its start (`Socket.cpp:223`). A single byte of a
length is lost (`Socket.cpp:209`). An empty string can be written and not read
back (`Packet.cpp:127`). `resize` leaves the read cursor behind the end
(`Packet.cpp:551`), from where `read_data` grants any request. An empty datagram
is answered by `receive_from` with the last error, so usually with `done`, the
packet of an earlier call and the address of somebody else (`Socket.cpp:352`;
`ResultsTrue` names it as the exception). A `receive_from` that throws has stored
the address of the sender (`UdpSocket.cpp:45`), to whom a reply then goes. A
`send_all` that answers `false` does not tell how much was sent. A seek of both
cursors that throws has moved the read cursor (`Packet.cpp:63`). A length that is
too large makes every later receive into the packet throw (`Socket.cpp:222`). A
socket that was moved from keeps port and family of its old peer, and `blocking_`
keeps a mode that was refused. The first three
are what sets `torn`, with a length kept from an earlier connection: `PacketChannel`
promises nothing of what comes out behind them.

## 4. Proofs

**Packets.** `PacketProofs` proves, for every `Radix >= 2`, every `DatagramSize`
above the header's size and not above the values of a length, any set of packets
and any arguments, from the assumptions `PacketAssumption` and
`PacketApiAssumption` alone:

| Theorem | States |
|---|---|
| `Soundness` | `Spec => []AllSound`, the inductive invariant |
| `TypeCorrect` | `Spec => []TypeOK` |
| `HeaderTracks` | `Spec => []HeaderTracksSize` |
| `WriteCursorStays` | `Spec => []WriteCursorInBuffer` |
| `ClearAlwaysRecovers` | `Spec => ClearRecovers`, an action property |
| `CursorsMoveAsSaid` | `Spec => CursorsMoveByReturn`, an action property |
| `EarlierBytesStay` | `Spec => EarlierBytesKept`, an action property |
| `StaysInOrder` | `StreamSpec => []InOrder`, the invariant of programs that use packets from front to back |
| `PacketsAreQueues` | `StreamSpec => IsByteQueue`, the refinement of `ByteQueue` |

*Argument.* `HeaderTracksSize` is not inductive: a write goes through
`update_size`, whose final seek depends on the write cursor being in the data,
and `WriteCursorInBuffer` in turn depends on the packet not being larger than
`datagram_size` (`full` compares for equality) and on the writes being cut to
the room that is left. `Sound` adds to the two: the size bound, that a
moved-away packet has no payload, that the read cursor is behind the header, and
that the write cursor is at most `datagram_size` even in a moved-away packet. It
is a predicate of one packet, and the proof has that structure: a lemma says that
`update_size` makes a sound packet of a record that is sound but for its header;
from it follow lemmas for `resize`, `write_data`, `seek` and `clear`, from those
the ones for the calls built from them, and `Soundness` has one step per action.
`packet_api` checks `AllSound` as an invariant.

The two action properties need nothing more: for each call on a sound packet a
lemma says where the cursors are afterwards and which bytes are the same, on
every path through `update_size`, and one more puts the calls together
(`EveryCall`). A queue is the payload behind the read cursor (`Unread`). That a
write goes to its back needs the write cursor to be at the end of the data, and
that a read comes from its front the read cursor not to be behind it, so
`InOrder` says both; it is inductive together with `AllSound` for the calls of
`StreamSpec`, which neither seek nor resize. `ByteQueue` determines the queue
after each call and what it answers, also when it throws; so for each call there
is a lemma that says which bytes it leaves, and the room behind them, on every
path: where a string is cut between its two parts, in either order, and where
the write that fills the packet throws with its bytes stored.

**Packets over TCP.** `TcpChannelProofs`, `FramingProofs` and `OrderProofs`, for
any messages of at most `DatagramSize - 3` bytes, any capacity that holds the
largest, blocking or not, with or without splitting, and any number of resets and
connections, from `PacketAssumption` and `TcpChannelAssumption`:

| Theorem | States |
|---|---|
| `PlacesKept` | `Spec => []Placed`, the inductive invariant |
| `ChannelTypes` | `Spec => []TypeOK` |
| `SendKeepsPlace` | `Spec => []SendPlace` |
| `ReceiveKeepsPlace` | `Spec => []ReceivePlace` |
| `ResultsOtherThanDone` | `Spec => []OtherResultsTrue` |
| `PacketsAreFramed` | `Spec => Framed`, an action property |
| `PacketsInOrder` | `Distinct => (Spec => IsLossyChannel)`, the refinement of the lossy `PacketChannel` |
| `NoPacketIsLost` | `Distinct /\ Patient => (Spec => ReliableChannel!ChannelSpec)`, that of the other one without its fairness |

*Argument.* `Placed` ties the sender's packet to the message it works on
(`Carries`), says of the receiver's that it is sound, that its length is none or
a length, and that a position is inside a payload of that length (`Expecting`),
and that a connection that is gone has lost its bytes. `OtherResultsTrue` is in
it because its truth about `closed` depends on where the last error is from
(`OldError`).

`Framed` needs to know where packets start in bytes that do not say so. `Framing`
has a set of *cuts* in all that is on its way, the rest of a packet in the loop
of `send` included: from each cut but the last, a message with its length goes to
the next one. Sending adds a cut at the end, taking a length and then its payload
brings the receiver to the next one, and each way of taking a part sets `torn`.
While it is not set, what `receive` stores is what is between two cuts, a message.

That says of each delivery that it is *some* message. `Ordered` says which: while
the ends agree and the connection stands, cuts become a *trail* (`Follows`), where
each start has the number of its message, the numbers grow along it, and are above
those of what was delivered and not above that of what the sender works on; the
same number may follow itself only if it is in `doubtful`. A message that is
answered with `done` and not sent, or taken out of the stream and answered with
`in_progress`, leaves a gap in the numbers; where both ends block and there is one
connection (`Patient`), the trail has no gaps, so the next delivery is the next
message. Once the stream is torn there is no trail: what is delivered then is
`Stray`. A new connection starts with an empty trail, above what was delivered.

The one hypothesis of `PacketsInOrder` is that the messages differ from each other
(`Distinct`), because a delivery has only its bytes to tell which message it was;
splits, retries, resets and kept packets are all in it. `NoPacketIsLost` has
`Patient` too: without it the code does lose packets. Segments need not arrive
whole in it, but a length or payload that does not ends what it says.

**Packets over UDP.** `DatagramProofs`, for any number of ends and strangers, any
payloads and any network:

| Theorem | States |
|---|---|
| `DatagramTypes` | `Spec => []TypeOK` |
| `DatagramResults` | `Spec => ResultsTrue`, an action property |
| `DatagramsAreServed` | `Spec => IsDatagramService`, the refinement of `DatagramService` |
| `NamesStayApart` | `Spec => []NamesApart` |

*Argument.* The invariant `Exchanging` says that each end's packet is one that a
program or a stranger can make, that addresses have ports that fit, and that
each datagram under way goes to an end and is a packet of an end or came from a
stranger. From it follows that a datagram is copied over a packet only if it is
one (`UnderwaySized`), that the header it brings is then right (`CopiedPacket`:
nothing computes it anew), and that the address stored names the end that sent
it (`Named`): that is where the round trip of an address through its text and
two byte orders is used. What is assumed (`DatagramAssumption`): `DatagramSize`
is the number of values of a length, as in the code (65536, `Socket.h:47`);
datagrams are shorter, as those of UDP are; a payload fits into a packet with
its header written; the ends' addresses differ, are native ones that the
conversions know, and have no scope, which `to_native` would lose; a stranger's
address is not that of an end, whose datagrams nothing in this code could tell
apart.

`NamesApart` is about three forms of text (`ThreeForms`): a host alone, a host in
brackets with a port, and a host with a port. The decimal form of a port has no
colon and is that of no other port (`DecimalInjective`), so the last colon of a
text with a port tells where the host ends. No host starts with a bracket, so
the second form is none of the others (`BracketsTell`). What is left is a host
with a port that reads like a host alone. That host is IPv4 and has one colon
with its port, which no host has, or it is IPv6 and `is_numeric` refuses it. It
then has a dot, and no host has a colon behind a dot, or it has no digit at all,
so it is `::` and has three colons in a row with its port (`WithPortIsNoHost`).
The proof uses of hosts what `AddressAssumption` says, and of the program's
addresses that their ports fit (`Exchanging`).

**Raw loops.** `SendAllProofs` proves, for any messages, any capacity of the
connection and any programs that `SendAllAssumption` admits:

| Theorem | States |
|---|---|
| `LoopsCount` | `Spec => []TypeOK` |
| `MessagesWhole` | `Spec => []StreamWhole` |
| `AnswersTrue` | `Spec => []TrueMeansAll` |
| `CrossedEndsWait` | `Spec => []NeitherReturns` |
| `ExchangeGoesOn` | `Spec => []NobodyStuck` |
| `TurnsAreCounted` | `Spec => TurnsRunOut`, an action property |

*Argument.* `Counts` says that the variables have their types, that the two
counters together stay within the message a call is for, and that `taken` is 0
outside `send_all`; it implies `TypeOK` and is inductive by itself.
`StreamWhole` and `TrueMeansAll` need each other: that `true` of `receive_all`
is the whole message follows from its counter being the length of what it
stored, and that a later call starts at the front from what earlier ones
answered. `Whole` joins them with that fact (`Stored`) and with the form in
which a transfer keeps it (`Fronted`: what is stored and what is under way are
the front of the message). For `NeitherReturns`, `Waits` says of two ends that
both send first that neither has an answer and that the stream of each holds all
it has handed over, hence less than its message; and of two that both receive
first that nothing is under way. It is inductive together with `Counts`. There
is one lemma per action and invariant, and a few about sequences (a front that
is continued or consumed stays a front).

For `NobodyStuck` one more fact is needed besides `Whole`: a blocking `::send`
that has not returned has not taken everything (`Short`), or it would wait with
nothing left to take. An end that cannot go on is in `send_all` with its stream
full, or in `receive_all` with nothing to receive (`StuckEnd`). If neither can,
one that sends excludes that the other receives, so both are in the same call.
If one of them were in its second call, what its first one answered
(`SecondCall`) contradicts the state of the streams; so both are in their first,
which is `Hopeless` (`OnlyCrossedStuck`). If one has stopped, the other one can
receive the end of the stream, or has sent bytes that will be refused
(`OneLeftGoesOn`). `TurnsRunOut` follows from `Counts`: a turn of a transfer adds
to what the call has moved, an answer uses up at least one turn of the calls that
are left. The two theorems are what is safety in `ExchangeEnds`; that an end
which can go on does, is fairness. `Going` writes out the guards of `Proceed`,
because `ENABLED` is beyond the prover; TLC found the two equal in every state of
the run.

**Life cycle.** `SocketLifecycleProofs` proves, for any number of objects, native
sockets and peers, from `SocketLifecycleAssumption`:

| Theorem | States |
|---|---|
| `SocketsSound` | `Spec => []Sound`, the inductive invariant |
| `TypeCorrect` | `Spec => []TypeOK` |
| `NothingLeaks` | `Spec => []HandlesOwned` |
| `ConnectedHolds` | `Spec => []ConnectedTrue` |
| `ModeHolds` | `Spec => []ModeAgrees` |
| `AddressesHold` | `Spec => []AddressesCurrent` |
| `AnswersHold` | `Spec => AnswersTrue`, an action property |

*Argument.* `HandlesOwned` is not inductive: that a new native socket has one
owner needs to know that no object holds a free one, and `ConnectedTrue`,
`ModeAgrees` and `AddressesCurrent` say nothing of an object that will be given
another native socket. `Sound` says instead that an object and the native socket
it holds agree (`Agrees`), that an object without one says nothing (`Bare`), that
each open native socket has an owner (`Kept`) and only one (`Single`), all of it
while Winsock is started, and that there are no native sockets before it is
(`Unstarted`). The last is needed because `initialize` after `cleanup` does not
start Winsock again (`Socket.cpp:83`): `started` becomes true only once, when
everything is still as constructed. `Takes` and `Changes` are the two shapes of a
step that the calls have: an object comes to hold a native socket and what it
held is closed, or a native socket changes under its owner. From them follows one
lemma per call. For `AnswersTrue` a second lemma per call says what its answer
means; the answers of the other calls claim nothing.

**Model-checked only.** Liveness stays with TLC, because fairness and ENABLED are
beyond the prover: that all packets arrive (the fairness of `IsReliableChannel`,
in whose run the ends also never lose each other's place: `[]~torn`),
`SendComesBack` and `ExchangeEnds`. The properties of the runs that fail are
false. Everything else that a run checks is a theorem, for all values of the
constants that the named assumptions admit.

## 5. What is not modelled

- `reserve`, `shrink_to_fit`, `capacity`: they do not change what a packet holds.
- A packet appended to itself (`Packet.cpp:505`): the source pointer is into the
  vector that grows; whether it stays valid depends on the vector's capacity.
- Reads and writes of zero bytes at the end of the vector, where `data_[size()]`
  is formed: defined by the library build, not by this code.
- Writes to a packet that was moved away while its cursor was at 0 after an
  overflow, before a `clear` or `resize` (guard `Writable`).
- Lengths above `DatagramSize - 3` over TCP: the header of a full packet is not
  written (`packet_fill`), so the other end cannot take it for a packet.
- In TCP, a reset discards what is in the stream. Real stacks may hand out some
  of it first; that only removes losses. Timeouts and the other closing errors
  act as the reset does, through `to_state`.
- `send` and `receive` from several threads on one socket; each end is one thread.
- UDP sockets' life cycle: the same calls, with a connection that is made at once.
  A UDP socket that was moved from has no datagram buffer, and `receive` on it
  dereferences a null pointer (`Socket.cpp:197`): objects are not moved in
  `Datagram`.
- `Address`: comparison and hashing, which are memberwise, and what `getaddrinfo`
  and `getnameinfo` do: `Datagram` takes their answers from a set.
- After `cleanup`, `is_initialized_` is still set, so `initialize` does not start
  Winsock again (`Socket.cpp:83`). The model has it; no property is about it.

## 6. Plan

Done: every component of section 1, as far as section 5 says, and the proofs of
section 4, which cover each invariant and action property of the passing runs and
the safety of the refinements.

What could follow: a model of the life cycle of UDP sockets with moves, for the
null buffer of section 5; packets that are shared by `send` and `receive` of the
same program, since both keep their progress in it; and a version of `Framed`
for code that keeps what it received of a length or a payload, in which `torn`
would only be set by `send`.
