--------------------------- MODULE SocketLifecycle --------------------------
(***************************************************************************)
(* The TcpSocket objects of a program from construction to close: the      *)
(* native sockets they own, the connections of those, and Winsock itself.  *)
(*                                                                         *)
(* A call is one step.  Each native call it makes may fail, and the call   *)
(* then ends where the code returns or throws.  Errors are caught by the   *)
(* program, which goes on using the object.                                *)
(***************************************************************************)
EXTENDS SocketError

CONSTANTS
  Sockets,    \* the objects
  Handles,    \* the native sockets there can be at a time
  Peers,      \* the addresses of other ends
  NoHandle,   \* INVALID_SOCKET
  NoAddress,  \* a default Address
  Hollow,     \* an Address that was moved from: no text, but port and family
  Own         \* the local address of a native socket

ASSUME SocketLifecycleAssumption ==
  /\ NoHandle \notin Handles
  /\ NoAddress # Hollow
  /\ Own \notin {NoAddress, Hollow}
  /\ Peers \cap {NoAddress, Hollow} = {}

VARIABLES
  socks,           \* the objects
  native,          \* the native sockets
  is_initialized,  \* Socket::is_initialized_
  started,         \* Winsock is started
  last             \* history: the latest call and what it was answered

state == <<socks, native, is_initialized, started>>
vars  == <<state, last>>

SocketType ==
  [handle    : Handles \cup {NoHandle},
   blocking  : BOOLEAN,
   connected : BOOLEAN,
   local     : {NoAddress, Hollow, Own},
   remote    : {NoAddress, Hollow} \cup Peers]

\* A native socket.  mode is whether it blocks; refused, whether the latest
\* attempt to change that failed.
NativeType ==
  [conn    : {"free", "idle", "connecting", "up", "lost", "listening"},
   bound   : BOOLEAN,
   mode    : BOOLEAN,
   refused : BOOLEAN,
   peer    : Peers \cup {NoAddress}]

Free == [conn |-> "free", bound |-> FALSE, mode |-> TRUE, refused |-> FALSE,
         peer |-> NoAddress]
Idle == [Free EXCEPT !.conn = "idle"]

\* An object as the constructor leaves it.
NewSocket(b) == [handle |-> NoHandle, blocking |-> b, connected |-> FALSE,
                 local |-> NoAddress, remote |-> NoAddress]

Is(s, conn) == /\ started
               /\ socks[s].handle # NoHandle
               /\ native[socks[s].handle].conn = conn

Unused == IF started THEN {h \in Handles : native[h].conn = "free"} ELSE {}

Answer(op, s, result) == last' = [op |-> op, on |-> s, state |-> result]
Elsewhere             == last' = [last EXCEPT !.op = "winsock"]
Fails(op, s, error)   == Answer(op, s, to_state(error))

-----------------------------------------------------------------------------
(* Pieces of calls.                                                        *)

\* The native sockets after close() of an object that holds h.
Without(h) == IF h \in Handles THEN [native EXCEPT ![h] = Free] ELSE native

\* What ioctlsocket makes of native socket n asked for a mode.
ModeTried(n, b) == {[n EXCEPT !.mode = b, !.refused = FALSE],
                    [n EXCEPT !.refused = TRUE]}

\* Mutant: a new native socket is left in the mode it comes with.
OpenedOnly(s) ==
  IF socks[s].handle # NoHandle
    THEN {[sock |-> socks[s], native |-> native, threw |-> FALSE]}
    ELSE {[sock |-> [socks[s] EXCEPT !.handle = h],
           native |-> [native EXCEPT ![h] = Idle], threw |-> FALSE]
            : h \in Unused}

\* The outcomes of init_socket: nothing to do, ::socket failed, or a native
\* socket whose mode was set, or could not be set, which throws.
init_socket(s) ==
  IF socks[s].handle # NoHandle
    THEN {[sock |-> socks[s], native |-> native, threw |-> FALSE]}
    ELSE {[sock |-> socks[s], native |-> native, threw |-> TRUE]}
           \cup UNION {{[sock   |-> [socks[s] EXCEPT !.handle = h],
                         native |-> [native EXCEPT ![h] = n],
                         threw  |-> n.refused]
                          : n \in ModeTried(Idle, socks[s].blocking)}
                         : h \in Unused}

\* What getsockname and getpeername may leave in object o with native socket n:
\* they may fail, which leaves the address the object had, and do fail on a
\* socket that is not bound or has no peer.
Locals(o, n)  == {o.local}  \cup (IF n.bound THEN {Own} ELSE {})
Remotes(o, n) == {o.remote} \cup (IF n.conn = "up" THEN {n.peer} ELSE {})

Renamed(o, l, r) == [o EXCEPT !.local = l, !.remote = r]

\* Mutant: the two addresses are stored the wrong way round.
AddressesSwapped(o, n) ==
  {Renamed(o, r, l) : l \in Locals(o, n), r \in Remotes(o, n)}

\* What update_addresses makes of object o with native socket n.
update_addresses(o, n) ==
  {Renamed(o, l, r) : l \in Locals(o, n), r \in Remotes(o, n)}

Throws(op, s, r) ==
  /\ r.threw
  /\ socks' = [socks EXCEPT ![s] = r.sock] /\ native' = r.native
  /\ Answer(op, s, "threw")

-----------------------------------------------------------------------------
(* Winsock.                                                                *)

\* WSAStartup is only called while is_initialized_ is not set.
initialize ==
  /\ \/ is_initialized /\ UNCHANGED <<is_initialized, started>>
     \/ ~is_initialized /\ is_initialized' = TRUE /\ started' = TRUE
  /\ UNCHANGED <<socks, native>>
  /\ Elsewhere

\* WSACleanup closes what is open.  is_initialized_ stays as it is.
cleanup ==
  /\ started
  /\ started' = FALSE
  /\ native' = [h \in Handles |-> Free]
  /\ UNCHANGED <<socks, is_initialized>>
  /\ Elsewhere

\* An attempt to connect ends, and a connection breaks.
Settles(h) ==
  /\ native[h].conn = "connecting"
  /\ \/ native' = [native EXCEPT ![h].conn = "up"]
     \/ native' = [native EXCEPT ![h].conn = "idle", ![h].peer = NoAddress]
  /\ UNCHANGED <<socks, is_initialized, started>>
  /\ Elsewhere

Breaks(h) ==
  /\ native[h].conn = "up"
  /\ native' = [native EXCEPT ![h].conn = "lost"]
  /\ UNCHANGED <<socks, is_initialized, started>>
  /\ Elsewhere

-----------------------------------------------------------------------------
(* Socket.                                                                 *)

\* Mutant: the addresses stay.
CloseSocketOnly(s) ==
  /\ native' = Without(socks[s].handle)
  /\ socks'  = [socks EXCEPT ![s].handle = NoHandle, ![s].connected = FALSE]
  /\ Answer("close", s, "done")
  /\ UNCHANGED <<is_initialized, started>>

\* close(), and with it the destructor.
close(s) ==
  /\ native' = Without(socks[s].handle)
  /\ socks'  = [socks EXCEPT ![s] = NewSocket(@.blocking)]
  /\ Answer("close", s, "done")
  /\ UNCHANGED <<is_initialized, started>>

\* s = TcpSocket(b).
Renew(s) ==
  /\ \E b \in BOOLEAN : socks' = [socks EXCEPT ![s] = NewSocket(b)]
  /\ native' = Without(socks[s].handle)
  /\ Answer("renew", s, "done")
  /\ UNCHANGED <<is_initialized, started>>

\* Mutant: connected_ is copied, not exchanged.
MovedHandleOnly(o) == [o EXCEPT !.handle = NoHandle]

\* What an object is like when its contents were moved away.  A default
\* address stays one.
MovedAway(o) ==
  [o EXCEPT !.handle = NoHandle, !.connected = FALSE,
            !.local  = IF @ = NoAddress THEN @ ELSE Hollow,
            !.remote = IF @ = NoAddress THEN @ ELSE Hollow]

\* s = std::move(t).
MoveAssign(s, t) ==
  /\ native' = Without(socks[s].handle)
  /\ socks'  = [socks EXCEPT ![s] = socks[t], ![t] = MovedAway(@)]
  /\ Answer("move", s, "done")
  /\ UNCHANGED <<is_initialized, started>>

\* blocking(b).  The object takes the value whatever ioctlsocket says.
blocking(s) ==
  /\ \E b \in BOOLEAN :
       /\ socks' = [socks EXCEPT ![s].blocking = b]
       /\ \/ /\ socks[s].handle = NoHandle
             /\ UNCHANGED native
             /\ Answer("blocking", s, "done")
          \/ /\ socks[s].handle # NoHandle /\ started
             /\ \E n \in ModeTried(native[socks[s].handle], b) :
                  /\ native' = [native EXCEPT ![socks[s].handle] = n]
                  /\ Answer("blocking", s, IF n.refused THEN "error" ELSE "done")
          \/ /\ socks[s].handle # NoHandle /\ ~started
             /\ UNCHANGED native
             /\ Fails("blocking", s, "not_initialized")
  /\ UNCHANGED <<is_initialized, started>>

\* bind() needs an object without a native socket, so after a failure it
\* throws until the object is closed.
bind(s) ==
  /\ \/ /\ socks[s].handle # NoHandle
        /\ UNCHANGED <<socks, native>>
        /\ Answer("bind", s, "threw")
     \/ /\ socks[s].handle = NoHandle
        /\ \E r \in init_socket(s) :
             \/ Throws("bind", s, r)
             \/ /\ ~r.threw
                /\ socks' = [socks EXCEPT ![s] = r.sock] /\ native' = r.native
                /\ Fails("bind", s, "addr_in_use")
             \/ /\ ~r.threw
                /\ LET n == [r.native[r.sock.handle] EXCEPT !.bound = TRUE]
                   IN /\ native' = [r.native EXCEPT ![r.sock.handle] = n]
                      /\ \E o \in update_addresses(r.sock, n) :
                           socks' = [socks EXCEPT ![s] = o]
                /\ Answer("bind", s, "done")
  /\ UNCHANGED <<is_initialized, started>>

\* The errors ::connect fails with on native socket n, and what n is then.
ConnectErrors(n, p) ==
  IF ~started THEN {<<"not_initialized", n>>} ELSE
  CASE n.conn = "idle" ->
         {<<"connection_refused", [n EXCEPT !.bound = TRUE]>>,
          <<"timed_out", [n EXCEPT !.bound = TRUE]>>}
           \cup (IF n.mode THEN {}
                 ELSE {<<"would_block", [n EXCEPT !.conn = "connecting",
                                                  !.bound = TRUE, !.peer = p]>>})
    [] n.conn = "connecting"    -> {<<"already_in_progress", n>>}
    [] n.conn \in {"up", "lost"} -> {<<"is_connected", n>>}
    [] OTHER                    -> {<<"invalid", n>>}

\* connected_ and the addresses are only set when ::connect itself succeeds.
connect(s) ==
  /\ \/ /\ socks[s].connected
        /\ UNCHANGED <<socks, native>>
        /\ Answer("connect", s, "threw")
     \/ /\ ~socks[s].connected
        /\ \E r \in init_socket(s), p \in Peers :
             LET h == r.sock.handle
             IN \/ Throws("connect", s, r)
                \/ /\ ~r.threw
                   /\ \E e \in ConnectErrors(r.native[h], p) :
                        /\ native' = [r.native EXCEPT ![h] = e[2]]
                        /\ Fails("connect", s, e[1])
                   /\ socks' = [socks EXCEPT ![s] = r.sock]
                \/ /\ ~r.threw /\ started
                   /\ r.native[h].conn = "idle" /\ r.native[h].mode
                   /\ LET n == [r.native[h] EXCEPT !.conn = "up", !.bound = TRUE,
                                                   !.peer = p]
                      IN /\ native' = [r.native EXCEPT ![h] = n]
                         /\ \E o \in update_addresses([r.sock EXCEPT
                                                        !.connected = TRUE], n) :
                              socks' = [socks EXCEPT ![s] = o]
                   /\ Answer("connect", s, "done")
  /\ UNCHANGED <<is_initialized, started>>

-----------------------------------------------------------------------------
(* TcpSocket.                                                              *)

\* The error of ::listen or ::accept on a native socket that cannot, or when the
\* stack has run out of something: one of several that to_state does not tell
\* apart.
Unlistened == "invalid"

\* ::listen fails with WSAEISCONN on a connected socket and with WSAEINVAL on
\* one that is not bound, and it may fail on any other.
listen(s) ==
  /\ \/ /\ Is(s, "listening") \/ (Is(s, "idle") /\ native[socks[s].handle].bound)
        /\ native' = [native EXCEPT ![socks[s].handle].conn = "listening"]
        /\ Answer("listen", s, "done")
     \/ /\ Is(s, "up") \/ Is(s, "lost")
        /\ UNCHANGED native
        /\ Fails("listen", s, "is_connected")
     \/ /\ ~(Is(s, "up") \/ Is(s, "lost"))
        /\ Fails("listen", s, Unlistened)
        /\ UNCHANGED native
  /\ UNCHANGED <<socks, is_initialized, started>>

\* accept(t) on s, which may be t itself.  The native socket comes with the
\* listener's mode; t is closed, and that its mode cannot be set is ignored.
Accepted(s, h, p) ==
  UNION {{[native |-> n, sock |-> o]
            : o \in update_addresses([NewSocket(socks[s].blocking) EXCEPT
                                        !.handle = h, !.connected = TRUE], n)}
           : n \in ModeTried([native[socks[s].handle] EXCEPT
                                !.conn = "up", !.peer = p, !.refused = FALSE],
                             socks[s].blocking)}

\* Mutant: the object accepted into keeps its native socket open.
AcceptOver(s, t) ==
  /\ Is(s, "listening")
  /\ \E h \in Unused, p \in Peers : \E r \in Accepted(s, h, p) :
       /\ native' = [native EXCEPT ![h] = r.native]
       /\ socks'  = [socks EXCEPT ![t] = r.sock]
  /\ Answer("accept", s, "done")
  /\ UNCHANGED <<is_initialized, started>>

accept(s, t) ==
  /\ \/ /\ Is(s, "listening")
        /\ \E h \in Unused, p \in Peers : \E r \in Accepted(s, h, p) :
             /\ native' = [Without(socks[t].handle) EXCEPT ![h] = r.native]
             /\ socks'  = [socks EXCEPT ![t] = r.sock]
        /\ Answer("accept", s, "done")
     \/ /\ Is(s, "listening")
        /\ \/ Fails("accept", s, "connection_reset")
           \/ Fails("accept", s, "too_many_sockets")
           \/ /\ ~native[socks[s].handle].mode
              /\ Fails("accept", s, "would_block")
        /\ UNCHANGED <<socks, native>>
     \/ /\ ~Is(s, "listening")
        /\ Fails("accept", s, Unlistened)
        /\ UNCHANGED <<socks, native>>
  /\ UNCHANGED <<is_initialized, started>>

-----------------------------------------------------------------------------

Init ==
  /\ socks \in [Sockets -> {NewSocket(b) : b \in BOOLEAN}]
  /\ native = [h \in Handles |-> Free]
  /\ is_initialized = FALSE /\ started = FALSE
  /\ last = [op |-> "construct", on |-> CHOOSE s \in Sockets : TRUE,
             state |-> "done"]

Call(s) ==
  \/ bind(s) \/ connect(s) \/ listen(s) \/ blocking(s) \/ close(s) \/ Renew(s)
  \/ \E t \in Sockets : accept(s, t)
  \/ \E t \in Sockets \ {s} : MoveAssign(s, t)

Winsock == initialize \/ cleanup \/ \E h \in Handles : Settles(h) \/ Breaks(h)

Next == Winsock \/ \E s \in Sockets : Call(s)

Spec == Init /\ [][Next]_vars

-----------------------------------------------------------------------------
(* Invariants.                                                             *)

\* Objects and native sockets have their types.
TypeOK ==
  /\ socks \in [Sockets -> SocketType]
  /\ native \in [Handles -> NativeType]
  /\ {is_initialized, started} \subseteq BOOLEAN

Holds(s, h) == socks[s].handle = h

\* While Winsock is started, every open native socket belongs to exactly one
\* object and no object holds a closed one, whatever was moved, accepted into,
\* or failed half-way: nothing leaks and nothing is closed twice.
HandlesOwned ==
  started =>
    \A h \in Handles :
      /\ native[h].conn # "free" => \E s \in Sockets : Holds(s, h)
      /\ native[h].conn = "free" => \A s \in Sockets : ~Holds(s, h)
      /\ \A s, t \in Sockets : Holds(s, h) /\ Holds(t, h) => s = t

\* connected_ is only set on an object whose native socket was connected.
ConnectedTrue ==
  \A s \in Sockets : socks[s].connected =>
    /\ socks[s].handle # NoHandle
    /\ started => native[socks[s].handle].conn \in {"up", "lost"}

\* blocking_ is the mode of the native socket, unless the latest attempt to
\* set that mode failed (Socket.h:228: "The blocking state will be updated
\* once the native socket is connected or bound").
ModeAgrees ==
  \A s \in Sockets : started /\ socks[s].handle # NoHandle =>
    LET n == native[socks[s].handle]
    IN  n.refused \/ n.mode = socks[s].blocking

\* The addresses of an object are those of the native socket it holds now,
\* never of one it held before; what a move leaves behind is not an address.
AddressesCurrent ==
  \A s \in Sockets :
    LET o == socks[s]
    IN IF o.handle = NoHandle
         THEN o.local # Own /\ o.remote \notin Peers
         ELSE started =>
                /\ o.local = Own => native[o.handle].bound
                /\ o.remote \in Peers => o.remote = native[o.handle].peer

-----------------------------------------------------------------------------
(* Action properties.                                                      *)

After(s) == native'[socks'[s].handle]

\* The call was made on a native socket that had its connection already.
Repeated(s) ==
  socks[s].handle # NoHandle /\ native[socks[s].handle].conn \in {"up", "lost"}

\* What an answer says of s and of its native socket.
Means(op, s, answer) ==
  /\ op = "connect" /\ answer = "done" =>
       /\ After(s).conn \in {"up", "lost"}
       /\ socks'[s].connected \/ Repeated(s)
  /\ op = "connect" /\ answer = "in_progress" =>
       After(s).conn = "connecting" /\ ~socks'[s].connected
  /\ op = "bind" /\ answer = "done" => After(s).bound
  /\ op = "listen" /\ answer = "done" /\ ~Repeated(s) =>
       After(s).conn = "listening"

AnswerTrue == started => Means(last'.op, last'.on, last'.state)

\* The result of a call tells the state of the native socket, also when a call
\* is repeated on one that is connecting: a connect that is done has a
\* connection, and connected_ is set; one in progress is under way; a bind that
\* is done is bound; a listen that is done is heard.  On a native socket that
\* had its connection already, WSAEISCONN makes connect and listen answer done
\* and changes nothing: connected_ may stay unset, and the socket is not heard,
\* which ListenDone is about.
AnswersTrue == [][AnswerTrue]_vars

-----------------------------------------------------------------------------
(* Statements of the documentation.                                        *)

\* TcpSocket.h:20-23: "Begins listening on this socket for incoming
\* connections.  \return SocketState::done on success."  A listen that is
\* answered with done has made the native socket listen.
ListenDone ==
  [][started /\ last'.op = "listen" /\ last'.state = "done" =>
       After(last'.on).conn = "listening"
    ]_vars
=============================================================================
