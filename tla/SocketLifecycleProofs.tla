----------------------- MODULE SocketLifecycleProofs ------------------------
(***************************************************************************)
(* Theorems about SocketLifecycle, for any number of objects, of native    *)
(* sockets and of peers.                                                   *)
(***************************************************************************)
EXTENDS SocketLifecycle, TLAPS

\* What an object says of the native socket that it holds.
Agrees(o, n) ==
  /\ n.conn # "free"
  /\ o.connected => n.conn \in {"up", "lost"}
  /\ n.refused \/ n.mode = o.blocking
  /\ o.local = Own => n.bound
  /\ o.remote \in Peers => o.remote = n.peer /\ n.conn \in {"up", "lost"}

\* What an object without one says.
Bare(o) ==
  o.handle = NoHandle => ~o.connected /\ o.local # Own /\ o.remote \notin Peers

Agreed == \A s \in Sockets :
  socks[s].handle # NoHandle => Agrees(socks[s], native[socks[s].handle])
Single == \A s, t \in Sockets :
  socks[s].handle # NoHandle /\ socks[s].handle = socks[t].handle => s = t
Kept   == \A h \in Handles :
  native[h].conn # "free" => \E s \in Sockets : socks[s].handle = h

\* Before Winsock is started there are no native sockets.
Unstarted ==
  ~is_initialized => /\ ~started
                     /\ \A s \in Sockets : socks[s].handle = NoHandle
                     /\ \A h \in Handles : native[h].conn = "free"

Sound ==
  /\ TypeOK
  /\ \A s \in Sockets : Bare(socks[s])
  /\ started => Agreed /\ Single /\ Kept
  /\ Unstarted

-----------------------------------------------------------------------------
(* Steps of a certain shape.                                               *)

\* An object comes to hold a native socket, its own or a free one, and what it
\* held before is closed.
LEMMA Takes ==
  ASSUME Sound, started, NEW s \in Sockets, NEW o \in SocketType,
         NEW n \in NativeType, o.handle # NoHandle, Agrees(o, n),
         o.handle = socks[s].handle \/ native[o.handle].conn = "free",
         socks' = [socks EXCEPT ![s] = o],
         native' = [Without(socks[s].handle) EXCEPT ![o.handle] = n],
         UNCHANGED <<is_initialized, started>>
  PROVE  Sound'
<1>1. o.handle \in Handles
  BY DEF SocketType
<1>2. TypeOK'
  <2>1. Without(socks[s].handle) \in [Handles -> NativeType]
    BY DEF Without, Sound, TypeOK, Free, NativeType
  <2> QED BY <1>1, <2>1 DEF Sound, TypeOK
<1>3. /\ socks'[s] = o /\ native'[o.handle] = n
      /\ \A t \in Sockets \ {s} : socks'[t] = socks[t]
      /\ \A h \in Handles \ {o.handle} :
           native'[h] = IF h = socks[s].handle THEN Free ELSE native[h]
  BY <1>1 DEF Sound, TypeOK, Without
<1>4. \A t \in Sockets \ {s} : socks[t].handle # NoHandle =>
        /\ socks[t].handle # o.handle /\ socks[t].handle # socks[s].handle
        /\ native'[socks[t].handle] = native[socks[t].handle]
        /\ socks[t].handle \in Handles
  <2> SUFFICES ASSUME NEW t \in Sockets \ {s}, socks[t].handle # NoHandle
               PROVE  /\ socks[t].handle # o.handle
                      /\ socks[t].handle # socks[s].handle
                      /\ native'[socks[t].handle] = native[socks[t].handle]
                      /\ socks[t].handle \in Handles
    OBVIOUS
  <2>1. socks[t].handle \in Handles
    BY DEF Sound, TypeOK, SocketType
  <2>2. socks[t].handle # socks[s].handle
    BY DEF Sound, Single
  <2>3. native[socks[t].handle].conn # "free"
    BY DEF Sound, Agreed, Agrees
  <2>4. socks[t].handle # o.handle
    BY <2>2, <2>3
  <2> QED BY <1>3, <2>1, <2>2, <2>4
<1>5. \A t \in Sockets : Bare(socks'[t])
  BY <1>3 DEF Sound, Bare
<1>6. Agreed'
  BY <1>3, <1>4 DEF Sound, Agreed
<1>7. Single'
  BY <1>3, <1>4 DEF Sound, Single
<1>8. Kept'
  <2> SUFFICES ASSUME NEW h \in Handles, native'[h].conn # "free"
               PROVE  \E t \in Sockets : socks'[t].handle = h
    BY DEF Kept
  <2>1. CASE h = o.handle
    BY <1>3, <2>1
  <2>2. CASE h # o.handle
    <3>1. h # socks[s].handle /\ native[h].conn # "free"
      BY <1>3, <2>2 DEF Free
    <3>2. PICK t \in Sockets : socks[t].handle = h
      BY <3>1 DEF Sound, Kept
    <3> QED BY <1>3, <3>1, <3>2
  <2> QED BY <2>1, <2>2
<1>9. Unstarted'
  BY DEF Sound, Unstarted
<1> QED BY <1>2, <1>5, <1>6, <1>7, <1>8, <1>9 DEF Sound

\* The same, for an object that held none before, or the same.
LEMMA TakesHere ==
  ASSUME Sound, started, NEW s \in Sockets, NEW o \in SocketType,
         NEW n \in NativeType, o.handle # NoHandle, Agrees(o, n),
         \/ o.handle = socks[s].handle
         \/ socks[s].handle = NoHandle /\ native[o.handle].conn = "free",
         socks' = [socks EXCEPT ![s] = o], native' = [native EXCEPT ![o.handle] = n],
         UNCHANGED <<is_initialized, started>>
  PROVE  Sound'
<1>1. native' = [Without(socks[s].handle) EXCEPT ![o.handle] = n]
  <2>1. NoHandle \notin Handles
    BY SocketLifecycleAssumption DEF SocketLifecycleAssumption
  <2>2. native \in [Handles -> NativeType] /\ o.handle \in Handles
    BY DEF Sound, TypeOK, SocketType
  <2>3. CASE socks[s].handle = NoHandle
    BY <2>1, <2>3 DEF Without
  <2>4. CASE o.handle = socks[s].handle
    <3>1. Without(socks[s].handle) = [native EXCEPT ![o.handle] = Free]
      BY <2>2, <2>4 DEF Without
    <3> QED BY <2>2, <3>1
  <2> QED BY <2>3, <2>4
<1> QED BY <1>1, Takes

\* An object gives its native socket up, and it is closed.
LEMMA Releases ==
  ASSUME Sound, NEW s \in Sockets, NEW o \in SocketType,
         o.handle = NoHandle, Bare(o), socks' = [socks EXCEPT ![s] = o],
         native' = Without(socks[s].handle), UNCHANGED <<is_initialized, started>>
  PROVE  Sound'
<1>1. TypeOK'
  <2>1. Without(socks[s].handle) \in [Handles -> NativeType]
    BY DEF Without, Sound, TypeOK, Free, NativeType
  <2> QED BY <2>1 DEF Sound, TypeOK
<1>2. /\ socks'[s] = o /\ \A t \in Sockets \ {s} : socks'[t] = socks[t]
      /\ \A h \in Handles :
           native'[h] = IF h = socks[s].handle THEN Free ELSE native[h]
  BY DEF Sound, TypeOK, Without
<1>3. \A t \in Sockets : Bare(socks'[t])
  BY <1>2 DEF Sound
<1>4. ASSUME started PROVE Agreed' /\ Single' /\ Kept'
  <2>1. \A t \in Sockets \ {s} : socks[t].handle # NoHandle =>
          /\ socks[t].handle # socks[s].handle
          /\ native'[socks[t].handle] = native[socks[t].handle]
    BY <1>2, <1>4 DEF Sound, Single, TypeOK, SocketType
  <2>2. Agreed' /\ Single'
    BY <1>2, <1>4, <2>1 DEF Sound, Agreed, Single
  <2>3. Kept'
    BY <1>2, <1>4 DEF Sound, Kept, Free
  <2> QED BY <2>2, <2>3
<1>5. Unstarted'
  BY <1>2 DEF Sound, Unstarted, Free
<1> QED BY <1>1, <1>3, <1>4, <1>5 DEF Sound

\* Only the history changes.
LEMMA Quiet ==
  ASSUME Sound, UNCHANGED state PROVE Sound'
BY DEF Sound, TypeOK, Agreed, Single, Kept, Unstarted, state

\* A native socket changes by itself, and its owner, if it has one, agrees.
LEMMA Changes ==
  ASSUME Sound, NEW h \in Handles, NEW n \in NativeType,
         native[h].conn # "free", n.conn # "free",
         \A s \in Sockets : Agrees(socks[s], native[h]) => Agrees(socks[s], n),
         native' = [native EXCEPT ![h] = n],
         UNCHANGED <<socks, is_initialized, started>>
  PROVE  Sound'
<1>1. TypeOK'
  BY DEF Sound, TypeOK
<1>2. native'[h] = n /\ \A g \in Handles \ {h} : native'[g] = native[g]
  BY DEF Sound, TypeOK
<1>3. started => Agreed'
  <2> SUFFICES ASSUME started, NEW s \in Sockets, socks[s].handle # NoHandle
               PROVE  Agrees(socks[s], native'[socks[s].handle])
    BY DEF Agreed
  <2>1. socks[s].handle \in Handles /\ Agrees(socks[s], native[socks[s].handle])
    BY DEF Sound, TypeOK, SocketType, Agreed
  <2> QED BY <1>2, <2>1
<1>4. started => Single' /\ Kept'
  BY <1>2 DEF Sound, Single, Kept
<1>5. Unstarted'
  BY <1>2 DEF Sound, Unstarted
<1> QED BY <1>1, <1>3, <1>4, <1>5 DEF Sound

-----------------------------------------------------------------------------
(* Pieces of calls.                                                        *)

\* What init_socket returns when it does not throw: an object that holds a
\* native socket, its own or a new one, and agrees with it.
Open(s, r) ==
  LET h == r.sock.handle
  IN /\ r.sock \in SocketType /\ h \in Handles /\ r.native[h] \in NativeType
     /\ Agrees(r.sock, r.native[h])
     /\ h = socks[s].handle \/ (socks[s].handle = NoHandle /\ native[h].conn = "free")
     /\ \A n : [r.native EXCEPT ![h] = n] = [native EXCEPT ![h] = n]
     /\ r.native = [native EXCEPT ![h] = r.native[h]]
     /\ r.sock.connected = socks[s].connected

\* init_socket leaves an object alone, or opens it.
LEMMA Opens ==
  ASSUME Sound, NEW s \in Sockets, NEW r \in init_socket(s)
  PROVE  \/ r.sock = socks[s] /\ r.native = native
              /\ (r.threw \/ socks[s].handle # NoHandle)
         \/ started /\ Open(s, r)
<1>1. socks[s] \in SocketType /\ native \in [Handles -> NativeType]
  BY DEF Sound, TypeOK
<1>2. CASE socks[s].handle # NoHandle
  BY <1>2 DEF init_socket
<1>3. CASE socks[s].handle = NoHandle
  <2>1. \/ r = [sock |-> socks[s], native |-> native, threw |-> TRUE]
        \/ \E h \in Unused : \E n \in ModeTried(Idle, socks[s].blocking) :
             r = [sock   |-> [socks[s] EXCEPT !.handle = h],
                  native |-> [native EXCEPT ![h] = n], threw |-> n.refused]
    BY <1>3 DEF init_socket
  <2>2. CASE r = [sock |-> socks[s], native |-> native, threw |-> TRUE]
    BY <2>2
  <2>3. ASSUME NEW h \in Unused, NEW n \in ModeTried(Idle, socks[s].blocking),
               r = [sock   |-> [socks[s] EXCEPT !.handle = h],
                    native |-> [native EXCEPT ![h] = n], threw |-> n.refused]
        PROVE  started /\ Open(s, r)
    <3>1. started /\ h \in Handles /\ native[h].conn = "free" /\ h # NoHandle
      BY SocketLifecycleAssumption DEF Unused, SocketLifecycleAssumption
    <3>2. /\ n \in NativeType /\ n.conn = "idle"
          /\ n.refused \/ n.mode = socks[s].blocking
      BY <1>1 DEF ModeTried, Idle, Free, NativeType, SocketType
    <3>3. /\ r.sock \in SocketType /\ r.sock.handle = h
          /\ r.sock.blocking = socks[s].blocking
          /\ r.sock.connected = socks[s].connected
          /\ r.sock.local = socks[s].local /\ r.sock.remote = socks[s].remote
      BY <1>1, <2>3, <3>1 DEF SocketType
    <3>4. r.native = [native EXCEPT ![h] = n] /\ r.native[h] = n
      BY <1>1, <2>3, <3>1
    <3>5. Agrees(r.sock, n)
      BY <1>3, <3>2, <3>3 DEF Agrees, Sound, Bare
    <3>6. \A m : [r.native EXCEPT ![h] = m] = [native EXCEPT ![h] = m]
      BY <1>1, <3>1, <3>4
    <3> QED BY <1>3, <3>1, <3>2, <3>3, <3>4, <3>5, <3>6 DEF Open
  <2> QED BY <2>1, <2>2, <2>3
<1> QED BY <1>2, <1>3

\* An object that is given the addresses of its native socket still agrees.
LEMMA Addressed ==
  ASSUME NEW o \in SocketType, NEW n \in NativeType, Agrees(o, n),
         NEW a \in update_addresses(o, n)
  PROVE  /\ a \in SocketType /\ a.handle = o.handle /\ Agrees(a, n)
         /\ a.connected = o.connected
<1>1. PICK l \in Locals(o, n), r \in Remotes(o, n) : a = Renamed(o, l, r)
  BY DEF update_addresses
<1>2. /\ l = o.local  \/ (n.bound /\ l = Own)
      /\ r = o.remote \/ (n.conn = "up" /\ r = n.peer)
  BY <1>1 DEF Locals, Remotes
<1>3. /\ a.handle = o.handle /\ a.connected = o.connected
      /\ a.blocking = o.blocking /\ a.remote = r /\ a.local = l
  BY <1>1 DEF Renamed, SocketType
<1>4. a \in SocketType
  <2>1. l \in {NoAddress, Hollow, Own}
    BY <1>2 DEF SocketType
  <2>2. r \in {NoAddress, Hollow} \cup Peers
    BY <1>2 DEF SocketType, NativeType
  <2> QED BY <1>1, <2>1, <2>2 DEF Renamed, SocketType
<1> QED BY <1>2, <1>3, <1>4 DEF Agrees

-----------------------------------------------------------------------------
(* The calls.                                                              *)

\* A constructed object, and one that was moved from, says nothing.
LEMMA NewAndMoved ==
  /\ \A b \in BOOLEAN : NewSocket(b) \in SocketType /\ NewSocket(b).handle = NoHandle
                          /\ Bare(NewSocket(b))
  /\ \A o \in SocketType : MovedAway(o) \in SocketType
                          /\ MovedAway(o).handle = NoHandle /\ Bare(MovedAway(o))
<1>1. ASSUME NEW b \in BOOLEAN
      PROVE  NewSocket(b) \in SocketType /\ NewSocket(b).handle = NoHandle
               /\ Bare(NewSocket(b))
  BY SocketLifecycleAssumption
     DEF NewSocket, SocketType, Bare, SocketLifecycleAssumption
<1>2. ASSUME NEW o \in SocketType
      PROVE  MovedAway(o) \in SocketType /\ MovedAway(o).handle = NoHandle
               /\ Bare(MovedAway(o))
  <2>1. /\ MovedAway(o) \in SocketType /\ MovedAway(o).handle = NoHandle
        /\ ~MovedAway(o).connected
        /\ MovedAway(o).local \in {NoAddress, Hollow}
        /\ MovedAway(o).remote \in {NoAddress, Hollow}
    BY DEF MovedAway, SocketType
  <2> QED BY <2>1, SocketLifecycleAssumption DEF Bare, SocketLifecycleAssumption
<1> QED BY <1>1, <1>2

\* close() and s = TcpSocket(b) leave a new object.
LEMMA closeSound ==
  ASSUME Sound, NEW s \in Sockets, close(s) \/ Renew(s) PROVE Sound'
<1>1. socks[s].blocking \in BOOLEAN
  BY DEF Sound, TypeOK, SocketType
<1>2. PICK b \in BOOLEAN : socks' = [socks EXCEPT ![s] = NewSocket(b)]
  BY <1>1 DEF close, Renew
<1>3. native' = Without(socks[s].handle) /\ UNCHANGED <<is_initialized, started>>
  BY DEF close, Renew
<1> QED BY <1>2, <1>3, NewAndMoved, Releases

\* s = std::move(t): the native socket of s is closed, and s holds that of t.
LEMMA MoveAssignSound ==
  ASSUME Sound, NEW s \in Sockets, NEW t \in Sockets \ {s}, MoveAssign(s, t)
  PROVE  Sound'
<1>1. /\ socks \in [Sockets -> SocketType] /\ native \in [Handles -> NativeType]
      /\ NoHandle \notin Handles
  BY SocketLifecycleAssumption DEF Sound, TypeOK, SocketLifecycleAssumption
<1>2. /\ socks'[s] = socks[t] /\ socks'[t] = MovedAway(socks[t])
      /\ \A u \in Sockets \ {s, t} : socks'[u] = socks[u]
      /\ \A h \in Handles :
           native'[h] = IF h = socks[s].handle THEN Free ELSE native[h]
  BY <1>1 DEF MoveAssign, Without
<1>3. /\ MovedAway(socks[t]) \in SocketType
      /\ MovedAway(socks[t]).handle = NoHandle /\ Bare(MovedAway(socks[t]))
  BY <1>1, NewAndMoved
<1>4. TypeOK'
  <2>1. Without(socks[s].handle) \in [Handles -> NativeType]
    BY <1>1 DEF Without, Free, NativeType, Sound, TypeOK
  <2> QED BY <1>1, <1>3, <2>1 DEF MoveAssign, Sound, TypeOK
<1>5. \A u \in Sockets : Bare(socks'[u])
  BY <1>2, <1>3 DEF Sound
<1>6. ASSUME started PROVE Agreed' /\ Single' /\ Kept'
  <2>1. \A u \in Sockets \ {s} : socks[u].handle # NoHandle =>
          /\ socks[u].handle # socks[s].handle
          /\ native'[socks[u].handle] = native[socks[u].handle]
    BY <1>1, <1>2, <1>6 DEF Sound, Single, SocketType
  <2>2. Agreed' /\ Single'
    BY <1>2, <1>3, <1>6, <2>1 DEF Sound, Agreed, Single
  <2>3. Kept'
    <3> SUFFICES ASSUME NEW h \in Handles, native'[h].conn # "free"
                 PROVE  \E u \in Sockets : socks'[u].handle = h
      BY DEF Kept
    <3>1. h # socks[s].handle /\ native[h].conn # "free"
      BY <1>2 DEF Free
    <3>2. PICK u \in Sockets : socks[u].handle = h
      BY <1>6, <3>1 DEF Sound, Kept
    <3> QED BY <1>2, <3>1, <3>2
  <2> QED BY <2>2, <2>3
<1>7. started' = started /\ is_initialized' = is_initialized
  BY DEF MoveAssign
<1>8. Unstarted'
  <2> SUFFICES ASSUME ~is_initialized
               PROVE  /\ ~started
                      /\ \A u \in Sockets : socks'[u].handle = NoHandle
                      /\ \A h \in Handles : native'[h].conn = "free"
    BY <1>7 DEF Unstarted
  <2>1. /\ ~started /\ \A u \in Sockets : socks[u].handle = NoHandle
        /\ \A h \in Handles : native[h].conn = "free"
    BY DEF Sound, Unstarted
  <2>2. \A u \in Sockets : socks'[u].handle = NoHandle
    BY <1>2, <1>3, <2>1
  <2>3. \A h \in Handles : native'[h].conn = "free"
    BY <1>2, <2>1 DEF Free
  <2> QED BY <2>1, <2>2, <2>3
<1> QED BY <1>4, <1>5, <1>6, <1>7, <1>8 DEF Sound

\* blocking(b): the object and its native socket take the mode, or the native
\* socket refuses it and only the object does.
LEMMA blockingSound ==
  ASSUME Sound, NEW s \in Sockets, blocking(s) PROVE Sound'
<1>1. PICK b \in BOOLEAN :
        /\ socks' = [socks EXCEPT ![s].blocking = b]
        /\ \/ socks[s].handle = NoHandle /\ UNCHANGED native
           \/ /\ socks[s].handle # NoHandle /\ started
              /\ \E n \in ModeTried(native[socks[s].handle], b) :
                   native' = [native EXCEPT ![socks[s].handle] = n]
           \/ socks[s].handle # NoHandle /\ ~started /\ UNCHANGED native
  BY DEF blocking
<1> DEFINE o == [socks[s] EXCEPT !.blocking = b]
<1>2. UNCHANGED <<is_initialized, started>> /\ socks' = [socks EXCEPT ![s] = o]
  BY <1>1 DEF blocking
<1>3. /\ o \in SocketType /\ o.handle = socks[s].handle /\ o.blocking = b
      /\ o.connected = socks[s].connected
      /\ o.local = socks[s].local /\ o.remote = socks[s].remote
  BY DEF Sound, TypeOK, SocketType
<1> HIDE DEF o
<1>4. CASE socks[s].handle = NoHandle /\ UNCHANGED native
  <2>1. native' = Without(socks[s].handle)
    BY <1>4, SocketLifecycleAssumption DEF Without, SocketLifecycleAssumption
  <2>2. Bare(o)
    BY <1>3 DEF Bare, Sound
  <2> QED BY <1>2, <1>3, <1>4, <2>1, <2>2, Releases
<1>5. CASE socks[s].handle # NoHandle /\ started
             /\ \E n \in ModeTried(native[socks[s].handle], b) :
                  native' = [native EXCEPT ![socks[s].handle] = n]
  <2>1. PICK n \in ModeTried(native[socks[s].handle], b) :
          native' = [native EXCEPT ![socks[s].handle] = n]
    BY <1>5
  <2>2. native[socks[s].handle] \in NativeType
    BY <1>5 DEF Sound, TypeOK, SocketType
  <2>3. /\ n \in NativeType /\ n.conn = native[socks[s].handle].conn
        /\ n.bound = native[socks[s].handle].bound
        /\ n.peer = native[socks[s].handle].peer /\ (n.refused \/ n.mode = b)
    BY <2>2 DEF ModeTried, NativeType
  <2>4. Agrees(socks[s], native[socks[s].handle])
    BY <1>5 DEF Sound, Agreed
  <2>5. Agrees(o, n)
    BY <1>3, <2>3, <2>4 DEF Agrees
  <2> QED BY <1>2, <1>3, <1>5, <2>1, <2>3, <2>5, TakesHere
<1>6. CASE socks[s].handle # NoHandle /\ ~started /\ UNCHANGED native
  <2>1. TypeOK'
    BY <1>2, <1>3, <1>6 DEF Sound, TypeOK
  <2>2. \A t \in Sockets : socks'[t].handle = socks[t].handle /\ Bare(socks'[t])
    BY <1>2, <1>3 DEF Sound, TypeOK, Bare
  <2>3. Unstarted'
    BY <1>2, <1>6, <2>2 DEF Sound, Unstarted
  <2> QED BY <1>2, <1>6, <2>1, <2>2, <2>3 DEF Sound
<1> QED BY <1>1, <1>4, <1>5, <1>6

\* A call that throws from init_socket, or fails behind it, leaves the native
\* socket in the object.
LEMMA Left ==
  ASSUME Sound, NEW s \in Sockets, NEW r \in init_socket(s),
         socks' = [socks EXCEPT ![s] = r.sock], native' = r.native,
         UNCHANGED <<is_initialized, started>>
  PROVE  Sound'
<1>1. CASE r.sock = socks[s] /\ r.native = native
  <2>1. socks' = socks
    BY <1>1 DEF Sound, TypeOK
  <2> QED BY <1>1, <2>1, Quiet DEF state
<1>2. CASE started /\ Open(s, r)
  <2>1. r.sock.handle # NoHandle
    BY <1>2, SocketLifecycleAssumption DEF Open, SocketLifecycleAssumption
  <2>2. /\ r.sock \in SocketType /\ r.native[r.sock.handle] \in NativeType
        /\ Agrees(r.sock, r.native[r.sock.handle])
        /\ \/ r.sock.handle = socks[s].handle
           \/ socks[s].handle = NoHandle /\ native[r.sock.handle].conn = "free"
        /\ native' = [native EXCEPT ![r.sock.handle] = r.native[r.sock.handle]]
    BY <1>2 DEF Open
  <2> QED BY <1>2, <2>1, <2>2, TakesHere
<1> QED BY <1>1, <1>2, Opens

\* An open object and its native socket change together.
LEMMA OpenChanges ==
  ASSUME Sound, started, NEW s \in Sockets, NEW r, Open(s, r),
         NEW o \in SocketType, NEW n \in NativeType,
         o.handle = r.sock.handle, Agrees(o, n), socks' = [socks EXCEPT ![s] = o],
         native' = [r.native EXCEPT ![r.sock.handle] = n],
         UNCHANGED <<is_initialized, started>>
  PROVE  Sound'
<1>1. o.handle # NoHandle
  BY SocketLifecycleAssumption DEF Open, SocketLifecycleAssumption
<1>2. native' = [native EXCEPT ![o.handle] = n]
  BY DEF Open
<1>3. \/ o.handle = socks[s].handle
      \/ socks[s].handle = NoHandle /\ native[o.handle].conn = "free"
  BY DEF Open
<1> QED BY <1>1, <1>2, <1>3, TakesHere

\* An object that is open when init_socket returned is so while Winsock is
\* started, and before that it is left alone.
LEMMA OpenWhenStarted ==
  ASSUME Sound, NEW s \in Sockets, NEW r \in init_socket(s), ~r.threw
  PROVE  /\ started => Open(s, r)
         /\ ~started => r.sock = socks[s] /\ r.native = native
<1>1. CASE r.sock = socks[s] /\ r.native = native /\ socks[s].handle # NoHandle
  <2>1. /\ socks[s] \in SocketType /\ socks[s].handle \in Handles
        /\ native \in [Handles -> NativeType]
    BY <1>1 DEF Sound, TypeOK, SocketType
  <2>2. started => Agrees(socks[s], native[socks[s].handle])
    BY <1>1 DEF Sound, Agreed
  <2>3. native = [native EXCEPT ![socks[s].handle] = native[socks[s].handle]]
    BY <2>1
  <2> QED BY <1>1, <2>1, <2>2, <2>3 DEF Open
<1>2. CASE started /\ Open(s, r)
  BY <1>2
<1> QED BY <1>1, <1>2, Opens

\* bind, whichever of its native calls fails.
LEMMA bindSound ==
  ASSUME Sound, NEW s \in Sockets, bind(s) PROVE Sound'
<1>1. UNCHANGED <<is_initialized, started>>
  BY DEF bind
<1>2. CASE UNCHANGED <<socks, native>>
  BY <1>1, <1>2, Quiet DEF state
<1>3. CASE socks[s].handle = NoHandle /\ \E r \in init_socket(s) :
             \/ Throws("bind", s, r)
             \/ /\ ~r.threw
                /\ socks' = [socks EXCEPT ![s] = r.sock] /\ native' = r.native
                /\ Fails("bind", s, "addr_in_use")
             \/ /\ ~r.threw
                /\ LET n == [r.native[r.sock.handle] EXCEPT !.bound = TRUE]
                   IN /\ native' = [r.native EXCEPT ![r.sock.handle] = n]
                      /\ \E o \in update_addresses(r.sock, n) :
                           socks' = [socks EXCEPT ![s] = o]
                /\ Answer("bind", s, "done")
  <2>1. PICK r \in init_socket(s) :
             \/ Throws("bind", s, r)
             \/ /\ ~r.threw
                /\ socks' = [socks EXCEPT ![s] = r.sock] /\ native' = r.native
                /\ Fails("bind", s, "addr_in_use")
             \/ /\ ~r.threw
                /\ LET n == [r.native[r.sock.handle] EXCEPT !.bound = TRUE]
                   IN /\ native' = [r.native EXCEPT ![r.sock.handle] = n]
                      /\ \E o \in update_addresses(r.sock, n) :
                           socks' = [socks EXCEPT ![s] = o]
                /\ Answer("bind", s, "done")
    BY <1>3
  <2>2. CASE socks' = [socks EXCEPT ![s] = r.sock] /\ native' = r.native
    BY <1>1, <2>2, Left
  <2>3. CASE ~r.threw /\ LET n == [r.native[r.sock.handle] EXCEPT !.bound = TRUE]
                         IN /\ native' = [r.native EXCEPT ![r.sock.handle] = n]
                            /\ \E o \in update_addresses(r.sock, n) :
                                 socks' = [socks EXCEPT ![s] = o]
    <3> DEFINE n == [r.native[r.sock.handle] EXCEPT !.bound = TRUE]
    <3>1. started /\ Open(s, r)
      <4>1. r.threw \/ started
        BY <1>3, Opens
      <4> QED BY <2>3, <4>1, OpenWhenStarted
    <3>2. n \in NativeType /\ Agrees(r.sock, n) /\ r.sock \in SocketType
      BY <3>1 DEF Open, NativeType, Agrees
    <3>3. PICK o \in update_addresses(r.sock, n) : socks' = [socks EXCEPT ![s] = o]
      BY <2>3
    <3>4. native' = [r.native EXCEPT ![r.sock.handle] = n]
      BY <2>3
    <3> HIDE DEF n
    <3>5. o \in SocketType /\ o.handle = r.sock.handle /\ Agrees(o, n)
      BY <3>2, <3>3, Addressed
    <3> QED BY <1>1, <3>1, <3>2, <3>3, <3>4, <3>5, OpenChanges
  <2> QED BY <2>1, <2>2, <2>3 DEF Throws
<1> QED BY <1>2, <1>3 DEF bind

\* A ::connect that fails leaves a native socket that the object agrees with.
LEMMA ConnectFails ==
  ASSUME Sound, started, NEW o \in SocketType, NEW n \in NativeType, NEW p \in Peers,
         Agrees(o, n), ~o.connected, NEW e \in ConnectErrors(n, p)
  PROVE  e[2] \in NativeType /\ Agrees(o, e[2])
<1>1. CASE n.conn = "idle"
  <2> DEFINE b == [n EXCEPT !.bound = TRUE]
             c == [n EXCEPT !.conn = "connecting", !.bound = TRUE, !.peer = p]
  <2>1. e[2] = b \/ e[2] = c
    <3>1. \/ e = <<"connection_refused", b>> \/ e = <<"timed_out", b>>
          \/ e = <<"would_block", c>>
      BY <1>1 DEF ConnectErrors
    <3> HIDE DEF b, c
    <3> QED BY <3>1
  <2>2. CASE e[2] = b
    BY <2>2 DEF NativeType, Agrees
  <2>3. CASE e[2] = c
    BY <1>1, <2>3 DEF NativeType, Agrees
  <2> QED BY <2>1, <2>2, <2>3
<1>2. CASE n.conn # "idle"
  <2>1. e[2] = n
    BY <1>2 DEF ConnectErrors, NativeType
  <2> QED BY <2>1
<1> QED BY <1>1, <1>2

\* connect, whichever of its native calls fails.
LEMMA connectSound ==
  ASSUME Sound, NEW s \in Sockets, connect(s) PROVE Sound'
<1>1. UNCHANGED <<is_initialized, started>>
  BY DEF connect
<1>2. CASE UNCHANGED <<socks, native>>
  BY <1>1, <1>2, Quiet DEF state
<1>3. ASSUME ~socks[s].connected, NEW r \in init_socket(s), NEW p \in Peers,
             \/ Throws("connect", s, r)
             \/ /\ ~r.threw
                /\ \E e \in ConnectErrors(r.native[r.sock.handle], p) :
                     native' = [r.native EXCEPT ![r.sock.handle] = e[2]]
                /\ socks' = [socks EXCEPT ![s] = r.sock]
             \/ /\ ~r.threw /\ started /\ r.native[r.sock.handle].conn = "idle"
                /\ LET n == [r.native[r.sock.handle] EXCEPT
                               !.conn = "up", !.bound = TRUE, !.peer = p]
                   IN /\ native' = [r.native EXCEPT ![r.sock.handle] = n]
                      /\ \E o \in update_addresses([r.sock EXCEPT
                                                     !.connected = TRUE], n) :
                           socks' = [socks EXCEPT ![s] = o]
      PROVE  Sound'
  <2> DEFINE h == r.sock.handle
  <2>1. CASE Throws("connect", s, r)
    BY <1>1, <2>1, Left DEF Throws
  <2>2. ASSUME ~r.threw, NEW e \in ConnectErrors(r.native[h], p),
               native' = [r.native EXCEPT ![h] = e[2]],
               socks' = [socks EXCEPT ![s] = r.sock]
        PROVE  Sound'
    <3>1. CASE started
      <4>1. Open(s, r)
        BY <2>2, <3>1, OpenWhenStarted
      <4>2. /\ r.sock \in SocketType /\ ~r.sock.connected
            /\ r.native[h] \in NativeType /\ Agrees(r.sock, r.native[h])
        BY <1>3, <4>1 DEF Open
      <4>3. e[2] \in NativeType /\ Agrees(r.sock, e[2])
        BY <2>2, <3>1, <4>2, ConnectFails
      <4> QED BY <1>1, <2>2, <3>1, <4>1, <4>2, <4>3, OpenChanges
    <3>2. CASE ~started
      <4>1. r.sock = socks[s] /\ r.native = native
        BY <2>2, <3>2, OpenWhenStarted
      <4>2. e[2] = r.native[h]
        BY <2>2, <3>2 DEF ConnectErrors
      <4>3. socks' = socks /\ native' = native
        BY <2>2, <4>1, <4>2 DEF Sound, TypeOK
      <4> QED BY <1>1, <4>3, Quiet DEF state
    <3> QED BY <3>1, <3>2
  <2>3. CASE ~r.threw /\ started /\ r.native[h].conn = "idle"
             /\ LET n == [r.native[h] EXCEPT !.conn = "up", !.bound = TRUE,
                                             !.peer = p]
                IN /\ native' = [r.native EXCEPT ![h] = n]
                   /\ \E o \in update_addresses([r.sock EXCEPT
                                                  !.connected = TRUE], n) :
                        socks' = [socks EXCEPT ![s] = o]
    <3> DEFINE n == [r.native[h] EXCEPT !.conn = "up", !.bound = TRUE, !.peer = p]
               c == [r.sock EXCEPT !.connected = TRUE]
    <3>1. Open(s, r)
      BY <2>3, OpenWhenStarted
    <3>2. n \in NativeType /\ c \in SocketType /\ c.handle = h /\ Agrees(c, n)
      BY <2>3, <3>1 DEF Open, NativeType, SocketType, Agrees
    <3>3. native' = [r.native EXCEPT ![h] = n]
      BY <2>3
    <3>4. PICK o \in update_addresses(c, n) : socks' = [socks EXCEPT ![s] = o]
      BY <2>3
    <3> HIDE DEF n, c
    <3>5. o \in SocketType /\ o.handle = h /\ Agrees(o, n)
      BY <3>2, <3>4, Addressed
    <3> QED BY <1>1, <2>3, <3>1, <3>2, <3>3, <3>4, <3>5, OpenChanges
  <2> QED BY <1>3, <2>1, <2>2, <2>3
<1>4. CASE ~socks[s].connected /\ ~UNCHANGED <<socks, native>>
  <2>1. PICK r \in init_socket(s), p \in Peers :
             \/ Throws("connect", s, r)
             \/ /\ ~r.threw
                /\ \E e \in ConnectErrors(r.native[r.sock.handle], p) :
                     /\ native' = [r.native EXCEPT ![r.sock.handle] = e[2]]
                     /\ Fails("connect", s, e[1])
                /\ socks' = [socks EXCEPT ![s] = r.sock]
             \/ /\ ~r.threw /\ started
                /\ r.native[r.sock.handle].conn = "idle"
                /\ r.native[r.sock.handle].mode
                /\ LET n == [r.native[r.sock.handle] EXCEPT
                               !.conn = "up", !.bound = TRUE, !.peer = p]
                   IN /\ native' = [r.native EXCEPT ![r.sock.handle] = n]
                      /\ \E o \in update_addresses([r.sock EXCEPT
                                                     !.connected = TRUE], n) :
                           socks' = [socks EXCEPT ![s] = o]
                /\ Answer("connect", s, "done")
    BY <1>4 DEF connect
  <2> QED BY <1>3, <1>4, <2>1
<1> QED BY <1>2, <1>4 DEF connect

\* listen changes an idle or listening native socket, or nothing.
LEMMA listenSound ==
  ASSUME Sound, NEW s \in Sockets, listen(s) PROVE Sound'
<1>1. UNCHANGED <<socks, is_initialized, started>>
  BY DEF listen
<1>2. CASE UNCHANGED native
  BY <1>1, <1>2, Quiet DEF state
<1>3. CASE /\ Is(s, "listening") \/ Is(s, "idle")
           /\ native' = [native EXCEPT ![socks[s].handle].conn = "listening"]
  <2> DEFINE h == socks[s].handle
             n == [native[h] EXCEPT !.conn = "listening"]
  <2>1. started /\ h \in Handles /\ native[h] \in NativeType
        /\ native[h].conn \in {"listening", "idle"}
    BY <1>3 DEF Is, Sound, TypeOK, SocketType
  <2>2. n \in NativeType /\ n.conn = "listening"
    BY <2>1 DEF NativeType
  <2>3. \A t \in Sockets : Agrees(socks[t], native[h]) => Agrees(socks[t], n)
    BY <2>1 DEF Agrees, NativeType
  <2>4. native' = [native EXCEPT ![h] = n]
    BY <1>3
  <2> HIDE DEF n
  <2> QED BY <1>1, <2>1, <2>2, <2>3, <2>4, Changes
<1> QED BY <1>2, <1>3 DEF listen

\* The native socket that accept makes.
LEMMA AcceptedAgrees ==
  ASSUME Sound, NEW s \in Sockets, Is(s, "listening"), NEW h \in Handles,
         NEW p \in Peers, NEW r \in Accepted(s, h, p)
  PROVE  /\ r.native \in NativeType /\ r.sock \in SocketType
         /\ r.sock.handle = h /\ Agrees(r.sock, r.native)
<1>1. /\ native[socks[s].handle] \in NativeType /\ socks[s].blocking \in BOOLEAN
  BY DEF Sound, TypeOK, SocketType, Is
<1> DEFINE c == [NewSocket(socks[s].blocking) EXCEPT !.handle = h, !.connected = TRUE]
           m == [native[socks[s].handle] EXCEPT !.conn = "up", !.peer = p,
                                                !.refused = FALSE]
<1>2. PICK n \in ModeTried(m, socks[s].blocking) :
        r \in {[native |-> n, sock |-> o] : o \in update_addresses(c, n)}
  BY DEF Accepted
<1>3. m \in NativeType /\ m.conn = "up" /\ m.peer = p
  BY <1>1 DEF NativeType
<1> HIDE DEF m
<1>4. /\ n \in NativeType /\ n.conn = "up" /\ n.peer = p
      /\ n.refused \/ n.mode = socks[s].blocking
  BY <1>1, <1>3 DEF ModeTried, NativeType
<1>5. /\ c \in SocketType /\ c.handle = h /\ c.blocking = socks[s].blocking
      /\ c.local = NoAddress /\ c.remote = NoAddress
  BY <1>1 DEF NewSocket, SocketType
<1> HIDE DEF c
<1>6. Agrees(c, n)
  BY <1>4, <1>5, SocketLifecycleAssumption DEF Agrees, SocketLifecycleAssumption
<1>7. r.native = n /\ r.sock \in update_addresses(c, n)
  BY <1>2
<1> QED BY <1>4, <1>5, <1>6, <1>7, Addressed

\* accept closes what the object accepted into holds, the listener itself too.
LEMMA acceptSound ==
  ASSUME Sound, NEW s \in Sockets, NEW t \in Sockets, accept(s, t) PROVE Sound'
<1>1. UNCHANGED <<is_initialized, started>>
  BY DEF accept
<1>2. CASE UNCHANGED <<socks, native>>
  BY <1>1, <1>2, Quiet DEF state
<1>3. ASSUME Is(s, "listening"), NEW h \in Unused, NEW p \in Peers,
             NEW r \in Accepted(s, h, p),
             native' = [Without(socks[t].handle) EXCEPT ![h] = r.native],
             socks'  = [socks EXCEPT ![t] = r.sock]
      PROVE  Sound'
  <2>1. started /\ h \in Handles /\ native[h].conn = "free" /\ h # NoHandle
    BY <1>3, SocketLifecycleAssumption DEF Unused, SocketLifecycleAssumption
  <2>2. /\ r.native \in NativeType /\ r.sock \in SocketType
        /\ r.sock.handle = h /\ Agrees(r.sock, r.native)
    BY <1>3, <2>1, AcceptedAgrees
  <2> QED BY <1>1, <1>3, <2>1, <2>2, Takes
<1> QED BY <1>2, <1>3 DEF accept

-----------------------------------------------------------------------------
(* Winsock, and the theorems.                                              *)

\* What changes between the calls: initialize, cleanup, connections.
LEMMA WinsockSound ==
  ASSUME Sound, Winsock PROVE Sound'
<1>1. CASE initialize
  <2>1. CASE is_initialized
    BY <1>1, <2>1, Quiet DEF initialize, state
  <2>2. CASE ~is_initialized
    <3>1. UNCHANGED <<socks, native>> /\ is_initialized' = TRUE /\ started' = TRUE
      BY <1>1, <2>2 DEF initialize
    <3>2. /\ \A s \in Sockets : socks[s].handle = NoHandle
          /\ \A h \in Handles : native[h].conn = "free"
      BY <2>2 DEF Sound, Unstarted
    <3> QED BY <3>1, <3>2
            DEF Sound, TypeOK, Agreed, Single, Kept, Unstarted
  <2> QED BY <2>1, <2>2
<1>2. CASE cleanup
  <2>1. UNCHANGED <<socks, is_initialized>> /\ started' = FALSE /\ started
        /\ native' = [h \in Handles |-> Free]
    BY <1>2 DEF cleanup
  <2>2. TypeOK'
    BY <2>1 DEF Sound, TypeOK, Free, NativeType
  <2>3. Unstarted'
    BY <2>1 DEF Sound, Unstarted
  <2> QED BY <2>1, <2>2, <2>3 DEF Sound
<1>3. ASSUME NEW h \in Handles, Settles(h) PROVE Sound'
  <2>1. native[h] \in NativeType /\ native[h].conn = "connecting"
    BY <1>3 DEF Sound, TypeOK, Settles
  <2> DEFINE up   == [native[h] EXCEPT !.conn = "up"]
             idle == [native[h] EXCEPT !.conn = "idle", !.peer = NoAddress]
  <2>2. PICK n \in {up, idle} : native' = [native EXCEPT ![h] = n]
    BY <1>3 DEF Settles, Sound, TypeOK
  <2>3. n \in NativeType /\ n.conn # "free"
    BY <2>1 DEF NativeType
  <2>4. \A s \in Sockets : Agrees(socks[s], native[h]) => Agrees(socks[s], n)
    BY <2>1 DEF Agrees, NativeType
  <2> HIDE DEF up, idle
  <2> QED BY <1>3, <2>1, <2>2, <2>3, <2>4, Changes DEF Settles
<1>4. ASSUME NEW h \in Handles, Breaks(h) PROVE Sound'
  <2> DEFINE n == [native[h] EXCEPT !.conn = "lost"]
  <2>1. native[h] \in NativeType /\ native[h].conn = "up"
    BY <1>4 DEF Sound, TypeOK, Breaks
  <2>2. n \in NativeType /\ n.conn # "free"
    BY <2>1 DEF NativeType
  <2>3. \A s \in Sockets : Agrees(socks[s], native[h]) => Agrees(socks[s], n)
    BY <2>1 DEF Agrees, NativeType
  <2>4. native' = [native EXCEPT ![h] = n]
    BY <1>4 DEF Breaks
  <2> HIDE DEF n
  <2> QED BY <1>4, <2>1, <2>2, <2>3, <2>4, Changes DEF Breaks
<1> QED BY <1>1, <1>2, <1>3, <1>4 DEF Winsock

\* Constructed objects hold no native socket, and Winsock is not started.
LEMMA SoundInit ==
  ASSUME Init PROVE Sound
<1>1. \A s \in Sockets : /\ socks[s] \in SocketType /\ socks[s].handle = NoHandle
                         /\ Bare(socks[s])
  BY NewAndMoved DEF Init
<1>2. TypeOK
  BY <1>1, NewAndMoved DEF Init, TypeOK, Free, NativeType
<1> QED BY <1>1, <1>2 DEF Init, Sound, Unstarted, Free

\* Every step.
LEMMA SoundNext ==
  ASSUME Sound, [Next]_vars PROVE Sound'
<1>1. CASE Winsock
  BY <1>1, WinsockSound
<1>2. ASSUME NEW s \in Sockets, Call(s) PROVE Sound'
  BY <1>2, bindSound, connectSound, listenSound, blockingSound, closeSound,
     acceptSound, MoveAssignSound DEF Call
<1>3. CASE UNCHANGED vars
  BY <1>3, Quiet DEF vars, state
<1> QED BY <1>1, <1>2, <1>3 DEF Next

\* The invariant that the others follow from: objects and native sockets are
\* paired while Winsock is started, and agree.
THEOREM SocketsSound == Spec => []Sound
<1> QED BY SoundInit, SoundNext, PTL DEF Spec

\* TypeOK: objects and native sockets have their types.
THEOREM TypeCorrect == Spec => []TypeOK
<1>1. Sound => TypeOK
  BY DEF Sound
<1> QED BY <1>1, SocketsSound, PTL

\* HandlesOwned: while Winsock is started every open native socket has exactly
\* one owner, whatever is moved, accepted into, or fails half-way.
THEOREM NothingLeaks == Spec => []HandlesOwned
<1>1. Sound => HandlesOwned
  BY SocketLifecycleAssumption
     DEF SocketLifecycleAssumption, Sound, Agreed, Agrees, Single, Kept,
         HandlesOwned, Holds
<1> QED BY <1>1, SocketsSound, PTL

\* ConnectedTrue: connected_ is only set on an object whose native socket was
\* connected.
THEOREM ConnectedHolds == Spec => []ConnectedTrue
<1>1. Sound => ConnectedTrue
  BY DEF Sound, Agreed, Agrees, Bare, ConnectedTrue
<1> QED BY <1>1, SocketsSound, PTL

\* ModeAgrees: blocking_ is the mode of the native socket, unless Winsock
\* refused that mode.
THEOREM ModeHolds == Spec => []ModeAgrees
<1>1. Sound => ModeAgrees
  BY DEF Sound, Agreed, Agrees, ModeAgrees
<1> QED BY <1>1, SocketsSound, PTL

\* AddressesCurrent: the addresses of an object are never those of a native
\* socket that it held before.
THEOREM AddressesHold == Spec => []AddressesCurrent
<1>1. Sound => AddressesCurrent
  BY DEF Sound, Agreed, Agrees, Bare, AddressesCurrent
<1> QED BY <1>1, SocketsSound, PTL

-----------------------------------------------------------------------------
(* What the results of calls say.                                          *)

\* The latest call and what it was answered.
Recorded == DOMAIN last = {"op", "on", "state"}

\* A call that changed the object to o and its native socket to n.
LEMMA Changed ==
  ASSUME Sound, NEW s \in Sockets, NEW r, Open(s, r), NEW o, NEW n,
         o.handle = r.sock.handle, socks' = [socks EXCEPT ![s] = o],
         native' = [r.native EXCEPT ![r.sock.handle] = n]
  PROVE  After(s) = n
<1>1. socks'[s] = o
  BY DEF Sound, TypeOK
<1>2. r.sock.handle \in Handles /\ native' = [native EXCEPT ![r.sock.handle] = n]
  BY DEF Open
<1>3. native'[r.sock.handle] = n
  BY <1>2 DEF Sound, TypeOK
<1> QED BY <1>1, <1>3 DEF After

\* A native socket that init_socket has just opened has no connection.
LEMMA OpenedIdle ==
  ASSUME Sound, NEW s \in Sockets, NEW r \in init_socket(s), ~r.threw,
         r.native[r.sock.handle].conn \in {"up", "lost"}
  PROVE  Repeated(s)
<1>1. CASE socks[s].handle # NoHandle
  <2>1. r.sock = socks[s] /\ r.native = native
    BY <1>1 DEF init_socket
  <2> QED BY <1>1, <2>1 DEF Repeated
<1>2. CASE socks[s].handle = NoHandle
  <2>1. r # [sock |-> socks[s], native |-> native, threw |-> TRUE]
    OBVIOUS
  <2>2. PICK h \in Unused, n \in ModeTried(Idle, socks[s].blocking) :
          r = [sock   |-> [socks[s] EXCEPT !.handle = h],
               native |-> [native EXCEPT ![h] = n], threw |-> n.refused]
    BY <1>2, <2>1 DEF init_socket
  <2>3. n.conn = "idle"
    BY DEF ModeTried, Idle, Free
  <2>4. h \in Handles
    BY DEF Unused
  <2>5. r.sock.handle = h /\ r.native[h] = n
    BY <2>2, <2>4 DEF Sound, TypeOK, SocketType
  <2> QED BY <2>3, <2>5
<1> QED BY <1>1, <1>2

\* What a failed ::connect is answered with.
LEMMA ConnectStates ==
  ASSUME started, NEW n \in NativeType, NEW p \in Peers,
         NEW e \in ConnectErrors(n, p)
  PROVE  /\ to_state(e[1]) = "done" =>
              e[2].conn \in {"up", "lost"} /\ n.conn \in {"up", "lost"}
         /\ to_state(e[1]) = "in_progress" => e[2].conn = "connecting"
<1>1. CASE n.conn = "idle"
  <2> DEFINE b == [n EXCEPT !.bound = TRUE]
             c == [n EXCEPT !.conn = "connecting", !.bound = TRUE, !.peer = p]
  <2>1. c.conn = "connecting"
    BY DEF NativeType
  <2>2. \/ e = <<"connection_refused", b>> \/ e = <<"timed_out", b>>
        \/ e = <<"would_block", c>>
    BY <1>1 DEF ConnectErrors
  <2> HIDE DEF b, c
  <2>3. \/ e[1] \in {"connection_refused", "timed_out"}
        \/ e[1] = "would_block" /\ e[2] = c
    BY <2>2
  <2> QED BY <2>1, <2>3 DEF to_state, ProgressErrors, ClosedErrors, DoneErrors
<1>2. CASE n.conn = "connecting"
  <2>1. e = <<"already_in_progress", n>>
    BY <1>2 DEF ConnectErrors
  <2> QED BY <1>2, <2>1 DEF to_state, ProgressErrors, ClosedErrors, DoneErrors
<1>3. CASE n.conn \in {"up", "lost"}
  <2>1. e = <<"is_connected", n>>
    BY <1>3 DEF ConnectErrors
  <2> QED BY <1>3, <2>1 DEF to_state, ProgressErrors, ClosedErrors, DoneErrors
<1>4. CASE n.conn \in {"free", "listening"}
  <2>1. e = <<"invalid", n>>
    BY <1>4 DEF ConnectErrors
  <2> QED BY <2>1 DEF to_state, ProgressErrors, ClosedErrors, DoneErrors
<1> QED BY <1>1, <1>2, <1>3, <1>4 DEF NativeType

\* A bind that is done bound the native socket that it opened.
LEMMA bindMeans ==
  ASSUME Sound, started, NEW s \in Sockets, bind(s)
  PROVE  last'.on = s /\ Means(last'.op, s, last'.state)
<1>1. PICK result : Answer("bind", s, result) /\ (result = "done" => After(s).bound)
  <2>1. CASE Answer("bind", s, "threw")
    BY <2>1
  <2>2. CASE Fails("bind", s, "addr_in_use")
    BY <2>2 DEF Fails, to_state, ProgressErrors, ClosedErrors, DoneErrors
  <2>3. ASSUME NEW r \in init_socket(s), ~r.threw,
               native' = [r.native EXCEPT ![r.sock.handle] =
                            [r.native[r.sock.handle] EXCEPT !.bound = TRUE]],
               NEW o \in update_addresses(r.sock,
                            [r.native[r.sock.handle] EXCEPT !.bound = TRUE]),
               socks' = [socks EXCEPT ![s] = o]
        PROVE  After(s).bound
    <3> DEFINE n == [r.native[r.sock.handle] EXCEPT !.bound = TRUE]
    <3>1. Open(s, r)
      BY <2>3, OpenWhenStarted
    <3>2. n \in NativeType /\ n.bound /\ Agrees(r.sock, n) /\ r.sock \in SocketType
      BY <3>1 DEF Open, NativeType, Agrees
    <3>3. o \in update_addresses(r.sock, n)
          /\ native' = [r.native EXCEPT ![r.sock.handle] = n]
      BY <2>3
    <3> HIDE DEF n
    <3>4. o.handle = r.sock.handle
      BY <3>2, <3>3, Addressed
    <3>5. After(s) = n
      BY <2>3, <3>1, <3>3, <3>4, Changed
    <3> QED BY <3>2, <3>5
  <2> QED BY <2>1, <2>2, <2>3 DEF bind, Throws
<1> QED BY <1>1 DEF Answer, Means

\* A connect that is done has a connection and has set connected_, unless it
\* found the connection; one that is in progress is under way.
LEMMA connectMeans ==
  ASSUME Sound, started, NEW s \in Sockets, connect(s)
  PROVE  last'.on = s /\ Means(last'.op, s, last'.state)
<1>1. CASE Answer("connect", s, "threw")
  BY <1>1 DEF Answer, Means
<1>2. ASSUME ~socks[s].connected,
             NEW r \in init_socket(s), ~r.threw, NEW p \in Peers,
             NEW e \in ConnectErrors(r.native[r.sock.handle], p),
             native' = [r.native EXCEPT ![r.sock.handle] = e[2]],
             socks' = [socks EXCEPT ![s] = r.sock],
             Fails("connect", s, e[1])
      PROVE  last'.on = s /\ Means(last'.op, s, last'.state)
  <2>1. Open(s, r)
    BY <1>2, OpenWhenStarted
  <2>2. r.native[r.sock.handle] \in NativeType
    BY <2>1 DEF Open
  <2>3. After(s) = e[2]
    BY <1>2, <2>1, Changed
  <2>4. /\ to_state(e[1]) = "done" =>
             After(s).conn \in {"up", "lost"} /\ Repeated(s)
        /\ to_state(e[1]) = "in_progress" => After(s).conn = "connecting"
    BY <1>2, <2>2, <2>3, ConnectStates, OpenedIdle
  <2>5. socks'[s] = r.sock /\ r.sock.connected = socks[s].connected
    BY <1>2, <2>1 DEF Open, Sound, TypeOK
  <2>6. ~socks'[s].connected
    BY <1>2, <2>5
  <2> QED BY <1>2, <2>4, <2>6 DEF Fails, Answer, Means
<1>3. ASSUME NEW r \in init_socket(s), ~r.threw, NEW p \in Peers,
             r.native[r.sock.handle].conn = "idle",
             LET n == [r.native[r.sock.handle] EXCEPT
                         !.conn = "up", !.bound = TRUE, !.peer = p]
             IN /\ native' = [r.native EXCEPT ![r.sock.handle] = n]
                /\ \E o \in update_addresses([r.sock EXCEPT !.connected = TRUE], n) :
                     socks' = [socks EXCEPT ![s] = o],
             Answer("connect", s, "done")
      PROVE  last'.on = s /\ Means(last'.op, s, last'.state)
  <2> DEFINE n == [r.native[r.sock.handle] EXCEPT
                     !.conn = "up", !.bound = TRUE, !.peer = p]
             c == [r.sock EXCEPT !.connected = TRUE]
  <2>1. Open(s, r)
    BY <1>3, OpenWhenStarted
  <2>2. n \in NativeType /\ n.conn = "up"
    BY <2>1 DEF Open, NativeType
  <2>3. /\ c \in SocketType /\ c.handle = r.sock.handle /\ Agrees(c, n)
        /\ c.connected
    BY <1>3, <2>1 DEF Open, NativeType, SocketType, Agrees
  <2>4. native' = [r.native EXCEPT ![r.sock.handle] = n]
    BY <1>3
  <2>5. PICK o \in update_addresses(c, n) : socks' = [socks EXCEPT ![s] = o]
    BY <1>3
  <2> HIDE DEF n, c
  <2>6. o.handle = r.sock.handle /\ o.connected = c.connected
    BY <2>2, <2>3, Addressed
  <2>7. After(s) = n
    BY <2>1, <2>4, <2>5, <2>6, Changed
  <2>8. socks'[s].connected
    BY <2>3, <2>5, <2>6 DEF Sound, TypeOK
  <2> QED BY <1>3, <2>2, <2>7, <2>8 DEF Answer, Means
<1>4. ASSUME ~Answer("connect", s, "threw")
      PROVE  ~socks[s].connected /\ \E r \in init_socket(s), p \in Peers :
               /\ ~r.threw
               /\ \/ /\ \E e \in ConnectErrors(r.native[r.sock.handle], p) :
                          /\ native' = [r.native EXCEPT ![r.sock.handle] = e[2]]
                          /\ Fails("connect", s, e[1])
                     /\ socks' = [socks EXCEPT ![s] = r.sock]
                  \/ /\ r.native[r.sock.handle].conn = "idle"
                     /\ LET n == [r.native[r.sock.handle] EXCEPT
                                    !.conn = "up", !.bound = TRUE, !.peer = p]
                        IN /\ native' = [r.native EXCEPT ![r.sock.handle] = n]
                           /\ \E o \in update_addresses([r.sock EXCEPT
                                                          !.connected = TRUE], n) :
                                socks' = [socks EXCEPT ![s] = o]
                     /\ Answer("connect", s, "done")
  BY <1>4 DEF connect, Throws
<1> QED BY <1>1, <1>2, <1>3, <1>4

\* A listen that is done is heard, unless the native socket had a connection.
LEMMA listenMeans ==
  ASSUME Sound, started, NEW s \in Sockets, listen(s)
  PROVE  last'.on = s /\ Means(last'.op, s, last'.state)
<1>1. socks' = socks
  BY DEF listen
<1>2. CASE /\ Is(s, "listening") \/ Is(s, "idle")
           /\ native' = [native EXCEPT ![socks[s].handle].conn = "listening"]
           /\ Answer("listen", s, "done")
  <2>1. socks[s].handle \in Handles /\ native[socks[s].handle] \in NativeType
    BY <1>2 DEF Is, Sound, TypeOK, SocketType
  <2>2. native'[socks[s].handle].conn = "listening"
    BY <1>2, <2>1 DEF Sound, TypeOK, NativeType
  <2> QED BY <1>1, <1>2, <2>2 DEF Answer, Means, After
<1>3. CASE /\ Is(s, "up") \/ Is(s, "lost")
           /\ UNCHANGED native
           /\ Fails("listen", s, "is_connected")
  <2>1. Repeated(s)
    BY <1>3 DEF Is, Repeated
  <2> QED BY <1>3, <2>1 DEF Fails, Answer, Means
<1>4. CASE Fails("listen", s, Unlistened)
  BY <1>4 DEF Fails, Answer, Means, Unlistened, to_state, ProgressErrors,
              ClosedErrors, DoneErrors
<1> QED BY <1>2, <1>3, <1>4 DEF listen

\* The other calls say nothing of a connection.
LEMMA OthersMean ==
  ASSUME NEW s \in Sockets,
         \/ blocking(s) \/ close(s) \/ Renew(s)
         \/ \E t \in Sockets : accept(s, t) \/ MoveAssign(s, t)
  PROVE  \E op \in {"blocking", "close", "renew", "accept", "move"} :
           \E result : Answer(op, s, result)
BY Zenon DEF blocking, close, Renew, accept, MoveAssign, Fails

\* The history keeps its form.
LEMMA RecordedNext ==
  ASSUME Recorded, [Next]_vars PROVE Recorded'
<1>1. CASE Winsock
  BY <1>1 DEF Winsock, initialize, cleanup, Settles, Breaks, Elsewhere, Recorded
<1>2. ASSUME NEW s \in Sockets, Call(s) PROVE Recorded'
  <2>1. PICK op, result : Answer(op, s, result)
    BY <1>2, Zenon DEF Call, bind, connect, listen, Throws, Fails, blocking,
                       close, Renew, accept, MoveAssign
  <2> QED BY <2>1 DEF Answer, Recorded
<1>3. CASE UNCHANGED vars
  BY <1>3 DEF vars, Recorded
<1> QED BY <1>1, <1>2, <1>3 DEF Next

\* AnswersTrue: the result of a call tells the state of the native socket, also
\* when a call is repeated on one that is connecting.  Of a call on a native
\* socket that had its connection already it says less: such a listen is not
\* heard (ListenDone), such a connect may leave connected_ unset.
THEOREM AnswersHold == Spec => AnswersTrue
<1>1. Init => Recorded
  BY DEF Init, Recorded
<1>2. Recorded /\ [Next]_vars => Recorded'
  BY RecordedNext
<1>3. Sound /\ Recorded /\ [Next]_vars => [AnswerTrue]_vars
  <2> SUFFICES ASSUME Sound, Recorded, Next, started
               PROVE  Means(last'.op, last'.on, last'.state)
    BY DEF AnswerTrue
  <2>1. CASE Winsock
    <3>1. last'.op = "winsock"
      BY <2>1 DEF Winsock, initialize, cleanup, Settles, Breaks, Elsewhere, Recorded
    <3> QED BY <3>1 DEF Means
  <2>2. ASSUME NEW s \in Sockets, Call(s)
        PROVE  Means(last'.op, last'.on, last'.state)
    <3>1. CASE bind(s) \/ connect(s) \/ listen(s)
      BY <3>1, bindMeans, connectMeans, listenMeans
    <3>2. CASE \/ blocking(s) \/ close(s) \/ Renew(s)
               \/ \E t \in Sockets : accept(s, t) \/ MoveAssign(s, t)
      BY <3>2, OthersMean DEF Answer, Means
    <3> QED BY <2>2, <3>1, <3>2 DEF Call
  <2> QED BY <2>1, <2>2 DEF Next
<1> QED BY <1>1, <1>2, <1>3, SocketsSound, PTL DEF Spec, AnswersTrue
=============================================================================
