----------------------------- MODULE OrderProofs -----------------------------
(***************************************************************************)
(* A TcpChannel is a PacketChannel: while its ends agree where packets     *)
(* start, what receive() delivers was sent, in order, and twice only if    *)
(* send() did not say that it was sent (theorem PacketsInOrder); between   *)
(* blocking sockets on one connection nothing is left out either (theorem  *)
(* NoPacketIsLost).                                                        *)
(*                                                                         *)
(* PacketsAreFramed says that each delivery is some message.  Here is said *)
(* which one it is.  The argument is a trail through the bytes on their    *)
(* way, the rest of a packet in the loop of send() included: the places    *)
(* where messages start, each with the number of the message.  From place  *)
(* to place the number grows, or stays if the message is doubtful; so it   *)
(* does from what was delivered to what is on its way, and from there to   *)
(* the message that the sender works on.  Sending puts a start at the end, *)
(* receiving takes the first one away; a message that is given up, or      *)
(* taken and not delivered, leaves a gap, which only a socket that does    *)
(* not block, or a second connection, can make.                            *)
(*                                                                         *)
(* Nothing is assumed of the sockets, the stack or the network but what    *)
(* module TcpChannel says of them.                                         *)
(***************************************************************************)
EXTENDS FramingProofs

\* No two messages are the same: a delivery has only its bytes to tell which one
\* it was.
Distinct == \A i, j \in 1 .. Len(Messages) : Messages[i] = Messages[j] => i = j

\* Neither end is answered with would_block, and no second connection is made.
Patient  == SendBlocking /\ RecvBlocking /\ Connections = 1

-----------------------------------------------------------------------------
(* The inductive invariant.                                                *)

\* Where the message with this number ends that starts at c.
EndOf(c, i) == c + 2 + Len(Messages[i])

\* Message j may be in front of message i, when these are sent again.
Precedes(j, i, twice) == j < i \/ (j = i /\ i \in twice)

\* The trail num says where messages start in the bytes w, and which they are:
\* each ends where the next one starts, and is in front of those behind it.
\* One whose length was taken starts in front of w, at -2.
Trail(w, num, twice) ==
  \A c \in DOMAIN num :
    /\ c \in -2 .. Len(w) - 1 /\ num[c] \in 1 .. Len(Messages)
    /\ At(w, c + 2, Messages[num[c]])
    /\ c >= 0 => Number(<<w[c + 1], w[c + 2]>>) = Len(Messages[num[c]])
    /\ EndOf(c, num[c]) \in DOMAIN num \cup {Len(w)}
    /\ \A d \in DOMAIN num :
         d > c => d >= EndOf(c, num[c]) /\ Precedes(num[c], num[d], twice)

\* With this length known or none, the receiver is at a start.
First(t) == IF t = -1 THEN 0 ELSE -2

Stands(w, t, num) ==
  /\ \A c \in DOMAIN num : c >= First(t)
  /\ First(t) \in DOMAIN num \cup {Len(w)}
  /\ t # -1 => t = Len(Messages[num[-2]])

\* What is delivered is in front of what is on its way.
Recent(num, out, twice) ==
  \A c \in DOMAIN num : \A x \in out : Precedes(x, num[c], twice)

\* And that is in front of what the sender works on, unless it is that, in the
\* loop, and the last.
Entered(w, num, hi, twice, pc) ==
  \A c \in DOMAIN num :
    \/ Precedes(num[c], hi, twice)
    \/ pc = "loop" /\ num[c] = hi /\ EndOf(c, hi) = Len(w)

\* No message is left out.
Gapless(num, out, hi) ==
  \A i \in 1 .. hi - 1 : i \in out \/ \E c \in DOMAIN num : num[c] = i

\* The bytes w can be read so.
Follows(w, t, out, twice, hi, pc) ==
  \E num : /\ Trail(w, num, twice) /\ Stands(w, t, num) /\ Recent(num, out, twice)
           /\ Entered(w, num, hi, twice, pc)
           /\ Patient => Gapless(num, out, hi)

\* The numbers of what was delivered.
Out == {Numbers[n] : n \in DOMAIN delivered}

\* What is delivered and what is on its way are messages that were sent, in
\* order.
Ordered ==
  /\ \A x \in Out : Precedes(x, next, doubtful)
  /\ ~torn /\ ~broken =>
       Follows(Stream, rpkt.recv_target, Out, doubtful, next, spc)
  /\ Patient => spc # "loop"
  /\ Patient /\ ~broken => rerr = "none"

-----------------------------------------------------------------------------
(* Trails.                                                                 *)

\* A message is bytes, at least one.
LEMMA Payload ==
  ASSUME NEW i \in 1 .. Len(Messages)
  PROVE  /\ Messages[i] \in Seq(Byte) /\ Len(Messages[i]) \in Nat
         /\ Len(Messages[i]) >= 1
BY Frames, Constants

\* What a trail says of one start.
LEMMA Starts ==
  ASSUME NEW w \in Seq(Byte), NEW num, NEW twice, Trail(w, num, twice),
         NEW c \in DOMAIN num
  PROVE  /\ c \in Int /\ c >= -2 /\ c < Len(w) /\ Len(w) \in Nat
         /\ num[c] \in Nat /\ num[c] >= 1 /\ num[c] \in 1 .. Len(Messages)
         /\ Messages[num[c]] \in Seq(Byte)
         /\ Len(Messages[num[c]]) \in Nat /\ Len(Messages[num[c]]) >= 1
         /\ c + 2 + Len(Messages[num[c]]) <= Len(w)
PROOF
  <1>1. Len(w) \in Nat /\ Len(Messages) \in Nat
    BY TcpChannelAssumption
  <1>2. c \in -2 .. Len(w) - 1 /\ num[c] \in 1 .. Len(Messages)
        /\ At(w, c + 2, Messages[num[c]])
    BY DEF Trail
  <1>3. c \in Int /\ c >= -2 /\ c < Len(w) /\ num[c] \in 1 .. Len(Messages)
        /\ num[c] \in Nat /\ num[c] >= 1
    BY <1>1, <1>2
  <1>4. /\ Messages[num[c]] \in Seq(Byte)
        /\ Len(Messages[num[c]]) \in Nat /\ Len(Messages[num[c]]) >= 1
    BY <1>3, Payload
  <1>5. c + 2 + Len(Messages[num[c]]) <= Len(w)
    BY <1>2 DEF At
  <1>6. QED
    BY <1>1, <1>3, <1>4, <1>5

\* Bytes c to c + 2 + m of n were bytes e to e + 2 + m before k were taken.
Shifts(n, v, k, c, e, m, first) ==
  /\ {n, v, k, m} \subseteq Nat /\ {c, e, first} \subseteq Int
  /\ v = n + k /\ e = c + k /\ c >= -2 /\ m >= 1 /\ e + 2 + m <= v /\ c >= first

Shifted(n, v, k, c, e, m, first) ==
  /\ c + 2 \in Nat /\ c + 2 + k = e + 2 /\ c \in -2 .. n - 1
  /\ c + 2 + m \in Int /\ c + 2 + m + k = e + 2 + m
  /\ e + 2 + m = v => c + 2 + m = n
  /\ c >= 0 => /\ c + 1 \in 1 .. n /\ c + 2 \in 1 .. n /\ e >= 0
               /\ c + 1 + k = e + 1 /\ c + 2 + k = e + 2
  /\ \A d \in Int : d > c => d + k > e
  /\ \A d \in Int : d + k >= e + 2 + m => d >= c + 2 + m
  /\ e >= first + k /\ c + 2 + m >= first

\* The one is what it takes for the other.
LEMMA Moved ==
  ASSUME NEW n, NEW v, NEW k, NEW c, NEW e, NEW m, NEW first,
         Shifts(n, v, k, c, e, m, first)
  PROVE  Shifted(n, v, k, c, e, m, first)
BY DEF Shifts, Shifted

\* The starts behind the first k bytes, from one place on.
Rest(num, k, first, n) ==
  [c \in {x \in first .. n - 1 : x + k \in DOMAIN num} |-> num[c + k]]

\* The first k bytes are taken.
LEMMA TrailShifted ==
  ASSUME NEW w \in Seq(Byte), NEW num, NEW twice, Trail(w, num, twice), NEW k \in Nat, k <= Len(w), NEW s \in Seq(Byte),
         Len(s) = Len(w) - k, \A j \in 1 .. Len(s) : s[j] = w[j + k],
         NEW first \in Int, first >= -2
  PROVE  Trail(s, Rest(num, k, first, Len(s)), twice)
PROOF
  <1> DEFINE n    == Len(s)
             rest == Rest(num, k, first, n)
  <1>1. n \in Nat /\ Len(w) \in Nat /\ Len(w) = n + k
    OBVIOUS
  <1>2. DOMAIN rest = {x \in first .. n - 1 : x + k \in DOMAIN num}
        /\ \A c \in DOMAIN rest : rest[c] = num[c + k]
    BY DEF Rest
  <1> HIDE DEF n, rest
  <1>3. ASSUME NEW c \in DOMAIN rest
        PROVE  /\ c \in -2 .. n - 1 /\ rest[c] \in 1 .. Len(Messages)
               /\ At(s, c + 2, Messages[rest[c]])
               /\ c >= 0 => Number(<<s[c + 1], s[c + 2]>>) = Len(Messages[rest[c]])
               /\ EndOf(c, rest[c]) \in DOMAIN rest \cup {n}
               /\ \A d \in DOMAIN rest :
                    d > c => d >= EndOf(c, rest[c]) /\ Precedes(rest[c], rest[d], twice)
    <2> DEFINE e == c + k
               i == num[e]
               m == Len(Messages[i])
    <2>1. c \in Int /\ c >= first /\ c <= n - 1 /\ e \in DOMAIN num /\ rest[c] = i
      BY <1>1, <1>2
    <2>2. /\ e \in Int /\ e >= -2 /\ e < Len(w)
          /\ i \in 1 .. Len(Messages) /\ Messages[i] \in Seq(Byte)
          /\ m \in Nat /\ m >= 1 /\ e + 2 + m <= Len(w)
      BY <2>1, Starts
    <2>3. /\ At(w, e + 2, Messages[i])
          /\ e >= 0 => Number(<<w[e + 1], w[e + 2]>>) = m
          /\ EndOf(e, i) \in DOMAIN num \cup {Len(w)}
          /\ \A d \in DOMAIN num :
               d > e => d >= EndOf(e, i) /\ Precedes(i, num[d], twice)
      BY <2>1 DEF Trail
    <2>4. e = c + k
      OBVIOUS
    <2>5. EndOf(e, i) = e + 2 + m /\ EndOf(c, i) = c + 2 + m
      BY DEF EndOf
    <2>6. c >= -2
      BY <2>1
    <2> HIDE DEF e, i, m
    <2> DEFINE v == Len(w)
    <2>7. v \in Nat /\ v = n + k /\ e + 2 + m <= v
      BY <1>1, <2>2
    <2> HIDE DEF v
    <2>8. Shifts(n, v, k, c, e, m, first)
      BY <1>1, <2>1, <2>2, <2>4, <2>6, <2>7 DEF Shifts
    <2>9. Shifted(n, v, k, c, e, m, first)
      BY <2>8, Moved
    <2>10. At(s, c + 2, Messages[i])
      <3> DEFINE b == c + 2
      <3>1. b \in Nat /\ At(w, b + k, Messages[i])
        BY <2>3, <2>9 DEF Shifted
      <3> HIDE DEF b
      <3>2. At(s, b, Messages[i])
        BY <2>2, <3>1, AtShifted
      <3>3. QED
        BY <3>2 DEF b
    <2>11. c >= 0 => Number(<<s[c + 1], s[c + 2]>>) = m
      <3>1. SUFFICES ASSUME c >= 0 PROVE Number(<<s[c + 1], s[c + 2]>>) = m
        OBVIOUS
      <3>2. s[c + 1] = w[c + 1 + k] /\ s[c + 2] = w[c + 2 + k]
        BY <2>9, <3>1 DEF n, Shifted
      <3>3. s[c + 1] = w[e + 1] /\ s[c + 2] = w[e + 2] /\ e >= 0
        BY <2>9, <3>1, <3>2 DEF Shifted
      <3>4. QED
        BY <2>3, <3>3
    <2>12. EndOf(c, i) \in DOMAIN rest \cup {n}
      <3>1. CASE EndOf(e, i) = v
        BY <2>5, <2>9, <3>1 DEF Shifted
      <3>2. CASE EndOf(e, i) \in DOMAIN num
        <4> DEFINE x == c + 2 + m
        <4>1. e + 2 + m < v
          BY <2>5, <3>2, Starts DEF v
        <4>2. x + k \in DOMAIN num
          BY <2>5, <2>9, <3>2 DEF Shifted
        <4>3. x \in Int /\ x >= first /\ x + k < v
          BY <2>9, <4>1 DEF Shifted
        <4> HIDE DEF x
        <4>4. x \in first .. n - 1
          BY <1>1, <2>7, <4>3
        <4>5. x \in DOMAIN rest
          BY <1>2, <4>2, <4>4
        <4>6. QED
          BY <2>5, <4>5 DEF x
      <3>3. QED
        BY <2>3, <3>1, <3>2 DEF v
    <2>13. ASSUME NEW d \in DOMAIN rest, d > c
           PROVE  d >= EndOf(c, i) /\ Precedes(i, rest[d], twice)
      <3>1. d \in Int /\ d + k \in DOMAIN num /\ rest[d] = num[d + k]
        BY <1>1, <1>2
      <3>2. d + k > e
        BY <2>9, <2>13, <3>1 DEF Shifted
      <3>3. d + k >= e + 2 + m /\ Precedes(i, num[d + k], twice)
        BY <2>3, <2>5, <3>1, <3>2
      <3>4. QED
        BY <2>5, <2>9, <3>1, <3>3 DEF Shifted
    <2>14. QED
      BY <2>1, <2>2, <2>9, <2>10, <2>11, <2>12, <2>13 DEF m, Shifted
  <1>4. QED
    BY <1>3 DEF Trail, n, rest

\* The places that a trail names, with its end.
LEMMA NamedPlaces ==
  ASSUME NEW w \in Seq(Byte), NEW num, NEW twice, Trail(w, num, twice),
         NEW x \in DOMAIN num \cup {Len(w)}
  PROVE  x \in Int /\ x <= Len(w)
PROOF
  <1>1. CASE x \in DOMAIN num
    BY <1>1, Starts
  <1>2. CASE x = Len(w)
    BY <1>2
  <1>3. QED
    BY <1>1, <1>2

\* A place that a trail names is named, moved, by the trail of what is left.
LEMMA Named ==
  ASSUME NEW w \in Seq(Byte), NEW num, NEW twice, Trail(w, num, twice),
         NEW k \in Nat, NEW n \in Nat, Len(w) = n + k,
         NEW first \in Int, NEW x \in DOMAIN num \cup {Len(w)}, x - k >= first
  PROVE  x - k \in DOMAIN Rest(num, k, first, n) \cup {n}
PROOF
  <1> DEFINE y == x - k
             v == Len(w)
  <1>1. x \in Int /\ v \in Nat
    BY NamedPlaces
  <1>2. y \in Int /\ y + k = x /\ v = n + k
    BY <1>1
  <1>3. CASE x = v
    <2>1. y = n
      BY <1>2, <1>3
    <2>2. QED
      BY <2>1
  <1>4. CASE x \in DOMAIN num
    <2>1. x < v
      BY <1>4, Starts
    <2>2. y >= first
      OBVIOUS
    <2> HIDE DEF y, v
    <2>3. y <= n - 1
      BY <1>1, <1>2, <2>1
    <2>4. y \in first .. n - 1 /\ y + k \in DOMAIN num
      BY <1>2, <1>4, <2>2, <2>3
    <2>5. y \in DOMAIN Rest(num, k, first, n)
      BY <2>4 DEF Rest
    <2>6. QED
      BY <2>5 DEF y
  <1>5. QED
    BY <1>3, <1>4 DEF v

\* What is in front of the sender's message stays so.
LEMMA RestEntered ==
  ASSUME NEW w \in Seq(Byte), NEW num, NEW twice, Trail(w, num, twice),
         NEW k \in Nat, NEW n \in Nat, Len(w) = n + k, NEW first \in Int,
         NEW hi, NEW pc, Entered(w, num, hi, twice, pc), NEW s, Len(s) = n
  PROVE  Entered(s, Rest(num, k, first, n), hi, twice, pc)
PROOF
  <1> DEFINE rest == Rest(num, k, first, n)
  <1>1. \A c \in DOMAIN rest :
          c \in Int /\ c + k \in DOMAIN num /\ rest[c] = num[c + k]
    BY DEF Rest
  <1> HIDE DEF rest
  <1>2. ASSUME NEW c \in DOMAIN rest
        PROVE  \/ Precedes(rest[c], hi, twice)
               \/ pc = "loop" /\ rest[c] = hi /\ EndOf(c, hi) = Len(s)
    <2>1. \/ Precedes(num[c + k], hi, twice)
          \/ pc = "loop" /\ num[c + k] = hi /\ EndOf(c + k, hi) = Len(w)
      BY <1>1 DEF Entered
    <2>2. ASSUME num[c + k] = hi, EndOf(c + k, hi) = Len(w)
          PROVE  EndOf(c, hi) = n
      <3> DEFINE m == Len(Messages[hi])
      <3>1. m \in Nat
        BY <1>1, <2>2, Starts
      <3>2. c + k + 2 + m = n + k
        BY <2>2 DEF EndOf
      <3> HIDE DEF m
      <3>3. c + 2 + m = n
        BY <1>1, <3>1, <3>2
      <3>4. QED
        BY <3>3 DEF EndOf, m
    <2>3. QED
      BY <1>1, <2>1, <2>2
  <1>3. QED
    BY <1>2 DEF Entered, rest

\* A length is taken: it is the next message's, and what follows is that.
LEMMA LengthTaken ==
  ASSUME NEW w \in Seq(Byte), Len(w) >= 2, NEW out, NEW twice, NEW hi, NEW pc,
         NEW t, t = -1, Follows(w, t, out, twice, hi, pc)
  PROVE  /\ Number(w) > 0
         /\ \A s : IsBehind(s, w, 2) => Follows(s, Number(w), out, twice, hi, pc)
PROOF
  <1> DEFINE n == Len(w)
  <1>1. PICK num : /\ Trail(w, num, twice) /\ Stands(w, t, num) /\ Recent(num, out, twice)
                   /\ Entered(w, num, hi, twice, pc)
                   /\ Patient => Gapless(num, out, hi)
    BY DEF Follows
  <1>2. /\ \A c \in DOMAIN num : c >= 0
        /\ 0 \in DOMAIN num \cup {n}
    BY <1>1 DEF Stands, First
  <1>3. n \in Nat /\ n > 0
    OBVIOUS
  <1>4. 0 \in DOMAIN num
    BY <1>2, <1>3
  <1> DEFINE i == num[0]
             m == Len(Messages[i])
  <1>5. /\ i \in 1 .. Len(Messages) /\ m \in Nat /\ m >= 1 /\ 0 + 2 + m <= n
    BY <1>1, <1>4, Starts
  <1>6. Number(<<w[0 + 1], w[0 + 2]>>) = m
    BY <1>1, <1>4 DEF Trail
  <1>7. Number(w) = m
    BY <1>6 DEF Number
  <1> HIDE DEF n, i, m
  <1>8. ASSUME NEW s, IsBehind(s, w, 2)
        PROVE  Follows(s, m, out, twice, hi, pc)
    <2> DEFINE first == -2
               v     == Len(s)
               rest  == Rest(num, 2, first, v)
    <2>1. s \in Seq(Byte) /\ v \in Nat /\ n = v + 2
      BY <1>3, <1>8 DEF IsBehind, n
    <2>2. first \in Int /\ first >= -2 /\ first = -2
      OBVIOUS
    <2> HIDE DEF first
    <2>3. Trail(s, rest, twice)
      <3>1. 2 \in Nat /\ 2 <= Len(w) /\ Len(s) = Len(w) - 2
            /\ \A j \in 1 .. Len(s) : s[j] = w[j + 2]
        BY <1>5, <1>8 DEF IsBehind, n
      <3>2. QED
        BY <1>1, <2>1, <2>2, <3>1, TrailShifted
    <2>4. Entered(s, rest, hi, twice, pc)
      <3>1. 2 \in Nat
        OBVIOUS
      <3>2. QED
        BY <1>1, <2>1, <2>2, <3>1, RestEntered DEF n
    <2>5. DOMAIN rest = {x \in first .. v - 1 : x + 2 \in DOMAIN num}
          /\ \A c \in DOMAIN rest : rest[c] = num[c + 2]
      BY DEF Rest
    <2> HIDE DEF rest, v
    <2>6. -2 \in DOMAIN rest /\ rest[-2] = i
      <3>1. -2 \in first .. v - 1 /\ -2 + 2 = 0
        BY <2>1, <2>2
      <3>2. QED
        BY <1>4, <2>5, <3>1 DEF i
    <2>7. \A c \in DOMAIN rest : c >= -2
      BY <2>1, <2>2, <2>5
    <2>8. m # -1
      BY <1>5
    <2>9. Stands(s, m, rest)
      BY <2>6, <2>7, <2>8 DEF Stands, First, m, v
    <2>10. Recent(rest, out, twice)
      BY <1>1, <2>5 DEF Recent
    <2>11. ASSUME Patient PROVE Gapless(rest, out, hi)
      <3>1. SUFFICES ASSUME NEW j \in 1 .. hi - 1, j \notin out
                     PROVE  \E c \in DOMAIN rest : rest[c] = j
        BY DEF Gapless
      <3>2. PICK c \in DOMAIN num : num[c] = j
        BY <1>1, <2>11, <3>1 DEF Gapless
      <3> DEFINE x == c - 2
      <3>3. c \in Int /\ c < n /\ c >= 0
        BY <1>1, <1>2, Starts DEF n
      <3>4. x + 2 = c /\ x \in first .. v - 1
        BY <2>1, <2>2, <3>3
      <3>5. x \in DOMAIN rest
        BY <2>5, <3>4
      <3>6. QED
        BY <2>5, <3>2, <3>4, <3>5
    <2>12. QED
      BY <2>3, <2>4, <2>9, <2>10, <2>11 DEF Follows
  <1>9. QED
    BY <1>5, <1>7, <1>8

\* A payload is taken, and not the one in the loop: it is the first message's,
\* and the next one follows.
LEMMA PayloadTaken ==
  ASSUME NEW w \in Seq(Byte), NEW out, NEW twice, NEW hi \in Nat, NEW pc,
         NEW t, t # -1, Follows(w, t, out, twice, hi, pc),
         pc = "loop" => t < Len(w)
  PROVE  /\ t \in Nat
         /\ \E m \in 1 .. Len(Messages) :
              /\ \A d : IsFront(d, w, t) => d = Messages[m]
              /\ Precedes(m, hi, twice)
              /\ \A x \in out : Precedes(x, m, twice)
              /\ Patient => \A j \in 1 .. m - 1 : j \in out
              /\ \A s : IsBehind(s, w, t) =>
                   Follows(s, -1, out \cup {m}, twice, hi, pc)
PROOF
  <1> DEFINE n == Len(w)
             b == -2
  <1>1. PICK num : /\ Trail(w, num, twice) /\ Stands(w, t, num) /\ Recent(num, out, twice)
                   /\ Entered(w, num, hi, twice, pc)
                   /\ Patient => Gapless(num, out, hi)
    BY DEF Follows
  <1>2. /\ b \in DOMAIN num \cup {n} /\ t = Len(Messages[num[b]])
        /\ \A c \in DOMAIN num : c >= b
    BY <1>1 DEF Stands, First
  <1>3. n \in Nat /\ b < 0 /\ b \in Int /\ b + 2 = 0
    OBVIOUS
  <1> HIDE DEF b, n
  <1>4. b \in DOMAIN num
    BY <1>2, <1>3
  <1> DEFINE m == num[b]
  <1>5. /\ m \in 1 .. Len(Messages) /\ m \in Nat /\ m >= 1
        /\ t \in Nat /\ t >= 1 /\ b + 2 + t <= n /\ Messages[m] \in Seq(Byte)
    BY <1>1, <1>2, <1>4, Starts DEF n
  <1>6. /\ At(w, 0, Messages[m])
        /\ EndOf(b, m) \in DOMAIN num \cup {n}
        /\ \A d \in DOMAIN num : d > b => d >= EndOf(b, m) /\ Precedes(m, num[d], twice)
    BY <1>1, <1>3, <1>4 DEF Trail, n
  <1>7. EndOf(b, m) = t /\ t <= n
    <2>1. EndOf(b, m) = b + 2 + t
      BY <1>2 DEF EndOf
    <2>2. QED
      BY <1>3, <1>5, <2>1
  <1>8. /\ t \in DOMAIN num \cup {n}
        /\ \A d \in DOMAIN num : d > b => d >= t /\ Precedes(m, num[d], twice)
    BY <1>6, <1>7
  <1>9. Precedes(m, hi, twice)
    <2>1. Precedes(m, hi, twice) \/ (pc = "loop" /\ m = hi /\ EndOf(b, hi) = n)
      BY <1>1, <1>4 DEF Entered, n
    <2>2. ~(pc = "loop" /\ m = hi /\ EndOf(b, hi) = n)
      <3>1. SUFFICES ASSUME pc = "loop", m = hi, EndOf(b, hi) = n PROVE FALSE
        OBVIOUS
      <3>2. t < n /\ t = n
        BY <1>7, <3>1 DEF n
      <3>3. QED
        BY <1>3, <1>5, <3>2
    <2>3. QED
      BY <2>1, <2>2
  <1>10. \A x \in out : Precedes(x, m, twice)
    BY <1>1, <1>4 DEF Recent
  <1>11. ASSUME NEW d, IsFront(d, w, t) PROVE d = Messages[m]
    <2>1. /\ d \in Seq(Byte) /\ Len(d) = Len(Messages[m])
          /\ \A j \in 1 .. Len(d) : d[j] = w[j]
      BY <1>2, <1>11 DEF IsFront
    <2>2. \A j \in 1 .. Len(d) : w[j] = Messages[m][j]
      <3>1. \A j \in 1 .. Len(Messages[m]) : w[0 + j] = Messages[m][j]
        BY <1>6 DEF At
      <3>2. \A j \in 1 .. Len(d) : 0 + j = j
        OBVIOUS
      <3>3. QED
        BY <2>1, <3>1, <3>2
    <2> HIDE DEF m
    <2>3. QED
      BY <1>5, <2>1, <2>2, SameBytes
  <1>12. ASSUME Patient, NEW j \in 1 .. m - 1 PROVE j \in out
    <2>1. j \in Nat /\ j < m /\ m <= hi
      BY <1>5, <1>9 DEF Precedes
    <2>2. j \in 1 .. hi - 1
      BY <1>5, <2>1
    <2>3. SUFFICES ASSUME NEW c \in DOMAIN num, num[c] = j PROVE FALSE
      BY <1>1, <1>12, <2>2 DEF Gapless
    <2>4. c \in Int /\ c >= b
      BY <1>1, <1>2, Starts
    <2>5. CASE c = b
      BY <1>5, <2>1, <2>3, <2>5
    <2>6. CASE c > b
      <3>1. Precedes(m, j, twice)
        BY <1>8, <2>3, <2>6
      <3>2. QED
        BY <1>5, <2>1, <3>1 DEF Precedes
    <2>7. QED
      BY <1>3, <2>4, <2>5, <2>6
  <1>13. ASSUME NEW s, IsBehind(s, w, t)
         PROVE  Follows(s, -1, out \cup {m}, twice, hi, pc)
    <2> DEFINE first == 0
               v     == Len(s)
               rest  == Rest(num, t, first, v)
    <2>1. s \in Seq(Byte) /\ v \in Nat /\ n = v + t /\ n = Len(w)
      BY <1>3, <1>5, <1>13 DEF IsBehind, n
    <2>2. first \in Int /\ first >= -2 /\ first = 0
      OBVIOUS
    <2> HIDE DEF first, m
    <2>3. Trail(s, rest, twice)
      <3>1. t \in Nat /\ t <= Len(w) /\ Len(s) = Len(w) - t
            /\ \A j \in 1 .. Len(s) : s[j] = w[j + t]
        BY <1>5, <1>7, <1>13 DEF IsBehind, n
      <3>2. QED
        BY <1>1, <2>1, <2>2, <3>1, TrailShifted
    <2>4. Entered(s, rest, hi, twice, pc)
      BY <1>1, <1>5, <2>1, <2>2, RestEntered
    <2>5. DOMAIN rest = {x \in first .. v - 1 : x + t \in DOMAIN num}
          /\ \A c \in DOMAIN rest : rest[c] = num[c + t]
      BY DEF Rest
    <2> HIDE DEF rest, v
    <2>6. 0 \in DOMAIN rest \cup {v}
      <3>1. t - t = 0 /\ t - t >= first
        BY <1>5, <2>2
      <3>2. t - t \in DOMAIN rest \cup {v}
        BY <1>1, <1>5, <1>8, <2>1, <2>2, <3>1, Named DEF rest, v, n
      <3>3. QED
        BY <3>1, <3>2
    <2>7. \A c \in DOMAIN rest : c \in Int /\ c >= 0
      BY <2>1, <2>2, <2>5
    <2>8. Stands(s, -1, rest)
      BY <2>6, <2>7 DEF Stands, First, v
    <2>9. Recent(rest, out \cup {m}, twice)
      <3>1. ASSUME NEW c \in DOMAIN rest
            PROVE  \A x \in out \cup {m} : Precedes(x, rest[c], twice)
        <4>1. c + t \in DOMAIN num /\ rest[c] = num[c + t]
          BY <2>5
        <4>2. c + t > b
          BY <1>3, <1>5, <2>7
        <4>3. Precedes(m, rest[c], twice)
          BY <1>8, <4>1, <4>2
        <4>4. \A x \in out : Precedes(x, rest[c], twice)
          BY <1>1, <4>1 DEF Recent
        <4>5. QED
          BY <4>3, <4>4
      <3>2. QED
        BY <3>1 DEF Recent
    <2>10. ASSUME Patient PROVE Gapless(rest, out \cup {m}, hi)
      <3>1. SUFFICES ASSUME NEW j \in 1 .. hi - 1, j \notin out, j # m
                     PROVE  \E c \in DOMAIN rest : rest[c] = j
        BY DEF Gapless
      <3>2. PICK c \in DOMAIN num : num[c] = j
        BY <1>1, <2>10, <3>1 DEF Gapless
      <3> DEFINE x == c - t
      <3>3. c \in Int /\ c < n /\ c >= b
        BY <1>1, <1>2, Starts DEF n
      <3>4. c # b
        BY <3>1, <3>2 DEF m
      <3>5. c >= t
        BY <1>3, <1>8, <3>3, <3>4
      <3>6. x + t = c /\ x \in first .. v - 1
        BY <1>5, <2>1, <2>2, <3>3, <3>5
      <3>7. x \in DOMAIN rest
        BY <2>5, <3>6
      <3>8. QED
        BY <2>5, <3>2, <3>6, <3>7
    <2>11. QED
      BY <2>3, <2>4, <2>8, <2>9, <2>10 DEF Follows
  <1>14. QED
    BY <1>5, <1>9, <1>10, <1>11, <1>12, <1>13

\* A message was taken, and not for a received one.
LEMMA Skipped ==
  ASSUME NEW w, NEW t, NEW out, NEW m, NEW twice, NEW hi, NEW pc, ~Patient,
         Follows(w, t, out \cup {m}, twice, hi, pc)
  PROVE  Follows(w, t, out, twice, hi, pc)
BY DEF Follows, Recent

\* The sender goes on to the next message, whatever it sent of this one.
LEMMA Later ==
  ASSUME NEW w \in Seq(Byte), NEW t, NEW out, NEW twice, NEW hi \in Nat, NEW pc,
         ~Patient, Follows(w, t, out, twice, hi, pc), NEW next1, next1 = hi + 1, NEW qc
  PROVE  Follows(w, t, out, twice, next1, qc)
PROOF
  <1>1. PICK num : /\ Trail(w, num, twice) /\ Stands(w, t, num) /\ Recent(num, out, twice)
                   /\ Entered(w, num, hi, twice, pc)
    BY DEF Follows
  <1>2. ASSUME NEW c \in DOMAIN num PROVE Precedes(num[c], next1, twice)
    <2>1. num[c] \in Nat
      BY <1>1, Starts
    <2>2. num[c] <= hi
      BY <1>1, <2>1 DEF Entered, Precedes
    <2>3. QED
      BY <2>1, <2>2 DEF Precedes
  <1>3. Entered(w, num, next1, twice, qc)
    BY <1>2 DEF Entered
  <1>4. QED
    BY <1>1, <1>3 DEF Follows

\* The sender does not know that it sent the message.
LEMMA Doubted ==
  ASSUME NEW w, NEW t, NEW out, NEW twice, NEW hi, NEW pc, ~Patient,
         Follows(w, t, out, twice, hi, pc), NEW more, more = twice \cup {hi}, NEW qc
  PROVE  Follows(w, t, out, more, hi, qc)
PROOF
  <1>1. PICK num : /\ Trail(w, num, twice) /\ Stands(w, t, num) /\ Recent(num, out, twice)
                   /\ Entered(w, num, hi, twice, pc)
    BY DEF Follows
  <1>2. \A j, i : Precedes(j, i, twice) => Precedes(j, i, more)
    BY DEF Precedes
  <1>3. Trail(w, num, more) /\ Recent(num, out, more)
    BY <1>1, <1>2 DEF Trail, Recent
  <1>4. Entered(w, num, hi, more, qc)
    BY <1>1, <1>2 DEF Entered, Precedes
  <1>5. QED
    BY <1>1, <1>3, <1>4 DEF Follows

\* Nothing is on its way.
LEMMA NothingFollows ==
  ASSUME NEW w, w = << >>, NEW t, t = -1, NEW out, NEW twice, NEW hi, NEW pc,
         Patient => \A i \in 1 .. hi - 1 : i \in out
  PROVE  Follows(w, t, out, twice, hi, pc)
PROOF
  <1> DEFINE num == << >>
  <1>1. DOMAIN num = {} /\ Len(w) = 0
    OBVIOUS
  <1> HIDE DEF num
  <1>2. Trail(w, num, twice) /\ Recent(num, out, twice) /\ Entered(w, num, hi, twice, pc)
    BY <1>1 DEF Trail, Recent, Entered
  <1>3. Stands(w, t, num)
    BY <1>1 DEF Stands, First
  <1>4. Patient => Gapless(num, out, hi)
    BY DEF Gapless
  <1>5. QED
    BY <1>2, <1>3, <1>4 DEF Follows

\* A message is sent, or begun in the loop.
LEMMA FrameSent ==
  ASSUME NEW w \in Seq(Byte), NEW t, NEW out, NEW twice, NEW i \in 1 .. Len(Messages),
         NEW pc, pc # "loop", Follows(w, t, out, twice, i, pc),
         \A x \in out : Precedes(x, i, twice), NEW s, s = w \o Frame(i)
  PROVE  /\ \A next1, qc : next1 = i + 1 => Follows(s, t, out, twice, next1, qc)
         /\ \A qc : ~Patient /\ qc = "loop" => Follows(s, t, out, twice, i, qc)
PROOF
  <1> DEFINE n == Len(w)
             m == Len(Messages[i])
             f == Frame(i)
  <1>1. PICK num : /\ Trail(w, num, twice) /\ Stands(w, t, num) /\ Recent(num, out, twice)
                   /\ Entered(w, num, i, twice, pc)
                   /\ Patient => Gapless(num, out, i)
    BY DEF Follows
  <1> DEFINE more == [c \in DOMAIN num \cup {n} |-> IF c = n THEN i ELSE num[c]]
  <1>2. i \in Nat /\ n \in Nat /\ n >= 0
    BY TcpChannelAssumption
  <1>3. /\ f \in Seq(Byte) /\ Len(f) = 2 + m /\ m \in Nat /\ m >= 1
        /\ Messages[i] \in Seq(Byte)
        /\ \A j \in 1 .. m : f[2 + j] = Messages[i][j]
        /\ \A j \in 1 .. 2 : f[j] = Digits(m)[j]
        /\ Number(Digits(m)) = m
    BY Frames, Payload
  <1> HIDE DEF f
  <1>4. s \in Seq(Byte) /\ Len(s) = n + 2 + m /\ s = w \o f
    <2>1. s = w \o f
      BY DEF f
    <2>2. s \in Seq(Byte) /\ Len(s) = n + Len(f)
      BY <1>3, <2>1, Concatenated
    <2>3. n \in Nat /\ m \in Nat /\ Len(f) = 2 + m
      BY <1>2, <1>3
    <2> HIDE DEF n, m
    <2>4. n + Len(f) = n + 2 + m
      BY <2>3
    <2>5. QED
      BY <2>1, <2>2, <2>4 DEF n, m
  <1>5. /\ \A j \in 1 .. n : s[j] = w[j]
        /\ \A j \in 1 .. Len(f) : s[n + j] = f[j]
    <2>1. /\ \A j \in 1 .. Len(w) : (w \o f)[j] = w[j]
          /\ \A j \in 1 .. Len(f) : (w \o f)[Len(w) + j] = f[j]
      BY <1>3, InPlace
    <2>2. s = w \o f
      BY <1>4
    <2>3. QED
      BY ONLY <2>1, <2>2 DEF n
  <1>6. /\ DOMAIN more = DOMAIN num \cup {n} /\ more[n] = i
        /\ \A c \in DOMAIN num : c # n => more[c] = num[c]
    OBVIOUS
  <1> HIDE DEF n, m, more
  <1>7. ASSUME NEW c \in DOMAIN num
        PROVE  /\ c # n /\ c < n /\ c \in Int /\ c >= -2 /\ more[c] = num[c]
               /\ num[c] \in 1 .. Len(Messages) /\ Precedes(num[c], i, twice)
               /\ Messages[num[c]] \in Seq(Byte)
               /\ c + 2 + Len(Messages[num[c]]) <= n /\ Len(Messages[num[c]]) \in Nat
    <2>1. /\ c < n /\ c \in Int /\ c >= -2 /\ num[c] \in 1 .. Len(Messages)
          /\ Messages[num[c]] \in Seq(Byte)
          /\ c + 2 + Len(Messages[num[c]]) <= n /\ Len(Messages[num[c]]) \in Nat
      BY <1>1, Starts DEF n
    <2>2. Precedes(num[c], i, twice)
      BY <1>1 DEF Entered
    <2>3. c # n
      BY <1>2, <2>1
    <2>4. QED
      BY <1>6, <2>1, <2>2, <2>3
  <1>8. ASSUME NEW c \in DOMAIN more
        PROVE  /\ c \in -2 .. Len(s) - 1 /\ more[c] \in 1 .. Len(Messages)
               /\ At(s, c + 2, Messages[more[c]])
               /\ c >= 0 => Number(<<s[c + 1], s[c + 2]>>) = Len(Messages[more[c]])
               /\ EndOf(c, more[c]) \in DOMAIN more \cup {Len(s)}
               /\ \A d \in DOMAIN more :
                    d > c => d >= EndOf(c, more[c]) /\ Precedes(more[c], more[d], twice)
    <2>1. CASE c = n
      <3>1. c \in -2 .. Len(s) - 1 /\ more[c] = i /\ i \in 1 .. Len(Messages)
        BY <1>2, <1>3, <1>4, <1>6, <2>1
      <3>2. At(s, n + 2, Messages[i])
        <4>1. ASSUME NEW j \in 1 .. m PROVE s[n + 2 + j] = Messages[i][j]
          <5>1. 2 + j \in 1 .. Len(f) /\ n + 2 + j = n + (2 + j)
            BY <1>2, <1>3
          <5>2. s[n + (2 + j)] = f[2 + j]
            BY <1>5, <5>1
          <5>3. QED
            BY <1>3, <5>1, <5>2
        <4>2. n + 2 + m <= Len(s)
          <5>1. Len(s) = n + 2 + m /\ n \in Nat /\ m \in Nat
            BY <1>2, <1>3, <1>4
          <5>2. QED
            BY <5>1
        <4>3. QED
          BY <4>1, <4>2 DEF At, m
      <3>3. Number(<<s[n + 1], s[n + 2]>>) = m
        <4>1. 1 \in 1 .. Len(f) /\ 2 \in 1 .. Len(f)
          BY <1>3
        <4>2. s[n + 1] = f[1] /\ s[n + 2] = f[2]
          BY <1>5, <4>1
        <4>3. f[1] = Digits(m)[1] /\ f[2] = Digits(m)[2]
          BY <1>3
        <4>4. QED
          BY <1>3, <4>2, <4>3 DEF Number
      <3>4. EndOf(n, i) = Len(s)
        BY <1>4 DEF EndOf, m
      <3>5. \A d \in DOMAIN more : ~(d > n)
        BY <1>2, <1>6, <1>7
      <3>6. QED
        BY <2>1, <3>1, <3>2, <3>3, <3>4, <3>5 DEF m
    <2>2. CASE c \in DOMAIN num
      <3> DEFINE y == num[c]
      <3>1. /\ c # n /\ c < n /\ c \in Int /\ c >= -2 /\ more[c] = y
            /\ y \in 1 .. Len(Messages) /\ Messages[y] \in Seq(Byte)
            /\ Precedes(y, i, twice)
            /\ c + 2 + Len(Messages[y]) <= n /\ Len(Messages[y]) \in Nat
        BY <1>7, <2>2
      <3>2. /\ At(w, c + 2, Messages[y])
            /\ c >= 0 => Number(<<w[c + 1], w[c + 2]>>) = Len(Messages[y])
            /\ EndOf(c, y) \in DOMAIN num \cup {n}
            /\ \A d \in DOMAIN num :
                 d > c => d >= EndOf(c, y) /\ Precedes(y, num[d], twice)
        BY <1>1, <2>2 DEF Trail, n
      <3> HIDE DEF y
      <3>3. c \in -2 .. Len(s) - 1
        <4>1. /\ Len(s) = n + 2 + m /\ n \in Nat /\ m \in Nat
              /\ c \in Int /\ c < n /\ c >= -2
          BY <1>2, <1>3, <1>4, <3>1
        <4>2. QED
          BY <4>1
      <3>4. At(s, c + 2, Messages[y])
        <4> DEFINE b == c + 2
        <4>1. b \in Nat /\ At(w, b, Messages[y])
          BY <3>1, <3>2
        <4> HIDE DEF b
        <4>2. At(w \o f, b, Messages[y])
          BY <1>3, <3>1, <4>1, AtLonger
        <4>3. QED
          BY <1>4, <4>2 DEF b
      <3>5. c >= 0 => Number(<<s[c + 1], s[c + 2]>>) = Len(Messages[y])
        <4>1. c >= 0 => c + 1 \in 1 .. n /\ c + 2 \in 1 .. n
          BY <1>2, <3>1
        <4>2. c >= 0 => s[c + 1] = w[c + 1] /\ s[c + 2] = w[c + 2]
          BY <1>5, <4>1
        <4>3. QED
          BY <3>2, <4>2
      <3>6. EndOf(c, y) \in DOMAIN more
        BY <1>6, <3>2
      <3>7. ASSUME NEW d \in DOMAIN more, d > c
            PROVE  d >= EndOf(c, y) /\ Precedes(y, more[d], twice)
        <4>1. CASE d = n
          BY <1>6, <3>1, <3>3, <4>1 DEF EndOf
        <4>2. CASE d \in DOMAIN num
          BY <1>7, <3>2, <3>7, <4>2
        <4>3. QED
          BY <1>6, <4>1, <4>2
      <3>8. QED
        BY <3>1, <3>3, <3>4, <3>5, <3>6, <3>7
    <2>3. QED
      BY <1>6, <2>1, <2>2
  <1>9. Trail(s, more, twice)
    BY <1>8 DEF Trail
  <1>10. Stands(s, t, more)
    <2> DEFINE b == -2
    <2>1. b # n /\ b < 0
      BY <1>2
    <2> HIDE DEF b
    <2>2. /\ \A c \in DOMAIN num : c >= First(t)
          /\ First(t) \in DOMAIN num \cup {n}
          /\ t # -1 => t = Len(Messages[num[b]])
      BY <1>1 DEF Stands, n, b
    <2>3. First(t) = IF t = -1 THEN 0 ELSE b
      BY DEF First, b
    <2>4. n >= First(t)
      BY <1>2 DEF First
    <2>5. t # -1 => t = Len(Messages[more[b]])
      <3>1. t # -1 => b \in DOMAIN num
        BY <2>1, <2>2, <2>3
      <3>2. QED
        BY <1>7, <2>2, <3>1
    <2>6. \A c \in DOMAIN more : c >= First(t)
      BY <1>6, <2>2, <2>4
    <2>7. QED
      BY <1>6, <2>2, <2>5, <2>6 DEF Stands, b
  <1>11. Recent(more, out, twice)
    <2>1. ASSUME NEW c \in DOMAIN more PROVE \A x \in out : Precedes(x, more[c], twice)
      <3>1. CASE c = n
        BY <1>6, <3>1
      <3>2. CASE c \in DOMAIN num
        BY <1>1, <1>7, <3>2 DEF Recent
      <3>3. QED
        BY <1>6, <3>1, <3>2
    <2>2. QED
      BY <2>1 DEF Recent
  <1>12. ASSUME NEW next1, next1 = i + 1, NEW qc
         PROVE  Follows(s, t, out, twice, next1, qc)
    <2>1. ASSUME NEW c \in DOMAIN more PROVE Precedes(more[c], next1, twice)
      <3>1. more[c] \in Nat /\ more[c] <= i
        <4>1. CASE c = n
          BY <1>2, <1>6, <4>1
        <4>2. CASE c \in DOMAIN num
          <5>1. num[c] \in Nat /\ Precedes(num[c], i, twice) /\ more[c] = num[c]
            BY <1>7, <4>2
          <5>2. QED
            BY <1>2, <5>1 DEF Precedes
        <4>3. QED
          BY <1>6, <4>1, <4>2
      <3>2. QED
        BY <1>2, <1>12, <3>1 DEF Precedes
    <2>2. Entered(s, more, next1, twice, qc)
      BY <2>1 DEF Entered
    <2>3. ASSUME Patient PROVE Gapless(more, out, next1)
      <3>1. SUFFICES ASSUME NEW j \in 1 .. next1 - 1, j \notin out
                     PROVE  \E c \in DOMAIN more : more[c] = j
        BY DEF Gapless
      <3>2. CASE j = i
        BY <1>6, <3>2
      <3>3. CASE j # i
        <4>1. j \in 1 .. i - 1
          BY <1>2, <1>12, <3>3
        <4>2. PICK c \in DOMAIN num : num[c] = j
          BY <1>1, <2>3, <3>1, <4>1 DEF Gapless
        <4>3. QED
          BY <1>6, <1>7, <4>2
      <3>4. QED
        BY <3>2, <3>3
    <2>4. QED
      BY <1>9, <1>10, <1>11, <2>2, <2>3 DEF Follows
  <1>13. ASSUME ~Patient, NEW qc, qc = "loop"
         PROVE  Follows(s, t, out, twice, i, qc)
    <2>1. ASSUME NEW c \in DOMAIN more
          PROVE  \/ Precedes(more[c], i, twice)
                 \/ qc = "loop" /\ more[c] = i /\ EndOf(c, i) = Len(s)
      <3>1. CASE c = n
        <4>1. EndOf(n, i) = Len(s)
          BY <1>4 DEF EndOf, m
        <4>2. QED
          BY <1>6, <1>13, <3>1, <4>1
      <3>2. CASE c \in DOMAIN num
        BY <1>7, <3>2
      <3>3. QED
        BY <1>6, <3>1, <3>2
    <2>2. Entered(s, more, i, twice, qc)
      BY <2>1 DEF Entered
    <2>3. QED
      BY <1>9, <1>10, <1>11, <1>13, <2>2 DEF Follows
  <1>14. QED
    BY <1>12, <1>13


\* Where the sender is matters only in the loop.
LEMMA OutOfLoop ==
  ASSUME NEW w, NEW t, NEW out, NEW twice, NEW hi, NEW pc, pc # "loop",
         Follows(w, t, out, twice, hi, pc), NEW qc
  PROVE  Follows(w, t, out, twice, hi, qc)
BY DEF Follows, Entered

\* The steps of the channel, in terms of this system.
Accepts ==
  /\ next <= Len(Messages) /\ next' = next + 1
  /\ UNCHANGED <<doubtful, delivered>>
Doubts ==
  /\ next <= Len(Messages) /\ doubtful' = doubtful \cup {next}
  /\ UNCHANGED <<next, delivered>>
Delivers ==
  /\ UNCHANGED <<next, doubtful>> /\ ~torn'
  /\ \E m \in 1 .. Len(Messages) :
       /\ Precedes(m, next, doubtful)
       /\ \A x \in Out : Precedes(x, m, doubtful)
       /\ Patient => \A j \in 1 .. m - 1 : j \in Out
       /\ Numbers' = Append(Numbers, m)
Strays == UNCHANGED <<next, doubtful>> /\ torn' /\ Numbers' = Append(Numbers, 0)

Exchanges ==
  Accepts \/ Doubts \/ Delivers \/ Strays \/ UNCHANGED <<next, doubtful, delivered>>

-----------------------------------------------------------------------------
(* What is delivered.                                                      *)

\* The numbers of what was delivered are those of messages, or 0.
LEMMA OutNumbers ==
  /\ \A d : NumberOf(d) \in Nat
  /\ Out \subseteq Nat
PROOF
  <1>1. DOMAIN Messages = 1 .. Len(Messages) /\ Len(Messages) \in Nat
    BY TcpChannelAssumption
  <1>2. \A d : NumberOf(d) \in Nat
    BY <1>1 DEF NumberOf
  <1>3. QED
    BY <1>2 DEF Out, Numbers

\* Nothing is delivered.
LEMMA NoneDelivered ==
  ASSUME UNCHANGED delivered
  PROVE  Out' = Out /\ Numbers' = Numbers
BY DEF Out, Numbers, NumberOf

\* Something is delivered.
LEMMA OneMore ==
  ASSUME delivered \in Seq(Seq(Byte)), NEW d, delivered' = Append(delivered, d)
  PROVE  /\ Numbers' = Append(Numbers, NumberOf(d))
         /\ Out' = Out \cup {NumberOf(d)}
PROOF
  <1> DEFINE n == Len(delivered)
             m == NumberOf(d)
  <1>1. /\ n \in Nat /\ DOMAIN delivered = 1 .. n
        /\ DOMAIN delivered' = 1 .. n + 1
        /\ \A i \in 1 .. n : delivered'[i] = delivered[i]
        /\ delivered'[n + 1] = d
    OBVIOUS
  <1>2. Numbers = [i \in 1 .. n |-> NumberOf(delivered[i])]
    BY <1>1 DEF Numbers
  <1>3. Numbers' = [i \in 1 .. n + 1 |-> NumberOf(delivered'[i])]
    BY <1>1 DEF Numbers, NumberOf
  <1> HIDE DEF n, m
  <1>4. Append(Numbers, m) = [i \in 1 .. n + 1 |-> IF i = n + 1 THEN m ELSE Numbers[i]]
    BY <1>1, <1>2
  <1>5. \A i \in 1 .. n + 1 :
          NumberOf(delivered'[i]) = IF i = n + 1 THEN m ELSE Numbers[i]
    BY <1>1, <1>2 DEF m
  <1>6. Numbers' = Append(Numbers, m)
    BY <1>3, <1>4, <1>5
  <1>7. Out' = {NumberOf(delivered'[i]) : i \in 1 .. n + 1}
    <2>1. Out' = {Numbers'[i] : i \in DOMAIN delivered'}
      BY DEF Out
    <2>2. \A i \in 1 .. n + 1 : Numbers'[i] = NumberOf(delivered'[i])
      BY <1>3
    <2>3. DOMAIN delivered' = 1 .. n + 1
      BY <1>1
    <2>4. QED
      BY ONLY <2>1, <2>2, <2>3
  <1>8. Out = {NumberOf(delivered[i]) : i \in 1 .. n}
    <2>1. \A i \in 1 .. n : Numbers[i] = NumberOf(delivered[i])
      BY <1>2
    <2>2. DOMAIN delivered = 1 .. n
      BY <1>1
    <2>3. QED
      BY ONLY <2>1, <2>2 DEF Out
  <1>9. Out' = Out \cup {m}
    <2>1. 1 .. n + 1 = (1 .. n) \cup {n + 1}
      BY <1>1
    <2>2. ASSUME NEW x \in Out' PROVE x \in Out \cup {m}
      BY <1>1, <1>7, <1>8, <2>1 DEF m
    <2>3. ASSUME NEW x \in Out PROVE x \in Out'
      BY <1>1, <1>7, <1>8, <2>1
    <2>4. m \in Out'
      BY <1>1, <1>7, <2>1 DEF m
    <2>5. QED
      BY <2>2, <2>3, <2>4
  <1>10. QED
    BY <1>6, <1>9 DEF m

\* A message has its number, and no bytes have none.
LEMMA Numbered ==
  /\ Distinct => \A m \in 1 .. Len(Messages) : NumberOf(Messages[m]) = m
  /\ NumberOf(<< >>) = 0
PROOF
  <1>1. DOMAIN Messages = 1 .. Len(Messages)
    BY TcpChannelAssumption
  <1>2. ASSUME Distinct, NEW m \in 1 .. Len(Messages)
        PROVE  NumberOf(Messages[m]) = m
    <2>1. \A i \in DOMAIN Messages : Messages[i] = Messages[m] => i = m
      BY <1>1, <1>2 DEF Distinct
    <2>2. QED
      BY <1>1, <2>1 DEF NumberOf
  <1>3. \A i \in DOMAIN Messages : Messages[i] # << >>
    <2>1. \A i \in 1 .. Len(Messages) : Len(Messages[i]) >= 1
      BY Payload
    <2>2. Len(<< >>) = 0
      OBVIOUS
    <2>3. QED
      BY <1>1, <2>1, <2>2
  <1>4. QED
    BY <1>2, <1>3 DEF NumberOf

-----------------------------------------------------------------------------
(* Steps.                                                                  *)

\* The invariant in the next state.
LEMMA OrderedNext ==
  ASSUME \A x \in Out' : Precedes(x, next', doubtful'),
         ~torn' /\ ~broken' =>
           Follows(Stream', rpkt'.recv_target, Out', doubtful', next', spc'),
         Patient => spc' # "loop", Patient /\ ~broken' => rerr' = "none"
  PROVE  Ordered'
BY DEF Ordered

\* The parts of the invariant.
LEMMA Known ==
  ASSUME Placed, Ordered
  PROVE  /\ next \in Nat /\ next >= 1 /\ Network /\ Stream \in Seq(Byte)
         /\ Out \subseteq Nat /\ \A x \in Out : Precedes(x, next, doubtful)
         /\ ~torn /\ ~broken =>
              Follows(Stream, rpkt.recv_target, Out, doubtful, next, spc)
         /\ Patient => spc # "loop"
         /\ Patient /\ ~broken => rerr = "none"
PROOF
  <1>1. next \in 1 .. Len(Messages) + 1
    BY DEF Placed, Sending
  <1>2. next \in Nat /\ next >= 1
    BY <1>1, OnItsWay
  <1>3. Stream \in Seq(Byte) /\ Out \subseteq Nat
    BY OnItsWay, OutNumbers
  <1>4. Network
    BY DEF Placed
  <1>5. QED
    BY <1>2, <1>3, <1>4 DEF Ordered

\* What is in front of a message is in front of the next one, and stays so when
\* more messages are doubtful.
LEMMA FurtherOn ==
  ASSUME NEW out \in SUBSET Nat, NEW hi \in Nat, NEW twice,
         \A x \in out : Precedes(x, hi, twice)
  PROVE  /\ \A x \in out : Precedes(x, hi + 1, twice)
         /\ \A x \in out : Precedes(x, hi, twice \cup {hi})
BY DEF Precedes

\* The first ::send takes all of the packet, or a part of it, or nothing.
LEMMA OrderedSendFirst ==
  ASSUME Placed, Placed', Ordered, SendFirst
  PROVE  Ordered' /\ Exchanges
PROOF
  <1>1. /\ next \in 1 .. Len(Messages) /\ spc # "loop"
        /\ UNCHANGED <<broken, rvars, doubtful>> /\ (torn => torn')
        /\ Whole(Frame(next)) \/ Halved(Frame(next)) \/ Nothing
    BY FirstMoves
  <1>2. Out' = Out /\ Numbers' = Numbers /\ UNCHANGED <<delivered, rpkt, rerr>>
    BY <1>1, NoneDelivered DEF rvars
  <1> DEFINE w   == Stream
             t   == rpkt.recv_target
             out == Out
             hi  == next
             add == doubtful
  <1>3. /\ hi \in Nat /\ w \in Seq(Byte) /\ out \in SUBSET Nat
        /\ \A x \in out : Precedes(x, hi, add)
        /\ ~torn /\ ~broken => Follows(w, t, out, add, hi, spc)
        /\ Patient /\ ~broken => rerr = "none"
    BY Known
  <1>4. rpkt'.recv_target = t /\ Out' = out /\ hi \in 1 .. Len(Messages)
        /\ doubtful' = add
    BY <1>1, <1>2
  <1>5. next <= Len(Messages)
    BY <1>1, TcpChannelAssumption
  <1> HIDE DEF w, t, out, hi, add
  <1>6. \A x \in out : Precedes(x, hi + 1, add)
    BY <1>3, FurtherOn
  <1>7. Patient /\ ~broken' => rerr' = "none"
    BY <1>1, <1>2, <1>3
  <1>8. CASE Whole(Frame(next))
    <2>1. Stream' = w \o Frame(hi) /\ spc' # "loop" /\ next' = hi + 1
      BY <1>8 DEF Whole, w, hi
    <2>2. ~torn /\ ~broken => Follows(Stream', t, out, add, next', spc')
      BY <1>1, <1>3, <1>4, <2>1, FrameSent
    <2>3. Ordered'
      BY <1>1, <1>4, <1>6, <1>7, <2>1, <2>2, OrderedNext
    <2>4. QED
      BY <1>1, <1>2, <1>5, <2>1, <2>3 DEF Exchanges, Accepts, hi
  <1>9. CASE Halved(Frame(next))
    <2>1. Stream' = w \o Frame(hi) /\ spc' = "loop" /\ next' = hi /\ ~Patient
      BY <1>9 DEF Halved, Patient, w, hi
    <2>2. ~torn /\ ~broken => Follows(Stream', t, out, add, next', spc')
      BY <1>1, <1>3, <1>4, <2>1, FrameSent
    <2>3. Ordered'
      BY <1>1, <1>3, <1>4, <2>1, <2>2, OrderedNext
    <2>4. QED
      BY <1>1, <1>2, <2>1, <2>3 DEF Exchanges, hi
  <1>10. CASE Nothing
    <2>1. /\ Stream' = w /\ spc' # "loop" /\ next' = hi + 1
          /\ broken \/ ~Patient
      BY <1>10 DEF Nothing, Patient, w, hi
    <2>2. ~torn /\ ~broken => Follows(Stream', t, out, add, next', spc')
      BY <1>3, <2>1, Later
    <2>3. Ordered'
      BY <1>1, <1>4, <1>6, <1>7, <2>1, <2>2, OrderedNext
    <2>4. QED
      BY <1>1, <1>2, <1>5, <2>1, <2>3 DEF Exchanges, Accepts, hi
  <1>11. QED
    BY <1>1, <1>8, <1>9, <1>10

\* The loop sends the rest, and says so or not, or gives it up.
LEMMA OrderedSendMore ==
  ASSUME Placed, Placed', Ordered, SendMore
  PROVE  Ordered' /\ Exchanges
PROOF
  <1>1. /\ next \in 1 .. Len(Messages) /\ spc = "loop"
        /\ UNCHANGED <<broken, rvars>> /\ (torn => torn')
        /\ (Stream' = Stream /\ (GoesOn \/ SaysDone \/ SaysElse)) \/ GivesUp
    BY MoreMoves
  <1>2. Out' = Out /\ Numbers' = Numbers /\ UNCHANGED <<delivered, rpkt>>
    BY <1>1, NoneDelivered DEF rvars
  <1> DEFINE w   == Stream
             t   == rpkt.recv_target
             out == Out
             hi  == next
             add == doubtful
  <1>3. /\ hi \in Nat /\ w \in Seq(Byte) /\ out \in SUBSET Nat
        /\ \A x \in out : Precedes(x, hi, add)
        /\ ~torn /\ ~broken => Follows(w, t, out, add, hi, spc)
        /\ ~Patient
    BY <1>1, Known
  <1>4. rpkt'.recv_target = t /\ Out' = out
    BY <1>2
  <1>5. next <= Len(Messages)
    BY <1>1, TcpChannelAssumption
  <1> HIDE DEF w, t, out, hi, add
  <1>6. /\ \A x \in out : Precedes(x, hi + 1, add)
        /\ \A x \in out : Precedes(x, hi, add \cup {hi})
    BY <1>3, FurtherOn
  <1>7. CASE GivesUp
    <2>1. next' \in {hi, hi + 1} /\ doubtful' = add /\ (torn' \/ broken')
      BY <1>7 DEF GivesUp, hi, add
    <2>2. \A x \in Out' : Precedes(x, next', doubtful')
      BY <1>3, <1>4, <1>6, <2>1
    <2>3. Ordered'
      BY <1>3, <2>1, <2>2, OrderedNext
    <2>4. QED
      BY <1>2, <1>5, <2>1, <2>3 DEF Exchanges, Accepts, hi, add
  <1>8. CASE Stream' = Stream /\ GoesOn
    <2>1. Stream' = w /\ spc' = spc /\ next' = hi /\ doubtful' = add
      BY <1>1, <1>8 DEF GoesOn, w, hi, add
    <2>2. Ordered'
      BY <1>1, <1>3, <1>4, <2>1, OrderedNext
    <2>3. QED
      BY <1>2, <2>1, <2>2 DEF Exchanges, hi, add
  <1>9. CASE Stream' = Stream /\ SaysDone
    <2>1. Stream' = w /\ next' = hi + 1 /\ doubtful' = add
      BY <1>9 DEF SaysDone, w, hi, add
    <2>2. ~torn /\ ~broken => Follows(w, t, out, add, next', spc')
      BY <1>3, <2>1, Later
    <2>3. Ordered'
      BY <1>1, <1>3, <1>4, <1>6, <2>1, <2>2, OrderedNext
    <2>4. QED
      BY <1>2, <1>5, <2>1, <2>3 DEF Exchanges, Accepts, hi, add
  <1>10. CASE Stream' = Stream /\ SaysElse
    <2>1. Stream' = w /\ next' = hi /\ doubtful' = add \cup {hi}
      BY <1>10 DEF SaysElse, w, hi, add
    <2>2. ~torn /\ ~broken => Follows(w, t, out, doubtful', hi, spc')
      BY <1>3, <2>1, Doubted
    <2>3. Ordered'
      BY <1>1, <1>3, <1>4, <1>6, <2>1, <2>2, OrderedNext
    <2>4. QED
      BY <1>2, <1>5, <2>1, <2>3 DEF Exchanges, Doubts, hi, add
  <1>11. QED
    BY <1>1, <1>7, <1>8, <1>9, <1>10

\* Steps that take no bytes and deliver nothing.
LEMMA OrderedOthers ==
  ASSUME Placed, Ordered, UNCHANGED <<next, doubtful, delivered>>,
         spc' = spc \/ (spc # "loop" /\ spc' # "loop"),
         ~torn' /\ ~broken' =>
           /\ ~torn /\ ~broken /\ Stream' = Stream
           /\ rpkt'.recv_target = rpkt.recv_target,
         Patient /\ ~broken' => ~broken /\ UNCHANGED rerr
  PROVE  Ordered' /\ Exchanges
PROOF
  <1>1. Out' = Out
    BY NoneDelivered
  <1> DEFINE w   == Stream
             t   == rpkt.recv_target
             out == Out
             hi  == next
             add == doubtful
  <1>2. /\ \A x \in out : Precedes(x, hi, add)
        /\ ~torn /\ ~broken => Follows(w, t, out, add, hi, spc)
        /\ Patient => spc # "loop"
        /\ Patient /\ ~broken => rerr = "none"
    BY Known
  <1>3. /\ next' = hi /\ doubtful' = add /\ Out' = out
        /\ ~torn' /\ ~broken' =>
             ~torn /\ ~broken /\ Stream' = w /\ rpkt'.recv_target = t
    BY <1>1
  <1> HIDE DEF w, t, out, hi, add
  <1>4. ~torn' /\ ~broken' => Follows(w, t, out, add, hi, spc')
    BY <1>2, <1>3, OutOfLoop
  <1>5. Ordered'
    BY <1>2, <1>3, <1>4, OrderedNext
  <1>6. QED
    BY <1>5 DEF Exchanges

\* The network, and a sender that closes.
LEMMA OrderedNetwork ==
  ASSUME Placed, Ordered, Arrive \/ Break \/ SenderCloses \/ UNCHANGED vars
  PROVE  Ordered' /\ Exchanges
PROOF
  <1>1. CASE Break
    BY <1>1, OrderedOthers DEF Break, svars, rvars
  <1>2. CASE Arrive \/ SenderCloses \/ UNCHANGED vars
    <2>1. /\ UNCHANGED <<next, doubtful, delivered, wire, broken, rpkt, rerr, torn, spkt>>
          /\ spc' = spc \/ (spc # "loop" /\ spc' # "loop")
      BY <1>2 DEF Arrive, SenderCloses, vars, svars, net, rvars, again
    <2>2. Unsent' = Unsent
      BY <2>1 DEF Unsent, Flat, Digits, real_size, work_size
    <2>3. Stream' = Stream
      BY <2>1, <2>2 DEF Stream
    <2>4. QED
      BY <2>1, <2>3, OrderedOthers
  <1>3. QED
    BY <1>1, <1>2

\* A further connection starts with nothing on its way.
LEMMA OrderedReconnect ==
  ASSUME Placed, Placed', Ordered, Reconnect
  PROVE  Ordered' /\ Exchanges
PROOF
  <1>1. /\ broken /\ conns < Connections /\ spc # "loop" /\ spc' \in {spc, "ready"}
        /\ rpkt' = IF FreshPacket THEN NewPacket ELSE rpkt
        /\ torn' = (rpkt'.recv_target >= 0)
        /\ UNCHANGED <<next, doubtful, wire, delivered>>
    BY DEF Reconnect
  <1>2. ~Patient
    <2>1. conns \in 1 .. Connections /\ Connections \in Nat
      BY TcpChannelAssumption DEF Placed, Network
    <2>2. QED
      BY <1>1, <2>1 DEF Patient
  <1>3. Stream' = << >>
    <2>1. wire' = << >> /\ wire' \in Seq(Byte) /\ spc' # "loop"
      BY <1>1 DEF Placed, Network
    <2>2. QED
      BY <2>1, UnsentGone
  <1> DEFINE q == rpkt'
             c == q.recv_target
  <1>4. Expecting(q)
    BY <1>1, NewExpects DEF Placed, Receiving
  <1>5. ~torn' => ~(c >= 0)
    BY <1>1
  <1> HIDE DEF q
  <1>6. ~torn' => c = -1
    BY <1>4, <1>5, Constants DEF Expecting
  <1>7. Out' = Out /\ \A x \in Out : Precedes(x, next, doubtful)
    BY <1>1, Known, NoneDelivered
  <1> HIDE DEF c
  <1>8. ~torn' => Follows(Stream', c, Out', doubtful', next', spc')
    BY <1>2, <1>3, <1>6, NothingFollows
  <1>9. ~torn' => Follows(Stream', rpkt'.recv_target, Out', doubtful', next', spc')
    BY <1>8 DEF c, q
  <1>10. \A x \in Out' : Precedes(x, next', doubtful')
    BY <1>1, <1>7
  <1>11. Ordered'
    BY <1>2, <1>9, <1>10, OrderedNext
  <1>12. QED
    BY <1>1, <1>11 DEF Exchanges

-----------------------------------------------------------------------------
(* Receiving.                                                              *)

\* With its own last error a receiver that is patient has none to be told of.
LEMMA NoError ==
  ASSUME Patient, rerr = "none"
  PROVE  /\ rerr' \in AfterSuccess(rerr) => rerr' = rerr
         /\ ~broken => ~(rerr' \in RecvErrors)
BY DEF Patient, AfterSuccess, RecvErrors

\* When the ends do not agree, nothing is delivered, or no message.
LEMMA OrderedTorn ==
  ASSUME Placed, Ordered, UNCHANGED svars, torn',
         delivered' = delivered \/ delivered' = Append(delivered, << >>),
         Patient /\ ~broken' => rerr' = "none"
  PROVE  Ordered' /\ Exchanges
PROOF
  <1>1. /\ next \in Nat /\ next >= 1 /\ (Patient => spc # "loop")
        /\ \A x \in Out : Precedes(x, next, doubtful)
        /\ UNCHANGED <<next, doubtful, spc>>
    BY Known DEF svars
  <1>2. CASE delivered' = delivered
    <2>1. Out' = Out
      BY <1>2, NoneDelivered
    <2>2. Ordered'
      BY <1>1, <2>1, OrderedNext
    <2>3. QED
      BY <1>1, <1>2, <2>2 DEF Exchanges
  <1>3. CASE delivered' = Append(delivered, << >>)
    <2>1. delivered \in Seq(Seq(Byte))
      BY DEF Placed, Receiving
    <2>2. Numbers' = Append(Numbers, 0) /\ Out' = Out \cup {0}
      BY <1>3, <2>1, OneMore, Numbered
    <2>3. Precedes(0, next, doubtful)
      BY <1>1 DEF Precedes
    <2>4. Ordered'
      BY <1>1, <2>2, <2>3, OrderedNext
    <2>5. QED
      BY <1>1, <2>2, <2>4 DEF Exchanges, Strays
  <1>4. QED
    BY <1>2, <1>3

\* Where no bytes are taken, what is on its way stays.
LEMMA NothingTaken ==
  ASSUME Placed, UNCHANGED svars, UNCHANGED wire
  PROVE  Stream' = Stream
BY UnsentStays DEF Stream

LEMMA NoneTaken ==
  ASSUME Placed, NEW k, k = 0, Take(k)
  PROVE  UNCHANGED wire
PROOF
  <1>1. wire \in Seq(Byte) /\ wire' = SubSeq(wire, 1, Len(wire))
    BY DEF Placed, Network, Take
  <1>2. QED
    BY <1>1

\* ::recv for a length leaves the payload of the next message.
LEMMA OrderedRecvHeader ==
  ASSUME Placed, Placed', Framing, Ordered, RecvHeader
  PROVE  Ordered' /\ Exchanges
PROOF
  <1> DEFINE fresh == IF rpkt.recv_pos < 0 THEN clear(rpkt).pkt ELSE rpkt
  <1>1. rpkt.recv_target < 0 /\ UNCHANGED <<svars, shut, broken, conns>>
        /\ UNCHANGED delivered
    BY FramesRecvHeader DEF RecvHeader
  <1>2. /\ Network /\ Sound(rpkt) /\ rpkt.recv_target = -1 /\ rpkt.recv_pos = -1
        /\ UNCHANGED <<next, spc, doubtful>>
        /\ Patient /\ ~broken => rerr = "none"
    BY <1>1, Constants DEF Placed, Receiving, Expecting, Ordered, svars
  <1>3. fresh.recv_target = -1 /\ fresh \in PacketType
    <2>1. clear(rpkt).pkt \in PacketType
      BY <1>2, ClearSound DEF Sound
    <2>2. rpkt \in PacketType
      BY <1>2 DEF Sound
    <2>3. QED
      BY <1>2, <2>1, <2>2, ClearResult, ClearKeeps
  <1> HIDE DEF fresh
  <1>4. ASSUME NEW whole, ReceiveReturns(fresh, whole)
        PROVE  rpkt'.recv_target = rpkt.recv_target
    BY <1>2, <1>3, <1>4 DEF ReceiveReturns
  <1>5. ASSUME NEW k \in Hands(HeaderSize),
               Take(k), rerr' \in AfterSuccess(rerr),
               torn' = (torn \/ k \notin {0, HeaderSize}),
               IF k = HeaderSize /\ Number(wire) > 0
                 THEN rpkt' = [fresh EXCEPT !.recv_target = Number(wire)]
                 ELSE ReceiveReturns(fresh, "none")
        PROVE  Ordered' /\ Exchanges
    <2>1. HeaderSize \in Nat /\ HeaderSize = 2
      BY DEF HeaderSize
    <2>2. k \in 0 .. 2 /\ k <= here /\ k \in Nat /\ ~broken
      <3>1. k \in 0 .. HeaderSize /\ k <= here /\ ~broken
        BY <1>2, <2>1, HandsSome
      <3>2. QED
        BY <2>1, <3>1
    <2>3. Patient => rerr' = rerr /\ rerr' = "none"
      BY <1>2, <1>5, <2>2, NoError
    <2>4. CASE k = 0
      <3>1. ReceiveReturns(fresh, "none")
        BY <1>5, <2>1, <2>4
      <3>2. Stream' = Stream
        BY <1>1, <1>5, <2>4, NoneTaken, NothingTaken
      <3>3. torn => torn'
        BY <1>5
      <3>4. QED
        BY <1>1, <1>2, <1>4, <2>2, <2>3, <3>1, <3>2, <3>3, OrderedOthers
    <2>5. CASE torn'
      BY <1>1, <2>3, <2>5, OrderedTorn
    <2>6. CASE k # 0 /\ ~torn'
      <3>1. k = 2 /\ ~torn
        <4>1. ~torn /\ k \in {0, HeaderSize}
          BY <1>5, <2>6, Zenon
        <4>2. QED
          BY <2>1, <2>6, <4>1
      <3> DEFINE w   == Stream
                 s   == Stream'
                 h   == wire
                 c   == rpkt.recv_target
                 out == Out
                 hi  == next
                 add == doubtful
      <3>2. Follows(w, c, out, add, hi, spc) /\ c = -1
        BY <1>2, <2>2, <3>1, Known
      <3>3. /\ s \in Seq(Byte) /\ Len(s) = Len(w) - 2
            /\ \A j \in 1 .. Len(s) : s[j] = w[j + 2]
            /\ 2 <= Len(h) /\ Len(h) \in Nat /\ Len(h) <= Len(w)
            /\ \A j \in 1 .. Len(h) : w[j] = h[j]
        BY <1>1, <1>5, <2>2, <3>1, StreamTaken
      <3>4. w \in Seq(Byte) /\ h \in Seq(Byte)
        BY OnItsWay
      <3>5. /\ Out' = out /\ next' = hi /\ doubtful' = add /\ spc' = spc
            /\ \A x \in out : Precedes(x, hi, add)
            /\ Patient => spc # "loop"
        BY <1>1, <1>2, Known, NoneDelivered
      <3> HIDE DEF w, s, h, c, out, hi, add
      <3>6. Len(w) >= 2 /\ w[1] = h[1] /\ w[2] = h[2]
        BY <3>3, <3>4
      <3>7. Number(h) = Number(w)
        BY <3>6 DEF Number
      <3>8. IsBehind(s, w, 2)
        BY <3>3 DEF IsBehind
      <3>9. Number(w) > 0 /\ Follows(s, Number(w), out, add, hi, spc)
        BY <3>2, <3>4, <3>6, <3>8, LengthTaken
      <3>10. rpkt' = [fresh EXCEPT !.recv_target = Number(w)]
        BY <1>5, <2>1, <3>1, <3>7, <3>9 DEF h
      <3>11. rpkt'.recv_target = Number(w)
        BY <1>3, <3>10 DEF PacketType
      <3>12. Follows(Stream', rpkt'.recv_target, Out', doubtful', next', spc')
        BY <3>5, <3>9, <3>11 DEF s
      <3>13. Ordered'
        BY <2>3, <3>5, <3>12, OrderedNext
      <3>14. QED
        BY <1>1, <1>2, <3>13 DEF Exchanges
    <2>7. QED
      BY <2>4, <2>5, <2>6
  <1>6. ASSUME rerr' \in RecvErrors, ReceiveReturns(fresh, "none"),
               UNCHANGED <<wire, here, torn>>
        PROVE  Ordered' /\ Exchanges
    <2>1. Patient /\ ~broken => UNCHANGED rerr
      BY <1>2, <1>6, NoError
    <2>2. Stream' = Stream
      BY <1>1, <1>6, NothingTaken
    <2>3. QED
      BY <1>1, <1>2, <1>4, <1>6, <2>1, <2>2, OrderedOthers
  <1>7. QED
    BY <1>5, <1>6 DEF RecvHeader, fresh

\* In the loop there is something to be sent.
LEMMA MoreToCome ==
  ASSUME Placed, spc = "loop"
  PROVE  Len(wire) < Len(Stream)
PROOF
  <1> DEFINE f  == Frame(next)
             at == spkt.send_pos
             u  == Unsent
  <1>1. /\ wire \in Seq(Byte) /\ u = SubSeq(f, at + 1, Len(f))
        /\ at \in 1 .. Len(f) - 1 /\ f \in Seq(Byte) /\ Stream = wire \o u
    BY OnItsWay DEF Stream
  <1> HIDE DEF f, at, u
  <1>2. at \in Nat /\ at < Len(f) /\ Len(f) \in Nat
    BY <1>1
  <1>3. u \in Seq(Byte) /\ Len(u) = Len(f) - at
    BY <1>1, <1>2, Middle
  <1>4. Len(Stream) = Len(wire) + Len(u) /\ Len(wire) \in Nat /\ Len(u) \in Nat
    BY <1>1, <1>3, Concatenated
  <1>5. Len(u) >= 1
    BY <1>2, <1>3
  <1>6. QED
    BY <1>4, <1>5

\* ::recv for a payload takes the next message that is left, or has torn the
\* stream.
LEMMA OrderedRecvBody ==
  ASSUME Distinct, Placed, Placed', Ordered, RecvBody
  PROVE  Ordered' /\ Exchanges
PROOF
  <1> DEFINE t     == rpkt.recv_target
             sized == resize(rpkt, t + HeaderSize)
             s     == sized.pkt
             p     == AtStart(s)
  <1>1. /\ UNCHANGED <<svars, shut, broken, conns>> /\ Network
        /\ Expecting(rpkt) /\ t \in 1 .. LenMod - 1
        /\ delivered \in Seq(Seq(Byte))
    <2>1. Receiving /\ Network
      BY DEF Placed
    <2>2. rpc = "body" \/ (rpc = "ready" /\ t >= 0)
      BY DEF RecvBody
    <2>3. UNCHANGED <<svars, shut, broken, conns>>
      BY DEF RecvBody
    <2>4. Expecting(rpkt) /\ t \in 1 .. LenMod - 1
      BY <2>1, <2>2 DEF Receiving, Expecting
    <2>5. QED
      BY <2>1, <2>3, <2>4 DEF Receiving
  <1>2. \/ /\ rpkt' = s
           /\ UNCHANGED <<wire, here, rerr, delivered, torn>>
        \/ /\ ~sized.threw
           /\ \E k \in Hands(get_recv_remainder(p)) :
                /\ Take(k)
                /\ rerr' \in AfterSuccess(rerr)
                /\ torn' = (torn \/ k < get_recv_remainder(p))
                /\ LET q == [p EXCEPT
                              !.body = Overwritten(@, 0, SubSeq(wire, 1, k)),
                              !.recv_pos = @ + k]
                   IN IF get_recv_remainder(q) = 0
                        THEN ReceiveReturns(recv_reset(q), "all")
                        ELSE ReceiveReturns(q, IF k = 0 THEN "none" ELSE "part")
        \/ /\ ~sized.threw
           /\ rerr' \in RecvErrors
           /\ ReceiveReturns(p, "none")
           /\ UNCHANGED <<wire, here, torn>>
    BY DEF RecvBody, AtStart
  <1> HIDE DEF sized, p
  <1>3. /\ Expecting(s) /\ HasData(s) /\ s.recv_target = t
        /\ ~sized.threw => work_size(s) = t
    BY <1>1, SizedFor DEF sized
  <1>4. ~sized.threw => get_recv_remainder(p) = t
    <2> DEFINE e == << >>
    <2>1. e \in Seq(Byte) /\ Len(e) <= t
      BY <1>1
    <2> HIDE DEF e
    <2>2. QED
      BY <1>1, <1>3, <2>1, StoredIn DEF p
  <1>5. p.recv_target = t
    <2>1. s \in PacketType
      BY <1>3 DEF Expecting, Sound
    <2>2. QED
      BY <1>3, <2>1, AtStartFields DEF p
  <1>6. /\ UNCHANGED <<next, spc, doubtful>>
        /\ Patient /\ ~broken => rerr = "none"
    BY <1>1 DEF Ordered, svars
  <1>7. CASE rpkt' = s /\ UNCHANGED <<wire, here, rerr, delivered, torn>>
    <2>1. Stream' = Stream
      BY <1>1, <1>7, NothingTaken
    <2>2. QED
      BY <1>1, <1>3, <1>6, <1>7, <2>1, OrderedOthers
  <1>8. ASSUME ~sized.threw,
               NEW k \in Hands(get_recv_remainder(p)),
               Take(k), rerr' \in AfterSuccess(rerr),
               torn' = (torn \/ k < get_recv_remainder(p)),
               LET q == [p EXCEPT
                          !.body = Overwritten(@, 0, SubSeq(wire, 1, k)),
                          !.recv_pos = @ + k]
               IN IF get_recv_remainder(q) = 0
                    THEN ReceiveReturns(recv_reset(q), "all")
                    ELSE ReceiveReturns(q, IF k = 0 THEN "none" ELSE "part")
        PROVE  Ordered' /\ Exchanges
    <2>1. k \in Hands(t) /\ t \in Nat /\ t >= 1
      BY <1>1, <1>4, <1>8, Constants
    <2>2. k \in 0 .. t /\ k <= here /\ ~broken /\ k \in Nat
      BY <1>1, <2>1, HandsSome
    <2>3. Patient => rerr' = "none"
      BY <1>6, <1>8, <2>2, NoError
    <2>4. CASE torn'
      <3>1. ASSUME NEW z, NEW whole, ReceiveReturns(z, whole)
            PROVE  delivered' = delivered \/ delivered' = Append(delivered, << >>)
        BY <2>4, <3>1 DEF ReceiveReturns
      <3>2. delivered' = delivered \/ delivered' = Append(delivered, << >>)
        BY <1>8, <3>1
      <3>3. QED
        BY <1>1, <2>3, <2>4, <3>2, OrderedTorn
    <2>5. CASE ~torn'
      <3> DEFINE d   == SubSeq(wire, 1, k)
                 q   == Stored(p, d)
                 z   == recv_reset(q)
                 w   == Stream
                 x   == Stream'
                 c   == rpkt.recv_target
                 out == Out
                 hi  == next
                 add == doubtful
      <3>1. k = t /\ ~torn
        <4>1. ~torn /\ ~(k < t)
          BY <1>4, <1>8, <2>5
        <4>2. QED
          BY <2>1, <2>2, <4>1
      <3>2. /\ Follows(w, c, out, add, hi, spc) /\ c = t /\ hi \in Nat
            /\ \A y \in out : Precedes(y, hi, add)
            /\ Patient => spc # "loop"
        BY <2>2, <3>1, Known
      <3>3. /\ x \in Seq(Byte) /\ Len(x) = Len(w) - t
            /\ \A j \in 1 .. Len(x) : x[j] = w[j + t]
            /\ t <= Len(wire) /\ Len(wire) \in Nat /\ Len(wire) <= Len(w)
            /\ \A j \in 1 .. Len(wire) : w[j] = wire[j]
        BY <1>1, <1>8, <2>2, <3>1, StreamTaken
      <3>4. w \in Seq(Byte) /\ wire \in Seq(Byte)
        BY OnItsWay
      <3>5. spc = "loop" => Len(wire) < Len(w)
        BY MoreToCome
      <3>6. d \in Seq(Byte) /\ Len(d) = t /\ \A j \in 1 .. t : d[j] = wire[j]
        BY <2>1, <3>1, <3>3, <3>4
      <3> HIDE DEF w, x, c, out, hi, add, t, d, q, z
      <3>7. IsBehind(x, w, t) /\ IsFront(d, w, t)
        <4>1. IsBehind(x, w, t)
          BY <3>3 DEF IsBehind
        <4>2. \A j \in 1 .. t : d[j] = w[j]
          BY <2>1, <3>3, <3>6
        <4>3. QED
          BY <3>6, <4>1, <4>2 DEF IsFront
      <3>8. c # -1 /\ (spc = "loop" => c < Len(w))
        BY <2>1, <3>2, <3>3, <3>4, <3>5
      <3>9. \E m \in 1 .. Len(Messages) :
              /\ \A y : IsFront(y, w, c) => y = Messages[m]
              /\ Precedes(m, hi, add)
              /\ \A y \in out : Precedes(y, m, add)
              /\ Patient => \A j \in 1 .. m - 1 : j \in out
              /\ \A y : IsBehind(y, w, c) =>
                   Follows(y, -1, out \cup {m}, add, hi, spc)
        BY <3>2, <3>4, <3>8, PayloadTaken
      <3>10. PICK m \in 1 .. Len(Messages) :
               /\ d = Messages[m]
               /\ Precedes(m, hi, add)
               /\ \A y \in out : Precedes(y, m, add)
               /\ Patient => \A j \in 1 .. m - 1 : j \in out
               /\ Follows(x, -1, out \cup {m}, add, hi, spc)
        BY <3>2, <3>7, <3>9
      <3>11. /\ get_recv_remainder(q) = 0 /\ q.body = d /\ q \in PacketType
        <4>1. /\ t \in 1 .. LenMod - 1 /\ s.recv_target = t /\ work_size(s) = t
              /\ p = AtStart(s)
          BY <1>1, <1>3, <1>8 DEF p, t
        <4>2. get_recv_remainder(q) = t - Len(d) /\ q.body = d
          BY <1>3, <2>1, <3>6, <4>1, StoredIn DEF q
        <4>3. p \in PacketType
          BY <1>3, AtStartFields DEF p, Expecting, Sound
        <4>4. q \in PacketType
          BY <3>6, <4>3, StoredFields DEF q
        <4>5. QED
          BY <2>1, <3>6, <4>2, <4>4
      <3>12. ReceiveReturns(z, "all")
        <4>1. q = [p EXCEPT !.body = Overwritten(@, 0, SubSeq(wire, 1, k)),
                            !.recv_pos = @ + k]
          BY <3>1, <3>6 DEF Stored, q, d
        <4>2. QED
          BY <1>8, <3>11, <4>1 DEF z
      <3>13. z.recv_target = -1 /\ z.body = d
        BY <3>11, ResetFields DEF z
      <3>14. ~empty(z)
        BY <2>1, <3>6, <3>13 DEF empty, work_size
      <3>15. /\ rpkt'.recv_target = -1
             /\ delivered' = IF to_state(rerr') = "done"
                               THEN Append(delivered, Messages[m]) ELSE delivered
        BY <2>5, <3>10, <3>12, <3>13, <3>14 DEF ReceiveReturns
      <3>16. next' = hi /\ doubtful' = add /\ spc' = spc
        BY <1>6 DEF hi, add
      <3>17. CASE to_state(rerr') = "done"
        <4>1. delivered' = Append(delivered, Messages[m])
          BY <3>15, <3>17
        <4>2. Numbers' = Append(Numbers, m) /\ Out' = out \cup {m}
          BY <1>1, <4>1, OneMore, Numbered DEF out
        <4>3. Follows(Stream', rpkt'.recv_target, Out', doubtful', next', spc')
          BY <3>10, <3>15, <3>16, <4>2 DEF x
        <4>4. \A y \in Out' : Precedes(y, next', doubtful')
          BY <3>2, <3>10, <3>16, <4>2
        <4>5. Ordered'
          BY <2>3, <3>2, <3>16, <4>3, <4>4, OrderedNext
        <4>6. Delivers
          BY <2>5, <3>10, <3>16, <4>2 DEF Delivers, hi, add, out
        <4>7. QED
          BY <4>5, <4>6 DEF Exchanges
      <3>18. CASE to_state(rerr') # "done"
        <4>1. ~Patient
          BY <2>3, <3>18, States
        <4>2. delivered' = delivered
          BY <3>15, <3>18
        <4>3. Out' = out
          BY <4>2, NoneDelivered DEF out
        <4> DEFINE g == -1
        <4>4. Follows(x, g, out \cup {m}, add, hi, spc)
          BY <3>10
        <4> HIDE DEF g
        <4>5. Follows(x, g, out, add, hi, spc)
          BY <4>1, <4>4, Skipped
        <4>6. Follows(Stream', rpkt'.recv_target, Out', doubtful', next', spc')
          BY <3>15, <3>16, <4>3, <4>5 DEF x, g
        <4>7. Ordered'
          BY <3>2, <3>16, <4>1, <4>3, <4>6, OrderedNext
        <4>8. QED
          BY <1>6, <4>2, <4>7 DEF Exchanges
      <3>19. QED
        BY <3>17, <3>18
    <2>6. QED
      BY <2>4, <2>5
  <1>9. ASSUME rerr' \in RecvErrors, ReceiveReturns(p, "none"),
               UNCHANGED <<wire, here, torn>>
        PROVE  Ordered' /\ Exchanges
    <2>1. rpkt'.recv_target = t /\ delivered' = delivered
      <3>1. rerr' \in {"connection_reset", "would_block"}
        BY <1>9 DEF RecvErrors
      <3>2. to_state(rerr') # "done"
        BY <3>1, States
      <3>3. QED
        BY <1>5, <1>9, <3>2 DEF ReceiveReturns
    <2>2. Patient /\ ~broken => UNCHANGED rerr
      BY <1>6, <1>9, NoError
    <2>3. Stream' = Stream
      BY <1>1, <1>9, NothingTaken
    <2>4. QED
      BY <1>1, <1>6, <1>9, <2>1, <2>2, <2>3, OrderedOthers
  <1>10. QED
    BY <1>2, <1>7, <1>8, <1>9

-----------------------------------------------------------------------------
(* The theorems.                                                           *)

\* Nothing is delivered or on its way at the start.
LEMMA OrderedInit ==
  ASSUME Init
  PROVE  Ordered /\ Numbers = << >> /\ next = 1 /\ doubtful = {}
PROOF
  <1>1. /\ next = 1 /\ spc = "ready" /\ wire = << >> /\ doubtful = {}
        /\ rpkt.recv_target = -1 /\ rerr = "none" /\ delivered = << >>
    BY DEF Init, NewPacket
  <1>2. Numbers = << >> /\ Out = {}
    BY <1>1 DEF Numbers, Out
  <1> DEFINE t == rpkt.recv_target
             w == Stream
  <1>3. t = -1 /\ w = << >>
    <2>1. Unsent = << >>
      BY <1>1 DEF Unsent
    <2>2. QED
      BY <1>1, <2>1 DEF Stream
  <1> HIDE DEF t, w
  <1>4. Follows(w, t, Out, doubtful, next, spc)
    <2>1. Patient => \A i \in 1 .. next - 1 : i \in Out
      BY <1>1
    <2>2. QED
      BY <1>3, <2>1, NothingFollows
  <1>5. QED
    BY <1>1, <1>2, <1>4 DEF Ordered, t, w

\* Every step keeps the order, and is one of the channel's or none of them.
LEMMA OrderedStep ==
  ASSUME Distinct, Placed, Placed', Framing, Ordered, [Next]_vars
  PROVE  Ordered' /\ Exchanges
PROOF
  <1>1. CASE Reset \/ ReceiverCloses \/ SenderAborts
    BY <1>1, OrderedNetwork DEF Reset, ReceiverCloses, SenderAborts
  <1>2. CASE Arrive \/ SenderCloses \/ UNCHANGED vars
    BY <1>2, OrderedNetwork
  <1>3. QED
    BY <1>1, <1>2, OrderedSendFirst, OrderedSendMore, OrderedRecvHeader,
      OrderedRecvBody, OrderedReconnect DEF Next, Sender, Receiver

\* A step of this system is one of the channel that may lose packets.
LEMMA LossyStep ==
  ASSUME Placed, Exchanges
  PROVE  [LossyChannel!Exchange]_(LossyChannel!cvars)
PROOF
  <1>1. next \in Nat /\ Len(Messages) \in Nat /\ next - 1 + 1 = next
    BY OnItsWay, TcpChannelAssumption
  <1>2. CASE Accepts
    <2>1. Numbers' = Numbers
      BY <1>2, NoneDelivered DEF Accepts
    <2>2. next - 1 < Len(Messages) /\ next' - 1 = next - 1 + 1 /\ doubtful' = doubtful
      BY <1>1, <1>2 DEF Accepts
    <2>3. QED
      BY <2>1, <2>2 DEF LossyChannel!Exchange, LossyChannel!Accept
  <1>3. CASE Doubts
    <2>1. Numbers' = Numbers
      BY <1>3, NoneDelivered DEF Doubts
    <2>2. next - 1 < Len(Messages) /\ next' = next /\ doubtful' = doubtful \cup {next}
      BY <1>1, <1>3 DEF Doubts
    <2>3. QED
      BY <1>1, <2>1, <2>2 DEF LossyChannel!Exchange, LossyChannel!Doubt
  <1>4. CASE Delivers
    <2>1. PICK m \in 1 .. Len(Messages) :
            /\ Precedes(m, next, doubtful)
            /\ \A x \in Out : Precedes(x, m, doubtful)
            /\ Numbers' = Append(Numbers, m)
      BY <1>4 DEF Delivers
    <2>2. m \in (1 .. next - 1) \cup doubtful
      BY <1>1, <2>1 DEF Precedes
    <2>3. LossyChannel!Due(m)
      <3>1. DOMAIN Numbers = DOMAIN delivered
        BY DEF Numbers
      <3>2. QED
        BY <2>1, <3>1 DEF LossyChannel!Due, LossyChannel!After, Precedes, Out
    <2>4. QED
      BY <1>4, <2>1, <2>2, <2>3
        DEF Delivers, LossyChannel!Exchange, LossyChannel!Deliver
  <1>5. CASE Strays
    BY <1>5 DEF Strays, LossyChannel!Exchange, LossyChannel!Stray
  <1>6. CASE UNCHANGED <<next, doubtful, delivered>>
    BY <1>6, NoneDelivered DEF LossyChannel!cvars
  <1>7. QED
    BY <1>2, <1>3, <1>4, <1>5, <1>6 DEF Exchanges

\* Without gaps it is one of the channel that loses nothing.
LEMMA ReliableStep ==
  ASSUME Placed, Patient, Exchanges
  PROVE  [ReliableChannel!Exchange]_(ReliableChannel!cvars)
PROOF
  <1>1. next \in Nat /\ Len(Messages) \in Nat /\ next - 1 + 1 = next
    BY OnItsWay, TcpChannelAssumption
  <1>2. CASE Accepts
    <2>1. Numbers' = Numbers
      BY <1>2, NoneDelivered DEF Accepts
    <2>2. next - 1 < Len(Messages) /\ next' - 1 = next - 1 + 1 /\ doubtful' = doubtful
      BY <1>1, <1>2 DEF Accepts
    <2>3. QED
      BY <2>1, <2>2 DEF ReliableChannel!Exchange, ReliableChannel!Accept
  <1>3. CASE Doubts
    <2>1. Numbers' = Numbers
      BY <1>3, NoneDelivered DEF Doubts
    <2>2. next - 1 < Len(Messages) /\ next' = next /\ doubtful' = doubtful \cup {next}
      BY <1>1, <1>3 DEF Doubts
    <2>3. QED
      BY <1>1, <2>1, <2>2 DEF ReliableChannel!Exchange, ReliableChannel!Doubt
  <1>4. CASE Delivers
    <2>1. PICK m \in 1 .. Len(Messages) :
            /\ Precedes(m, next, doubtful)
            /\ \A x \in Out : Precedes(x, m, doubtful)
            /\ \A j \in 1 .. m - 1 : j \in Out
            /\ Numbers' = Append(Numbers, m)
      BY <1>4 DEF Delivers
    <2>2. m \in (1 .. next - 1) \cup doubtful
      BY <1>1, <2>1 DEF Precedes
    <2>3. ReliableChannel!Due(m)
      <3>1. DOMAIN Numbers = DOMAIN delivered
        BY DEF Numbers
      <3>2. QED
        BY <2>1, <3>1 DEF ReliableChannel!Due, ReliableChannel!After, Precedes, Out
    <2>4. QED
      BY <1>4, <2>1, <2>2, <2>3
        DEF Delivers, ReliableChannel!Exchange, ReliableChannel!Deliver
  <1>5. CASE Strays
    BY <1>5 DEF Strays, ReliableChannel!Exchange, ReliableChannel!Stray
  <1>6. CASE UNCHANGED <<next, doubtful, delivered>>
    BY <1>6, NoneDelivered DEF ReliableChannel!cvars
  <1>7. QED
    BY <1>2, <1>3, <1>4, <1>5, <1>6 DEF Exchanges

\* Through split sends and arrivals, would_blocks, resets, new connections and
\* last errors that are out of date: while the ends agree where packets start,
\* what receive(Packet&) delivers was sent, in the order it was sent in, and
\* twice only when a send(Packet&) that put all of it into the stream did not
\* return done.
THEOREM PacketsInOrder == Distinct => (Spec => IsLossyChannel)
PROOF
  <1>1. Init => Placed /\ Framing /\ Ordered
    BY PlacedInit, FramesInit, OrderedInit
  <1>2. Distinct /\ Placed /\ Framing /\ Ordered /\ [Next]_vars
          => (Placed /\ Framing /\ Ordered)'
    BY PlacedStep, FramesStep, OrderedStep
  <1>3. Distinct /\ Placed /\ Framing /\ Ordered /\ [Next]_vars
          => [LossyChannel!Exchange]_(LossyChannel!cvars)
    BY PlacedStep, OrderedStep, LossyStep
  <1>4. Init => LossyChannel!Start
    BY OrderedInit DEF LossyChannel!Start
  <1>5. Distinct => Distinct'
    BY DEF Distinct
  <1>6. QED
    BY <1>1, <1>2, <1>3, <1>4, <1>5, PTL
      DEF Spec, IsLossyChannel, LossyChannel!ChannelSpec

\* Between sockets that block, on one connection, and while the ends agree where
\* packets start, each delivery is the message after the one before: nothing is
\* left out that send(Packet&) was done with.  Segments that arrive in parts,
\* with which receive(Packet&) can lose the agreement, are not ruled out.  That
\* all of them come in the end is liveness, and no part of this.
THEOREM NoPacketIsLost == Distinct /\ Patient => (Spec => ReliableChannel!ChannelSpec)
PROOF
  <1>1. Init => Placed /\ Framing /\ Ordered
    BY PlacedInit, FramesInit, OrderedInit
  <1>2. Distinct /\ Placed /\ Framing /\ Ordered /\ [Next]_vars
          => (Placed /\ Framing /\ Ordered)'
    BY PlacedStep, FramesStep, OrderedStep
  <1>3. Distinct /\ Patient /\ Placed /\ Framing /\ Ordered /\ [Next]_vars
          => [ReliableChannel!Exchange]_(ReliableChannel!cvars)
    BY PlacedStep, OrderedStep, ReliableStep
  <1>4. Init => ReliableChannel!Start
    BY OrderedInit DEF ReliableChannel!Start
  <1>5. Distinct /\ Patient => (Distinct /\ Patient)'
    BY DEF Distinct, Patient
  <1>6. QED
    BY <1>1, <1>2, <1>3, <1>4, <1>5, PTL
      DEF Spec, ReliableChannel!ChannelSpec
=============================================================================
