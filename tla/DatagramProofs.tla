--------------------------- MODULE DatagramProofs ---------------------------
(***************************************************************************)
(* Theorems about Datagram, for any number of ends and strangers, all      *)
(* payloads, every way in which the network loses, doubles and reorders    *)
(* datagrams, and every host that may be found.                            *)
(***************************************************************************)
EXTENDS Datagram, PacketLemmas, TLAPS

-----------------------------------------------------------------------------
(* Numbers of two digits.                                                  *)

\* The multiples of a number are that number apart.
LEMMA Apart ==
  ASSUME NEW R \in Nat, NEW a \in Nat, NEW b \in Nat, a > b
  PROVE  R * a >= R * b + R
PROOF
  <1>1. PICK c \in Nat : a = b + 1 + c
    <2>1. a - b - 1 \in Nat /\ a = b + 1 + (a - b - 1)
      OBVIOUS
    <2>2. QED
      BY <2>1
  <1>2. R * (b + 1 + c) = R * b + R + R * c
    OBVIOUS
  <1>3. R * c \in Nat /\ R * b \in Nat
    OBVIOUS
  <1>4. QED
    BY <1>1, <1>2, <1>3

\* The digits that a number is made of are those that division finds.
LEMMA DivMod ==
  ASSUME NEW R \in Nat, R >= 2, NEW q \in Nat, NEW r \in 0 .. R - 1
  PROVE  (R * q + r) \div R = q /\ (R * q + r) % R = r
PROOF
  <1> DEFINE n == R * q + r
             x == n \div R
             y == n % R
  <1>1. n \in Nat /\ R * q \in Nat
    OBVIOUS
  <1>2. x \in Nat /\ y \in 0 .. R - 1 /\ n = R * x + y
    BY <1>1
  <1>3. n = R * q + r
    OBVIOUS
  <1> HIDE DEF x, y, n
  <1>4. ~(x > q)
    <2>1. SUFFICES ASSUME x > q PROVE FALSE
      OBVIOUS
    <2>2. R * x >= R * q + R
      BY <1>2, <2>1, Apart
    <2>3. R * x \in Nat
      BY <1>2
    <2>4. QED
      BY <1>1, <1>2, <1>3, <2>2, <2>3
  <1>5. ~(q > x)
    <2>1. SUFFICES ASSUME q > x PROVE FALSE
      OBVIOUS
    <2>2. R * q >= R * x + R
      BY <1>2, <2>1, Apart
    <2>3. R * x \in Nat
      BY <1>2
    <2>4. QED
      BY <1>1, <1>2, <1>3, <2>2, <2>3
  <1>6. x = q
    BY <1>2, <1>4, <1>5
  <1>7. y = r
    BY <1>1, <1>2, <1>3, <1>6
  <1>8. QED
    BY <1>6, <1>7 DEF x, y, n

\* Two bytes are the digits of their number.
LEMMA NumberDigits ==
  ASSUME NEW low \in Byte, NEW high \in Byte
  PROVE  Digits(Radix * high + low) = <<low, high>>
PROOF
  <1>1. (Radix * high + low) \div Radix = high /\ (Radix * high + low) % Radix = low
    <2>1. Radix \in Nat /\ Radix >= 2 /\ high \in Nat /\ low \in 0 .. Radix - 1
      BY Constants DEF Byte
    <2>2. QED
      BY <2>1, DivMod
  <1>2. QED
    BY <1>1 DEF Digits

\* The two bytes of a port become a port, and that port these two bytes.
LEMMA PortBytes ==
  ASSUME NEW b \in PortByte \X PortByte
  PROVE  ntohs(b) \in Ports /\ htons(ntohs(b)) = b
PROOF
  <1>1. /\ PortRadix \in Nat /\ PortRadix >= 2 /\ b = <<b[1], b[2]>>
        /\ b[1] \in Nat /\ b[1] <= PortRadix - 1 /\ b[2] \in 0 .. PortRadix - 1
    BY AddressAssumption DEF PortByte
  <1>2. ntohs(b) = PortRadix * b[1] + b[2]
    BY DEF ntohs
  <1>3. /\ ntohs(b) \div PortRadix = b[1]
        /\ ntohs(b) % PortRadix = b[2]
    BY <1>1, <1>2, DivMod
  <1>4. htons(ntohs(b)) = b
    BY <1>1, <1>3 DEF htons
  <1>5. ntohs(b) \in Ports
    <2>1. PortRadix * PortRadix >= PortRadix * b[1] + PortRadix
      BY <1>1, Apart
    <2>2. PortRadix * b[1] \in Nat /\ PortRadix * PortRadix \in Nat
      BY <1>1
    <2>3. QED
      BY <1>1, <1>2, <2>1, <2>2 DEF Ports
  <1>6. QED
    BY <1>4, <1>5

-----------------------------------------------------------------------------
(* Datagrams that are packets.                                             *)

\* A payload that packets may have is one of bytes, and leaves room.
LEMMA BodiesFit ==
  ASSUME NEW body \in Bodies
  PROVE  body \in Seq(Byte) /\ HeaderSize + Len(body) < DatagramSize
PROOF
  <1>1. CASE body \in Payloads
    BY <1>1, DatagramAssumption
  <1>2. CASE body = << >>
    BY <1>2, Constants DEF HeaderSize
  <1>3. CASE body \in {Behind(d.bytes) : d \in
                         {f \in Forged : IsPacket(f.bytes, Behind(f.bytes))}}
    <2>1. PICK f \in Forged : body = Behind(f.bytes) /\ IsPacket(f.bytes, body)
      BY <1>3
    <2>2. f.bytes \in Seq(Byte) /\ Len(f.bytes) < DatagramSize
      BY DatagramAssumption
    <2>3. body \in Seq(Byte) /\ (Len(f.bytes) < HeaderSize => body = << >>)
          /\ (Len(f.bytes) >= HeaderSize => Len(body) = Len(f.bytes) - HeaderSize)
      <3> DEFINE s == f.bytes
      <3>1. s \in Seq(Byte) /\ body = SubSeq(s, 3, Len(s))
        BY <2>1, <2>2 DEF Behind, HeaderSize
      <3> HIDE DEF s
      <3>2. body \in Seq(Byte) /\ Len(body) = IF 3 <= Len(s) THEN Len(s) - 2 ELSE 0
        BY <3>1
      <3>3. QED
        BY <3>1, <3>2 DEF HeaderSize, s
    <2>4. QED
      BY <2>2, <2>3, Constants DEF HeaderSize
  <1>4. QED
    BY <1>1, <1>2, <1>3 DEF Bodies

\* A datagram made of a length and that many bytes says its size.
LEMMA PacketSize ==
  ASSUME NEW body \in Seq(Byte), HeaderSize + Len(body) < DatagramSize,
         NEW bytes, IsPacket(bytes, body)
  PROVE  /\ bytes \in Seq(Byte) /\ Len(bytes) = HeaderSize + Len(body)
         /\ SizeRight(bytes) /\ Behind(bytes) = body
PROOF
  <1> DEFINE n == Len(body)
             d == Digits(n)
  <1>1. n \in Nat /\ n < LenMod /\ HeaderSize + n < LenMod
    BY Constants DEF HeaderSize
  <1>2. d \in Seq(Byte) /\ Len(d) = 2 /\ Number(d) = n
    <2> HIDE DEF n
    <2>1. QED
      BY <1>1, DigitsBytes
  <1>3. bytes = d \o body
    BY DEF IsPacket
  <1> HIDE DEF d
  <1>4. bytes \in Seq(Byte) /\ Len(bytes) = 2 + n
    <2>1. d \o body \in Seq(Byte) /\ Len(d \o body) = Len(d) + Len(body)
      BY <1>2, Concatenated
    <2>2. QED
      BY <1>2, <1>3, <2>1
  <1>5. bytes[1] = d[1] /\ bytes[2] = d[2]
    <2>1. ASSUME NEW x \in Seq(Byte), NEW y \in Seq(Byte), Len(x) = 2
          PROVE  (x \o y)[1] = x[1] /\ (x \o y)[2] = x[2]
      <3>1. 1 \in 1 .. Len(x) /\ 2 \in 1 .. Len(x)
        BY <2>1
      <3>2. QED
        BY <3>1
    <2>2. QED
      BY <1>2, <1>3, <2>1
  <1>6. Behind(bytes) = body
    <2>1. SubSeq(bytes, 3, Len(bytes)) = body
      BY <1>2, <1>3, <1>4
    <2>2. QED
      BY <2>1 DEF Behind, HeaderSize
  <1>7. Number(bytes) = n
    BY <1>2, <1>5 DEF Number
  <1>8. SizeRight(bytes)
    <2> HIDE DEF n
    <2>1. (2 + n) % LenMod = 2 + n
      BY <1>1, SmallLength DEF HeaderSize
    <2>2. QED
      BY <1>1, <1>4, <1>7, <2>1 DEF SizeRight, HeaderSize
  <1>9. QED
    BY <1>4, <1>6, <1>8 DEF HeaderSize

\* A datagram that says its size is one made of a length and that many bytes.
LEMMA SizedIsPacket ==
  ASSUME NEW bytes \in Seq(Byte), Len(bytes) < DatagramSize, SizeRight(bytes)
  PROVE  IsPacket(bytes, Behind(bytes)) /\ Len(bytes) >= HeaderSize
PROOF
  <1> DEFINE n    == Len(bytes) - 2
             body == Behind(bytes)
  <1>1. Len(bytes) \in Nat /\ Len(bytes) >= 2 /\ Len(bytes) < LenMod
    BY Constants DEF SizeRight, HeaderSize
  <1>2. body = SubSeq(bytes, 3, Len(bytes))
    BY DEF Behind, HeaderSize
  <1>3. body \in Seq(Byte) /\ Len(body) = n
    <2> HIDE DEF body
    <2>1. body \in Seq(Byte)
          /\ Len(body) = IF 3 <= Len(bytes) THEN Len(bytes) - 2 ELSE 0
      BY <1>2
    <2>2. ASSUME NEW k \in Nat, k >= 2
          PROVE  (IF 3 <= k THEN k - 2 ELSE 0) = k - 2
      BY <2>2
    <2>3. QED
      BY <1>1, <2>1, <2>2
  <1>4. Number(bytes) = n
    BY <1>1, SmallLength DEF SizeRight, HeaderSize
  <1>5. bytes[1] \in Byte /\ bytes[2] \in Byte
    BY <1>1
  <1>6. Digits(n) = <<bytes[1], bytes[2]>>
    <2>1. n = Radix * bytes[2] + bytes[1]
      <3> HIDE DEF n
      <3>1. bytes[1] \in Int /\ bytes[2] \in Int /\ Radix * bytes[2] \in Int
        BY <1>5, Constants DEF Byte
      <3>2. QED
        BY <1>4, <3>1 DEF Number
    <2> HIDE DEF n
    <2>2. QED
      BY <1>5, <2>1, NumberDigits
  <1>7. bytes = <<bytes[1], bytes[2]>> \o body
    <2> HIDE DEF body
    <2>1. QED
      BY <1>1, <1>2
  <1>8. QED
    <2> HIDE DEF body, n
    <2>1. QED
      BY <1>1, <1>3, <1>6, <1>7 DEF IsPacket, body, HeaderSize

\* The native addresses that the ends and strangers have.
Natives == {At[e] : e \in Ends} \cup {d.from : d \in Forged}

\* A native address with another scope.
LEMMA OtherScope ==
  ASSUME NEW n, IsNative(n), NEW s
  PROVE  /\ IsNative([n EXCEPT !.scope = s])
         /\ [n EXCEPT !.scope = s]
              = [family |-> n.family, host |-> n.host, port |-> n.port, scope |-> s]
         /\ s = n.scope => [n EXCEPT !.scope = s] = n
PROOF
  <1> DEFINE fam == n.family
             hos == n.host
             por == n.port
             sco == n.scope
             m   == [family |-> fam, host |-> hos, port |-> por, scope |-> s]
  <1>1. n = [family |-> fam, host |-> hos, port |-> por, scope |-> sco]
        /\ por \in PortByte \X PortByte
    BY DEF IsNative
  <1> HIDE DEF fam, hos, por, sco
  <1>2. [n EXCEPT !.scope = s] = m
    BY <1>1
  <1>3. IsNative(m)
    BY <1>1 DEF IsNative
  <1>4. s = sco => m = n
    BY <1>1
  <1>5. QED
    <2> HIDE DEF m
    <2>1. QED
      BY <1>2, <1>3, <1>4, Zenon DEF m, fam, hos, por, sco

\* An end's address is that end's, and a stranger's is nobody's.
LEMMA WhoIs ==
  /\ \A e \in Ends : Who(At[e]) = e
  /\ \A d \in Forged : Who(d.from) = NoPeer /\ \A e \in Ends : d.from # At[e]
PROOF
  <1>1. ASSUME NEW e \in Ends PROVE Who(At[e]) = e
    <2>1. \A f \in Ends : At[f] = At[e] => f = e
      BY DatagramAssumption
    <2>2. (CHOOSE f \in Ends : At[f] = At[e]) = e
      BY <2>1
    <2>3. QED
      BY <2>2 DEF Who
  <1>2. ASSUME NEW d \in Forged, NEW e \in Ends PROVE d.from # At[e]
    <2>1. SUFFICES ASSUME d.from = At[e] PROVE FALSE
      OBVIOUS
    <2>2. d.from # [At[e] EXCEPT !.scope = d.from.scope]
      BY DatagramAssumption
    <2>3. IsNative(At[e])
      BY DatagramAssumption
    <2>4. [At[e] EXCEPT !.scope = At[e].scope] = At[e]
      BY <2>3, OtherScope
    <2>5. QED
      BY <2>1, <2>2, <2>4
  <1>3. ASSUME NEW d \in Forged PROVE Who(d.from) = NoPeer
    BY <1>2 DEF Who
  <1>4. QED
    BY <1>1, <1>2, <1>3

\* Whoever has an address is an end or nobody.
LEMMA WhoType ==
  ASSUME NEW n
  PROVE  Who(n) \in Ends \cup {NoPeer}
PROOF
  <1>1. ASSUME NEW e \in Ends, At[e] = n
        PROVE  (CHOOSE f \in Ends : At[f] = n) \in Ends
    BY <1>1
  <1>2. QED
    BY <1>1 DEF Who

\* Native fields survive the conversion to an Address and back, but the scope.
LEMMA ThereAndBack ==
  ASSUME NEW n, IsNative(n)
  PROVE  to_native(from_native(n)) = [n EXCEPT !.scope = 0]
PROOF
  <1>1. htons(ntohs(n.port)) = n.port
    BY PortBytes DEF IsNative
  <1>2. to_native(from_native(n))
          = [family |-> n.family, host |-> n.host, port |-> n.port, scope |-> 0]
    BY <1>1 DEF to_native, from_native, Native
  <1>3. QED
    BY <1>2, OtherScope

\* The address that receive_from stores names whom the datagram came from: a
\* reply goes back there, or to nobody.
LEMMA ReplyGoesBack ==
  /\ \A e \in Ends : Named(from_native(At[e])) = e
  /\ \A d \in Forged : Named(from_native(d.from)) = NoPeer
PROOF
  <1>1. ASSUME NEW e \in Ends PROVE Named(from_native(At[e])) = e
    <2>1. IsNative(At[e]) /\ At[e].scope = 0 /\ Translatable(from_native(At[e]))
      BY DatagramAssumption
    <2>2. [At[e] EXCEPT !.scope = 0] = At[e]
      <3>1. [At[e] EXCEPT !.scope = At[e].scope] = At[e]
        BY <2>1, OtherScope
      <3>2. QED
        BY <2>1, <3>1
    <2>3. to_native(from_native(At[e])) = At[e]
      BY <2>1, <2>2, ThereAndBack
    <2>4. Who(At[e]) = e
      BY WhoIs
    <2>5. QED
      BY <2>1, <2>3, <2>4 DEF Named
  <1>2. ASSUME NEW d \in Forged PROVE Named(from_native(d.from)) = NoPeer
    <2>1. IsNative(d.from)
      BY DatagramAssumption
    <2>2. to_native(from_native(d.from)) = [d.from EXCEPT !.scope = 0]
      BY <2>1, ThereAndBack
    <2>3. ASSUME NEW e \in Ends, At[e] = [d.from EXCEPT !.scope = 0]
          PROVE  FALSE
      <3> DEFINE n == d.from
      <3>1. n # [At[e] EXCEPT !.scope = n.scope]
        BY DatagramAssumption
      <3>2. At[e] = [family |-> n.family, host |-> n.host, port |-> n.port,
                     scope |-> 0]
        BY <2>1, <2>3, OtherScope
      <3>3. [At[e] EXCEPT !.scope = n.scope]
              = [family |-> At[e].family, host |-> At[e].host, port |-> At[e].port,
                 scope |-> n.scope]
        <4>1. IsNative(At[e])
          BY DatagramAssumption
        <4>2. QED
          BY <4>1, OtherScope
      <3>4. /\ At[e].family = n.family /\ At[e].host = n.host
            /\ At[e].port = n.port
        BY <3>2
      <3>5. n = [family |-> n.family, host |-> n.host, port |-> n.port,
                 scope |-> n.scope]
        BY <2>1, Zenon DEF IsNative
      <3>6. QED
        BY <3>1, <3>3, <3>4, <3>5, Zenon
    <2>4. Who(to_native(from_native(d.from))) = NoPeer
      BY <2>2, <2>3 DEF Who
    <2>5. QED
      BY <2>4 DEF Named
  <1>3. QED
    BY <1>1, <1>2

-----------------------------------------------------------------------------
(* Packets that ends send and receive into.                                *)

\* A packet that holds a payload, with its cursors in front of and behind it.
IsMessage(p) ==
  /\ Sound(p) /\ HasData(p)
  /\ p.header = Len(p.body) /\ p.body \in Bodies
  /\ p.read_pos = HeaderSize /\ p.write_pos = HeaderSize + Len(p.body)

\* What is put on the wire of it is a packet.
LEMMA FlatIsPacket ==
  ASSUME NEW p, IsMessage(p)
  PROVE  IsPacket(Flat(p), p.body) /\ p.body \in Bodies
BY DEF IsMessage, Flat, IsPacket

\* New and filled packets hold payloads.
LEMMA FilledIsMessage ==
  /\ IsMessage(NewPacket)
  /\ \A m \in Payloads : IsMessage(Filled(m)) /\ Filled(m).body = m
PROOF
  <1>1. IsMessage(NewPacket)
    <2>1. /\ NewPacket.header = 0 /\ NewPacket.body = << >>
          /\ NewPacket.read_pos = HeaderSize /\ NewPacket.write_pos = HeaderSize
      BY DEF NewPacket
    <2>2. << >> \in Bodies
      BY DEF Bodies
    <2>3. QED
      BY <2>1, <2>2, NewPacketSound DEF IsMessage, HasData, NoHeader, HeaderSize
  <1>2. ASSUME NEW m \in Payloads PROVE IsMessage(Filled(m)) /\ Filled(m).body = m
    <2>1. m \in Seq(Byte) /\ HeaderSize + Len(m) < DatagramSize
      BY DatagramAssumption
    <2> DEFINE q == write_data(NewPacket, m, TRUE).pkt
    <2>2. /\ q = [NewPacket EXCEPT !.header    = Len(m),
                                   !.body      = m,
                                   !.write_pos = HeaderSize + Len(m)]
          /\ Sound(q) /\ HasData(q)
      BY <2>1, FilledPacket
    <2> HIDE DEF q
    <2>3. /\ q.header = Len(m) /\ q.body = m
          /\ q.read_pos = HeaderSize /\ q.write_pos = HeaderSize + Len(m)
      BY <2>2 DEF NewPacket
    <2>4. m \in Bodies
      BY DEF Bodies
    <2>5. QED
      BY <2>2, <2>3, <2>4 DEF IsMessage, Filled, q
  <1>3. QED
    BY <1>1, <1>2

\* A datagram of the right size that is copied over a packet makes a packet of
\* its payload: the header is the length that the datagram itself starts with.
LEMMA CopiedPacket ==
  ASSUME NEW p, Sound(p), NEW bytes \in Seq(Byte),
         HeaderSize <= Len(bytes), Len(bytes) < DatagramSize,
         Number(bytes) = Len(bytes) - HeaderSize
  PROVE  LET q == Copied(p, bytes) IN
         /\ Sound(q) /\ HasData(q)
         /\ q.header = Len(q.body) /\ q.body = Behind(bytes)
         /\ q.read_pos = HeaderSize /\ q.write_pos = Len(bytes)
         /\ Len(q.body) = Len(bytes) - HeaderSize
PROOF
  <1> DEFINE n     == Len(bytes)
             none  == clear(p).pkt
             sized == resize(none, n).pkt
             front == [sized EXCEPT !.write_pos = 0]
             body  == Behind(bytes)
             h     == Number(bytes)
             q     == [front EXCEPT !.header = h, !.body = body, !.write_pos = n]
  <1>1. n \in Nat /\ n >= 2 /\ n < DatagramSize /\ h = n - 2
    BY DEF HeaderSize
  <1>2. Sound(none) /\ none.read_pos = HeaderSize
    BY ClearSound, ClearResult
  <1>3. /\ Sound(sized) /\ HasData(sized) /\ Len(sized.body) = n - 2
        /\ sized.read_pos = HeaderSize
    <2>1. Sound(sized) /\ HasData(sized)
      <3> HIDE DEF none, n
      <3>1. QED
        BY <1>1, <1>2, ResizeSound
    <2>2. Larger(HeaderSize, Smaller(DatagramSize, n)) - HeaderSize = n - 2
      <3> HIDE DEF n
      <3>1. QED
        BY <1>1, Constants DEF Larger, Smaller, HeaderSize
    <2>3. /\ work_size(sized)
               = Larger(HeaderSize, Smaller(DatagramSize, n)) - HeaderSize
          /\ SameElsewhere(none, sized)
      <3> HIDE DEF none, n
      <3>1. QED
        BY <1>1, <1>2, ResizeExact
    <2> HIDE DEF sized, none
    <2>4. QED
      BY <1>2, <2>1, <2>2, <2>3 DEF SameElsewhere, work_size
  <1>4. /\ front \in PacketType /\ HasData(front)
        /\ front.body = sized.body /\ front.header \in 0 .. LenMod - 1
        /\ front.write_pos = 0 /\ front.read_pos = HeaderSize
    <2> HIDE DEF sized
    <2>1. QED
      BY <1>3 DEF Sound, PacketType, HasData, NoHeader
  <1>5. front.body \in Seq(Byte) /\ Len(front.body) = n - 2
    <2> HIDE DEF front, sized
    <2>1. QED
      BY <1>3, <1>4 DEF PacketType
  <1>6. body \in Seq(Byte) /\ Len(body) = n - 2
    <2>1. body \in Seq(Byte)
          /\ Len(body) = IF 3 <= Len(bytes) THEN Len(bytes) - 2 ELSE 0
      BY DEF Behind, HeaderSize
    <2>2. ASSUME NEW k \in Nat, k >= 2
          PROVE  (IF 3 <= k THEN k - 2 ELSE 0) = k - 2
      BY <2>2
    <2> HIDE DEF body
    <2>3. QED
      BY <1>1, <2>1, <2>2
  <1>7. Overwritten(Flat(front), 0, bytes) = bytes
    <2>1. Flat(front) \in Seq(Byte) /\ Len(Flat(front)) = real_size(front)
      <3> HIDE DEF front
      <3>1. QED
        BY <1>4, FlatBytes
    <2>2. real_size(front) = n
      <3> HIDE DEF front, n
      <3>1. QED
        BY <1>1, <1>4, <1>5 DEF real_size, HasData, HeaderSize
    <2> HIDE DEF front
    <2>3. QED
      BY <2>1, <2>2, OverwrittenAll
  <1>8. AtFront(front, bytes) = q
    <2> HIDE DEF front
    <2>1. QED
      BY <1>4, <1>7, Zenon DEF AtFront, Behind
  <1>9. Copied(p, bytes) = q
    <2>1. /\ ~full(front) /\ ~(front.write_pos + Len(bytes) > DatagramSize)
          /\ Smaller(DatagramSize - front.write_pos, Len(bytes)) = n
      <3> HIDE DEF front
      <3>1. real_size(front) = n
        <4> HIDE DEF n
        <4>1. QED
          BY <1>1, <1>4, <1>5 DEF real_size, HasData, HeaderSize
      <3>2. front.write_pos = 0
        BY <1>4
      <3> HIDE DEF n
      <3>3. Len(bytes) = n
        BY DEF n
      <3>4. QED
        BY <1>1, <3>1, <3>2, <3>3, Constants DEF full, Smaller, HeaderSize
    <2>2. SubSeq(bytes, 1, n) = bytes
      OBVIOUS
    <2>3. write_data(front, bytes, TRUE) = Return(q, n)
      <3>1. front.write_pos = 0
        BY <1>4
      <3>2. Return(q, 0).pkt = q /\ ~Return(q, 0).threw
        <4> HIDE DEF q
        <4>1. QED
          BY DEF Return
      <3> HIDE DEF front, q, n
      <3>3. QED
        BY <1>8, <2>1, <2>2, <3>1, <3>2 DEF write_data
    <2>4. Copied(p, bytes) = write_data(front, bytes, TRUE).pkt
      BY DEF Copied
    <2>5. Return(q, n).pkt = q
      <3> HIDE DEF q, n
      <3>1. QED
        BY DEF Return
    <2> HIDE DEF front, q, n
    <2>6. QED
      BY <2>3, <2>4, <2>5, Zenon
  <1>10. /\ q \in PacketType /\ q.header = n - 2 /\ q.body = body
         /\ q.read_pos = HeaderSize /\ q.write_pos = n
    <2>1. n - 2 \in 0 .. LenMod - 1
      <3> HIDE DEF n
      <3>1. QED
        BY <1>1, Constants
    <2> HIDE DEF front, body, n, h
    <2>2. QED
      BY <1>1, <1>4, <1>6, <2>1 DEF PacketType
  <1>11. Sound(q) /\ HasData(q)
    <2> HIDE DEF q, body
    <2>1. HasData(q) /\ work_size(q) = n - 2 /\ real_size(q) = n
      BY <1>1, <1>6, <1>10 DEF HasData, NoHeader, work_size, real_size, HeaderSize
    <2>2. QED
      <3> HIDE DEF n
      <3>1. QED
        BY <1>1, <1>10, <2>1, Constants DEF Sound, HeaderSize
  <1>12. QED
    <2>1. body = Behind(bytes) /\ n = Len(bytes) /\ HeaderSize = 2
      BY DEF HeaderSize
    <2> HIDE DEF q, body, n
    <2>2. /\ q.header = Len(q.body) /\ q.body = Behind(bytes)
          /\ q.write_pos = Len(bytes) /\ Len(q.body) = Len(bytes) - HeaderSize
      BY <1>6, <1>10, <2>1
    <2>3. QED
      BY <1>9, <1>10, <1>11, <2>2

\* So the packet holds the payload of a datagram that is a packet.
LEMMA CopiedIsMessage ==
  ASSUME NEW p, Sound(p), NEW bytes, NEW body \in Bodies, IsPacket(bytes, body)
  PROVE  IsMessage(Copied(p, bytes)) /\ Copied(p, bytes).body = body
PROOF
  <1> DEFINE q == Copied(p, bytes)
  <1>1. body \in Seq(Byte) /\ HeaderSize + Len(body) < DatagramSize
    BY BodiesFit
  <1>2. /\ bytes \in Seq(Byte) /\ Len(bytes) = HeaderSize + Len(body)
        /\ Behind(bytes) = body
    BY <1>1, PacketSize
  <1>3. HeaderSize <= Len(bytes) /\ Len(bytes) < DatagramSize
    <2>1. Len(body) \in Nat
      BY <1>1
    <2>2. QED
      BY <1>1, <1>2, <2>1 DEF HeaderSize
  <1>4. /\ Sound(q) /\ HasData(q) /\ q.header = Len(q.body) /\ q.body = body
        /\ q.read_pos = HeaderSize /\ q.write_pos = HeaderSize + Len(body)
    <2> HIDE DEF q
    <2>1. Number(bytes) = Len(bytes) - HeaderSize
      <3>1. Len(bytes) \in Nat /\ Len(bytes) < LenMod
        BY <1>2, <1>3, Constants
      <3>2. Len(bytes) % LenMod = Len(bytes)
        BY <3>1, Constants
      <3>3. SizeRight(bytes)
        BY <1>1, PacketSize
      <3>4. QED
        BY <3>2, <3>3 DEF SizeRight
    <2>2. QED
      BY <1>2, <1>3, <2>1, CopiedPacket DEF q
  <1>5. QED
    <2> HIDE DEF q
    <2>1. QED
      BY <1>4 DEF IsMessage, q

-----------------------------------------------------------------------------
(* The inductive invariant.                                                *)

LastErrors == {"none", "would_block", "connection_reset",
               "message_too_large", "network_unreachable"}

\* An address that a program has: the three fields, and a port that fits.
IsAddress(a) ==
  /\ a = [address |-> a.address, port |-> a.port, family |-> a.family]
  /\ a.port \in Ports

\* A datagram under way goes to an end; it is one that an end sends, which is a
\* packet, or one that a stranger does.
Underway(d) ==
  /\ \E e \in Ends : d.to = At[e]
  /\ \/ \E e \in Ends, body \in Bodies : d.from = At[e] /\ IsPacket(d.bytes, body)
     \/ \E f \in Forged : d.from = f.from /\ d.bytes = f.bytes

\* What TypeOK says, and more: the payload of a packet is one that programs and
\* strangers make, and what is under way is made by them.
Exchanging ==
  /\ pkt \in [Ends -> PacketType] /\ \A e \in Ends : IsMessage(pkt[e])
  /\ DOMAIN addr = Ends /\ \A e \in Ends : IsAddress(addr[e])
  /\ err \in [Ends -> LastErrors]
  /\ \A d \in net : Underway(d)

\* A datagram under way says its size exactly if it is a packet, of a payload
\* that packets may have; those of the ends are.
LEMMA UnderwaySized ==
  ASSUME NEW d, Underway(d)
  PROVE  /\ d.bytes \in Seq(Byte)
         /\ SizeRight(d.bytes) <=> \E body \in Bodies : IsPacket(d.bytes, body)
         /\ SizeRight(d.bytes) =>
              Behind(d.bytes) \in Bodies /\ IsPacket(d.bytes, Behind(d.bytes))
         /\ \A e \in Ends : d.from = At[e] => SizeRight(d.bytes)
PROOF
  <1>1. ASSUME NEW body \in Bodies, IsPacket(d.bytes, body)
        PROVE  d.bytes \in Seq(Byte) /\ SizeRight(d.bytes) /\ Behind(d.bytes) = body
    BY <1>1, BodiesFit, PacketSize
  <1>2. ASSUME NEW f \in Forged, d.from = f.from, d.bytes = f.bytes
        PROVE  /\ d.bytes \in Seq(Byte) /\ \A e \in Ends : d.from # At[e]
               /\ SizeRight(d.bytes) =>
                    Behind(d.bytes) \in Bodies /\ IsPacket(d.bytes, Behind(d.bytes))
    <2>1. f.bytes \in Seq(Byte) /\ Len(f.bytes) < DatagramSize
      BY DatagramAssumption
    <2>2. \A e \in Ends : d.from # At[e]
      BY <1>2, WhoIs
    <2>3. ASSUME SizeRight(f.bytes)
          PROVE  IsPacket(f.bytes, Behind(f.bytes)) /\ Behind(f.bytes) \in Bodies
      <3>1. IsPacket(f.bytes, Behind(f.bytes))
        BY <2>1, <2>3, SizedIsPacket
      <3>2. QED
        BY <3>1 DEF Bodies
    <2>4. QED
      BY <1>2, <2>1, <2>2, <2>3
  <1>3. CASE \E e \in Ends, body \in Bodies :
               d.from = At[e] /\ IsPacket(d.bytes, body)
    <2>1. PICK body \in Bodies : IsPacket(d.bytes, body)
      BY <1>3
    <2>2. QED
      BY <1>1, <2>1
  <1>4. CASE \E f \in Forged : d.from = f.from /\ d.bytes = f.bytes
    <2>1. PICK f \in Forged : d.from = f.from /\ d.bytes = f.bytes
      BY <1>4
    <2>2. QED
      BY <1>1, <1>2, <2>1
  <1>5. QED
    BY <1>3, <1>4 DEF Underway

\* A packet that an end sends is the one it has, or a filled one.
LEMMA OutgoingIsMessage ==
  ASSUME Exchanging, NEW e \in Ends, NEW p \in Outgoing(e)
  PROVE  /\ IsMessage(p) /\ p.body \in Bodies /\ IsPacket(Flat(p), p.body)
         /\ Flat(p) \in Seq(Byte) /\ Behind(Flat(p)) = p.body
PROOF
  <1>1. IsMessage(p)
    BY FilledIsMessage DEF Outgoing, Exchanging
  <1>2. p.body \in Bodies /\ IsPacket(Flat(p), p.body)
    BY <1>1, FlatIsPacket
  <1>3. p.body \in Seq(Byte) /\ HeaderSize + Len(p.body) < DatagramSize
    BY <1>2, BodiesFit
  <1>4. QED
    BY <1>1, <1>2, <1>3, PacketSize

\* A packet that the stack takes from an end is under way if it goes to one.
LEMMA TransmitKeeps ==
  ASSUME Exchanging, NEW e \in Ends, NEW p \in Outgoing(e), NEW to,
         Transmit(At[e], to, Flat(p))
  PROVE  \A d \in net' : Underway(d)
PROOF
  <1> DEFINE new == [from |-> At[e], to |-> to, bytes |-> Flat(p)]
  <1>1. net' = net \/ (net' = net \cup {new} /\ \E f \in Ends : At[f] = to)
    BY DEF Transmit
  <1>2. ASSUME \E f \in Ends : At[f] = to PROVE Underway(new)
    <2>1. new.from = At[e] /\ new.to = to /\ new.bytes = Flat(p)
      OBVIOUS
    <2>2. p.body \in Bodies /\ IsPacket(Flat(p), p.body)
      BY OutgoingIsMessage
    <2> HIDE DEF new
    <2>3. QED
      BY <1>2, <2>1, <2>2 DEF Underway
  <1>3. \A d \in net : Underway(d)
    BY DEF Exchanging
  <1>4. QED
    <2> HIDE DEF new
    <2>1. QED
      BY <1>1, <1>2, <1>3

\* A datagram that is received over the packet of an end leaves it a packet
\* with a payload.
LEMMA ReceivedKeeps ==
  ASSUME Exchanging, NEW e \in Ends, NEW d \in net, NEW op, Received(op, e, d)
  PROVE  /\ pkt' \in [Ends -> PacketType] /\ \A f \in Ends : IsMessage(pkt'[f])
         /\ err' \in [Ends -> LastErrors]
         /\ \A x \in net' : Underway(x)
PROOF
  <1>1. /\ pkt \in [Ends -> PacketType] /\ \A f \in Ends : IsMessage(pkt[f])
        /\ err \in [Ends -> LastErrors] /\ \A x \in net : Underway(x)
    BY DEF Exchanging
  <1>2. \A x \in net' : Underway(x)
    BY <1>1 DEF Received
  <1>3. err' \in [Ends -> LastErrors]
    <2>1. PICK error \in AfterSuccess(err[e]) : err' = [err EXCEPT ![e] = error]
      BY DEF Received
    <2>2. error \in LastErrors
      BY <1>1 DEF AfterSuccess, LastErrors
    <2>3. QED
      BY <1>1, <2>1, <2>2
  <1>4. ASSUME pkt' = pkt
        PROVE  pkt' \in [Ends -> PacketType] /\ \A f \in Ends : IsMessage(pkt'[f])
    BY <1>1, <1>4
  <1>5. ASSUME SizeRight(d.bytes), pkt' = [pkt EXCEPT ![e] = Copied(@, d.bytes)]
        PROVE  pkt' \in [Ends -> PacketType] /\ \A f \in Ends : IsMessage(pkt'[f])
    <2> DEFINE q == Copied(pkt[e], d.bytes)
    <2>1. Behind(d.bytes) \in Bodies /\ IsPacket(d.bytes, Behind(d.bytes))
      BY <1>1, <1>5, UnderwaySized
    <2>2. Sound(pkt[e])
      BY <1>1 DEF IsMessage
    <2>3. IsMessage(q)
      BY <2>1, <2>2, CopiedIsMessage
    <2>4. q \in PacketType
      BY <2>3 DEF IsMessage, Sound
    <2> HIDE DEF q
    <2>5. pkt' = [pkt EXCEPT ![e] = q]
      BY <1>5 DEF q
    <2>6. QED
      BY <1>1, <2>3, <2>4, <2>5
  <1>6. QED
    BY <1>2, <1>3, <1>4, <1>5 DEF Received, receive_datagram_packet

\* An address that a program gets has a port that fits.
LEMMA FromNative ==
  ASSUME NEW n, IsNative(n)
  PROVE  IsAddress(from_native(n))
PROOF
  <1>1. ntohs(n.port) \in Ports
    BY PortBytes DEF IsNative
  <1>2. QED
    BY <1>1 DEF IsAddress, from_native

\* Where a datagram under way comes from is a native address.
LEMMA FromIsNative ==
  ASSUME NEW d, Underway(d)
  PROVE  IsNative(d.from)
BY DatagramAssumption DEF Underway

\* Another address for an end leaves every end one.
LEMMA AddressKeeps ==
  ASSUME Exchanging, NEW e \in Ends, NEW a, IsAddress(a),
         addr' = [addr EXCEPT ![e] = a]
  PROVE  DOMAIN addr' = Ends /\ \A f \in Ends : IsAddress(addr'[f])
BY DEF Exchanging

\* The invariant holds in the first state.
LEMMA InitExchanging == Init => Exchanging
PROOF
  <1> SUFFICES ASSUME Init PROVE Exchanging
    OBVIOUS
  <1>1. IsMessage(NewPacket) /\ NewPacket \in PacketType
    BY FilledIsMessage DEF IsMessage, Sound
  <1>2. IsAddress(DefaultAddress)
    <2>1. 0 \in Ports
      <3>1. PortRadix * PortRadix >= PortRadix * 0 + PortRadix
        BY AddressAssumption, Apart
      <3>2. QED
        BY <3>1, AddressAssumption DEF Ports
    <2>2. QED
      BY <2>1 DEF IsAddress, DefaultAddress
  <1>3. QED
    BY <1>1, <1>2 DEF Init, Exchanging, LastErrors

\* Every step keeps it.
LEMMA StepKeeps ==
  ASSUME Exchanging, Next
  PROVE  Exchanging'
PROOF
  <1>1. /\ pkt \in [Ends -> PacketType] /\ \A e \in Ends : IsMessage(pkt[e])
        /\ DOMAIN addr = Ends /\ \A e \in Ends : IsAddress(addr[e])
        /\ err \in [Ends -> LastErrors] /\ \A d \in net : Underway(d)
    BY DEF Exchanging
  <1>2. ASSUME NEW e \in Ends, NEW error \in LastErrors,
               err' = [err EXCEPT ![e] = error]
        PROVE  err' \in [Ends -> LastErrors]
    BY <1>1, <1>2
  <1>3. ASSUME NEW e \in Ends, NEW p \in Outgoing(e), send(e, p)
        PROVE  Exchanging'
    <2>1. UNCHANGED <<pkt, addr>>
      BY <1>3 DEF send
    <2>2. \A d \in net' : Underway(d)
      BY <1>1, <1>3, TransmitKeeps DEF send
    <2>3. AfterSuccess(err[e]) \subseteq LastErrors
          /\ \A to, bytes : SendErrors(to, bytes) \subseteq LastErrors
      BY <1>1 DEF AfterSuccess, SendErrors, LastErrors
    <2>4. err' \in [Ends -> LastErrors]
      BY <1>2, <1>3, <2>3 DEF send
    <2>5. QED
      BY <1>1, <2>1, <2>2, <2>4 DEF Exchanging
  <1>4. ASSUME NEW e \in Ends, NEW p \in Outgoing(e), send_to(e, p, addr[e])
        PROVE  Exchanging'
    <2>1. UNCHANGED <<pkt, addr>>
      BY <1>4 DEF send_to
    <2>2. \A d \in net' : Underway(d)
      BY <1>1, <1>4, TransmitKeeps DEF send_to
    <2>3. AfterSuccess(err[e]) \subseteq LastErrors
          /\ \A to, bytes : SendErrors(to, bytes) \subseteq LastErrors
      BY <1>1 DEF AfterSuccess, SendErrors, LastErrors
    <2>4. err' \in [Ends -> LastErrors]
      BY <1>1, <1>2, <1>4, <2>3 DEF send_to
    <2>5. QED
      BY <1>1, <2>1, <2>2, <2>4 DEF Exchanging
  <1>5. ASSUME NEW e \in Ends, NEW p \in Outgoing(e), SendEmpty(e, p)
        PROVE  Exchanging'
    BY <1>1, <1>5 DEF SendEmpty, Exchanging
  <1>6. ASSUME NEW e \in Ends, NEW op, Unreceived(op, e)
        PROVE  Exchanging'
    <2>1. ReceiveErrors \subseteq LastErrors
      BY DEF ReceiveErrors, LastErrors
    <2>2. err' \in [Ends -> LastErrors]
      BY <1>2, <1>6, <2>1 DEF Unreceived
    <2>3. QED
      BY <1>1, <1>6, <2>2 DEF Unreceived, Exchanging
  <1>7. ASSUME NEW e \in Ends, receive(e)
        PROVE  Exchanging'
    <2>1. CASE Unreceived("receive", e)
      BY <1>6, <2>1
    <2>2. ASSUME NEW d \in Arriving(e), Received("receive", e, d), UNCHANGED addr
          PROVE  Exchanging'
      <3>1. d \in net
        BY DEF Arriving
      <3>2. QED
        BY <1>1, <2>2, <3>1, ReceivedKeeps DEF Exchanging
    <2>3. QED
      BY <1>7, <2>1, <2>2 DEF receive
  <1>8. ASSUME NEW e \in Ends, receive_from(e)
        PROVE  Exchanging'
    <2>1. CASE Unreceived("receive_from", e)
      BY <1>6, <2>1
    <2>2. ASSUME NEW d \in Arriving(e), Received("receive_from", e, d),
                 addr' = [addr EXCEPT ![e] = from_native(d.from)]
          PROVE  Exchanging'
      <3>1. d \in net
        BY DEF Arriving
      <3>2. IsAddress(from_native(d.from))
        BY <1>1, <3>1, FromIsNative, FromNative
      <3>3. DOMAIN addr' = Ends /\ \A f \in Ends : IsAddress(addr'[f])
        BY <2>2, <3>2, AddressKeeps
      <3>4. QED
        BY <2>2, <3>1, <3>3, ReceivedKeeps DEF Exchanging
    <2>3. QED
      BY <1>8, <2>1, <2>2 DEF receive_from
  <1>9. ASSUME NEW e \in Ends, Resolve(e)
        PROVE  Exchanging'
    <2>1. CASE UNCHANGED addr
      BY <1>1, <1>9, <2>1 DEF Resolve, Exchanging
    <2>2. ASSUME NEW found \in Answers, NEW i \in DOMAIN found,
                 addr' = [addr EXCEPT ![e] = get_addresses(found).addresses[i]]
          PROVE  DOMAIN addr' = Ends /\ \A f \in Ends : IsAddress(addr'[f])
      <3>1. get_addresses(found).addresses[i] = from_native(found[i])
        BY DEF get_addresses
      <3>2. IsAddress(from_native(found[i]))
        BY DatagramAssumption, FromNative
      <3>3. QED
        BY <2>2, <3>1, <3>2, AddressKeeps
    <2>3. CASE ~UNCHANGED addr
      <3>1. DOMAIN addr' = Ends /\ \A f \in Ends : IsAddress(addr'[f])
        BY <1>9, <2>2, <2>3 DEF Resolve
      <3>2. QED
        BY <1>1, <1>9, <3>1 DEF Resolve, Exchanging
    <2>4. QED
      BY <2>1, <2>3
  <1>10. ASSUME NEW e \in Ends, GetName(e)
         PROVE  Exchanging'
    <2> DEFINE a == get_name(addr[e], HostName)
    <2>1. addr' = [addr EXCEPT ![e] = a]
      BY <1>10 DEF GetName
    <2>2. IsAddress(a)
      <3> DEFINE port   == addr[e].port
                 family == addr[e].family
                 text   == addr[e].address
      <3>1. addr[e] = [address |-> text, port |-> port, family |-> family]
            /\ port \in Ports
        BY <1>1 DEF IsAddress
      <3> HIDE DEF port, family, text
      <3>2. a = [address |-> HostName, port |-> port, family |-> family]
        BY <3>1 DEF get_name
      <3> HIDE DEF a
      <3>3. QED
        BY <3>1, <3>2 DEF IsAddress
    <2> HIDE DEF a
    <2>3. DOMAIN addr' = Ends /\ \A f \in Ends : IsAddress(addr'[f])
      BY <2>1, <2>2, AddressKeeps
    <2>4. QED
      BY <1>1, <1>10, <2>3 DEF GetName, Exchanging
  <1>11. ASSUME Lose
         PROVE  Exchanging'
    BY <1>1, <1>11 DEF Lose, Exchanging
  <1>12. ASSUME Forge
         PROVE  Exchanging'
    <2>1. PICK f \in Forged, e \in Ends :
            net' = net \cup {[from |-> f.from, to |-> At[e], bytes |-> f.bytes]}
      BY <1>12 DEF Forge
    <2>2. Underway([from |-> f.from, to |-> At[e], bytes |-> f.bytes])
      BY DEF Underway
    <2>3. \A d \in net' : Underway(d)
      BY <1>1, <2>1, <2>2
    <2>4. QED
      BY <1>1, <1>12, <2>3 DEF Forge, Exchanging
  <1>13. QED
    BY <1>3, <1>4, <1>5, <1>7, <1>8, <1>9, <1>10, <1>11, <1>12 DEF Next, Sends

\* The invariant holds in every state.
LEMMA AlwaysExchanging == Spec => []Exchanging
PROOF
  <1>1. Exchanging /\ [Next]_vars => Exchanging'
    <2>1. Exchanging /\ UNCHANGED vars => Exchanging'
      BY DEF vars, Exchanging
    <2>2. QED
      BY <2>1, StepKeeps
  <1>2. QED
    BY <1>1, InitExchanging, PTL DEF Spec

\* TypeOK: every end has a packet whose cursors and header are right, whatever
\* it received over it; addresses have ports that fit; what is under way goes
\* to an end.
THEOREM DatagramTypes == Spec => []TypeOK
PROOF
  <1>1. Exchanging => TypeOK
    <2> SUFFICES ASSUME Exchanging PROVE TypeOK
      OBVIOUS
    <2>1. ASSUME NEW e \in Ends
          PROVE  /\ verify_size(pkt[e]) /\ pkt[e].read_pos = HeaderSize
                 /\ pkt[e].write_pos = real_size(pkt[e])
      <3>1. IsMessage(pkt[e])
        BY DEF Exchanging
      <3>2. QED
        BY <3>1 DEF IsMessage, verify_size, real_size, work_size, HasData
    <2>2. \A e \in Ends : addr[e].port \in Ports
      BY DEF Exchanging, IsAddress
    <2>3. \A d \in net : d.bytes \in Seq(Byte) /\ \E e \in Ends : d.to = At[e]
      <3>1. \A d \in net : Underway(d)
        BY DEF Exchanging
      <3>2. \A d \in net : d.bytes \in Seq(Byte)
        BY <3>1, UnderwaySized
      <3>3. QED
        BY <3>1, <3>2 DEF Underway
    <2>4. QED
      BY <2>1, <2>2, <2>3 DEF Exchanging, TypeOK, LastErrors
  <1>2. QED
    BY <1>1, AlwaysExchanging, PTL

-----------------------------------------------------------------------------
(* Results.                                                                *)

\* Which errors stand for done.
LEMMA FailuresNotDone ==
  /\ \A error \in ReceiveErrors : to_state(error) # "done"
  /\ \A to, bytes : \A error \in SendErrors(to, bytes) : to_state(error) # "done"
PROOF
  <1>1. \A error \in {"would_block", "connection_reset", "message_too_large",
                      "network_unreachable"} : to_state(error) # "done"
    BY DEF to_state, ProgressErrors, ClosedErrors, DoneErrors
  <1>2. QED
    BY <1>1 DEF ReceiveErrors, SendErrors

\* A call tells the truth.
LEMMA CallsTruthful ==
  ASSUME NEW e \in Ends, Sends(e) \/ receive(e) \/ receive_from(e),
         err \in [Ends -> LastErrors]
  PROVE  Truthful' /\ StaleOnly
PROOF
  <1>1. ASSUME NEW op, NEW state, NEW fate, Answered(op, e, state, fate),
               state = "done" => fate \in {"moved", "empty", "void"},
               fate = "empty" => state = "done",
               fate = "moved" => state = "done"
        PROVE  Truthful' /\ StaleOnly
    BY <1>1 DEF Answered, Truthful, StaleOnly
  <1>2. ASSUME NEW q, send(e, q) PROVE Truthful' /\ StaleOnly
    <2>1. CASE \E error \in AfterSuccess(err[e]) :
                 /\ err' = [err EXCEPT ![e] = error]
                 /\ Answered("send", e, to_state(error), "moved")
      <3>1. PICK error \in AfterSuccess(err[e]) :
              /\ err' = [err EXCEPT ![e] = error]
              /\ Answered("send", e, to_state(error), "moved")
        BY <2>1
      <3>2. err'[e] = error /\ (error = "none" \/ error = err[e])
        BY <3>1 DEF AfterSuccess
      <3>3. to_state("none") = "done"
        BY DEF to_state, ProgressErrors, ClosedErrors, DoneErrors
      <3>4. /\ last'.op = "send" /\ last'.end = e /\ last'.fate = "moved"
            /\ last'.state = to_state(error)
        BY <3>1 DEF Answered
      <3>5. CASE error = "none"
        BY <3>3, <3>4, <3>5 DEF Truthful, StaleOnly
      <3>6. CASE error # "none"
        BY <3>2, <3>4, <3>6 DEF Truthful, StaleOnly
      <3>7. QED
        BY <3>5, <3>6
    <2>2. CASE \E error \in SendErrors(At[Peer[e]], Flat(q)) :
                 Answered("send", e, to_state(error), "none")
      BY <1>1, <2>2, FailuresNotDone
    <2>3. QED
      BY <1>2, <2>1, <2>2 DEF send
  <1>3. ASSUME NEW q, send_to(e, q, addr[e]) PROVE Truthful' /\ StaleOnly
    BY <1>1, <1>3, FailuresNotDone DEF send_to
  <1>4. ASSUME NEW q, SendEmpty(e, q) PROVE Truthful' /\ StaleOnly
    BY <1>1, <1>4 DEF SendEmpty
  <1>5. ASSUME NEW op, Unreceived(op, e) PROVE Truthful' /\ StaleOnly
    BY <1>1, <1>5, FailuresNotDone DEF Unreceived
  <1>6. ASSUME NEW op, NEW d, Received(op, e, d) PROVE Truthful' /\ StaleOnly
    BY <1>1, <1>6 DEF Received, receive_datagram_packet
  <1>7. QED
    BY <1>2, <1>3, <1>4, <1>5, <1>6 DEF Sends, receive, receive_from

\* ResultsTrue: done means that the stack has the packet or that one was
\* received, an empty packet and an empty datagram apart; any other result
\* means that nothing happened, unless a connected send found the error of an
\* earlier call.
THEOREM DatagramResults == Spec => ResultsTrue
PROOF
  <1>1. Init => Truthful
    BY DEF Init, Truthful
  <1>2. Exchanging /\ Truthful /\ [Next]_vars => Truthful' /\ [StaleOnly]_vars
    <2> SUFFICES ASSUME Exchanging, Truthful, [Next]_vars
                 PROVE  Truthful' /\ [StaleOnly]_vars
      OBVIOUS
    <2>1. ASSUME UNCHANGED <<last, err>> PROVE Truthful' /\ StaleOnly
      BY <2>1 DEF Truthful, StaleOnly
    <2>2. ASSUME NEW e \in Ends, Sends(e) \/ receive(e) \/ receive_from(e)
          PROVE  Truthful' /\ StaleOnly
      BY <2>2, CallsTruthful DEF Exchanging
    <2>3. QED
      BY <2>1, <2>2 DEF Next, Resolve, GetName, Lose, Forge, vars
  <1>3. Spec => []Exchanging
    BY AlwaysExchanging
  <1>4. Spec => []Truthful
    BY <1>1, <1>2, <1>3, PTL DEF Spec
  <1>5. Exchanging /\ Truthful /\ [Next]_vars => [Truthful' /\ StaleOnly]_vars
    BY <1>2
  <1>6. Spec => [][Truthful' /\ StaleOnly]_vars
    BY <1>3, <1>4, <1>5, PTL DEF Spec
  <1>7. QED
    BY <1>6 DEF ResultsTrue

-----------------------------------------------------------------------------
(* What the sockets promise.                                               *)

Promised == Service!Serve \/ UNCHANGED Service!dvars

\* What a datagram that is a packet adds to what is under way.
LEMMA MessagesGrow ==
  ASSUME NEW ds, NEW d
  PROVE  /\ (\E body \in Bodies : IsPacket(d.bytes, body)) =>
              Messages(ds \cup {d}) = Messages(ds) \cup {Message(d)}
         /\ ~(\E body \in Bodies : IsPacket(d.bytes, body)) =>
              Messages(ds \cup {d}) = Messages(ds)
PROOF
  <1>1. ASSUME \E body \in Bodies : IsPacket(d.bytes, body)
        PROVE  Messages(ds \cup {d}) = Messages(ds) \cup {Message(d)}
    <2>1. Carriers(ds \cup {d}) = Carriers(ds) \cup {d}
      BY <1>1 DEF Carriers
    <2>2. QED
      BY <2>1 DEF Messages
  <1>2. ASSUME ~(\E body \in Bodies : IsPacket(d.bytes, body))
        PROVE  Messages(ds \cup {d}) = Messages(ds)
    <2>1. Carriers(ds \cup {d}) = Carriers(ds)
      BY <1>2 DEF Carriers
    <2>2. QED
      BY <2>1 DEF Messages
  <1>3. QED
    BY <1>1, <1>2

\* What is gone with a datagram: its message at most, if no other carries that.
LEMMA MessagesShrink ==
  ASSUME NEW ds, NEW d \in ds
  PROVE  /\ Messages(ds \ {d}) \in {Messages(ds), Messages(ds) \ {Message(d)}}
         /\ ~(\E body \in Bodies : IsPacket(d.bytes, body)) =>
              Messages(ds \ {d}) = Messages(ds)
         /\ Messages(ds \ {d}) # Messages(ds) => Message(d) \in Messages(ds)
PROOF
  <1>1. Carriers(ds \ {d}) = Carriers(ds) \ {d}
    BY DEF Carriers
  <1>2. CASE d \notin Carriers(ds)
    <2>1. Messages(ds \ {d}) = Messages(ds)
      BY <1>1, <1>2 DEF Messages
    <2>2. QED
      BY <2>1
  <1>3. CASE d \in Carriers(ds)
    <2>1. \E body \in Bodies : IsPacket(d.bytes, body)
      BY <1>3 DEF Carriers
    <2>2. Message(d) \in Messages(ds)
      BY <1>3 DEF Messages
    <2>3. Messages(ds) = Messages(ds \ {d}) \cup {Message(d)}
      BY <1>1, <1>3 DEF Messages
    <2>4. QED
      BY <2>1, <2>2, <2>3
  <1>4. QED
    BY <1>2, <1>3

\* Another address for an end changes whom it names.
LEMMA HeardChanges ==
  ASSUME Exchanging, NEW e \in Ends, ~Connected(e), NEW a,
         addr' = [addr EXCEPT ![e] = a]
  PROVE  Heard' = [Heard EXCEPT ![e] = Named(a)]
PROOF
  <1>1. \A f \in Ends : addr'[f] = IF f = e THEN a ELSE addr[f]
    BY DEF Exchanging
  <1>2. Heard' = [f \in Ends |-> IF Connected(f) THEN Peer[f] ELSE Named(addr'[f])]
    BY DEF Heard
  <1> DEFINE h == [f \in Ends |-> IF Connected(f) THEN Peer[f] ELSE Named(addr[f])]
  <1>3. Heard = h
    BY DEF Heard
  <1>4. [h EXCEPT ![e] = Named(a)]
          = [f \in Ends |-> IF f = e THEN Named(a) ELSE h[f]]
    OBVIOUS
  <1>5. \A f \in Ends : (IF Connected(f) THEN Peer[f] ELSE Named(addr'[f]))
                          = IF f = e THEN Named(a) ELSE h[f]
    BY <1>1
  <1>6. Heard' = [f \in Ends |-> IF f = e THEN Named(a) ELSE h[f]]
    BY <1>2, <1>5, Zenon
  <1>7. QED
    BY <1>3, <1>4, <1>6, Zenon

\* Whom an address names is an end or nobody.
LEMMA NamedType ==
  ASSUME NEW a
  PROVE  Named(a) \in Ends \cup {NoPeer}
BY WhoType DEF Named

\* A packet over the one of an end is another payload there.
LEMMA HeldChanges ==
  ASSUME Exchanging, NEW e \in Ends, NEW q, pkt' = [pkt EXCEPT ![e] = q]
  PROVE  Held' = [Held EXCEPT ![e] = q.body]
PROOF
  <1>1. \A f \in Ends : pkt'[f] = IF f = e THEN q ELSE pkt[f]
    BY DEF Exchanging
  <1>2. Held' = [f \in Ends |-> pkt'[f].body] /\ Held = [f \in Ends |-> pkt[f].body]
    BY DEF Held
  <1>3. QED
    BY <1>1, <1>2

\* A packet that the stack takes is posted to whom it names.
LEMMA TransmitPosts ==
  ASSUME Exchanging, NEW e \in Ends, NEW p \in Outgoing(e), NEW to,
         Transmit(At[e], to, Flat(p)), Who(to) = Heard[e], UNCHANGED <<pkt, addr>>
  PROVE  Promised
PROOF
  <1> DEFINE new == [from |-> At[e], to |-> to, bytes |-> Flat(p)]
  <1>1. UNCHANGED <<Held, Heard>>
    BY DEF Held, Heard
  <1>2. CASE net' = net
    BY <1>1, <1>2 DEF Promised, Service!dvars, Transit
  <1>3. CASE net' = net \cup {new}
    <2>1. p.body \in Bodies /\ IsPacket(Flat(p), p.body) /\ Behind(Flat(p)) = p.body
      BY OutgoingIsMessage
    <2>2. new.bytes = Flat(p) /\ new.from = At[e] /\ new.to = to
      OBVIOUS
    <2> HIDE DEF new
    <2>3. Transit' = Transit \cup {Message(new)}
      BY <1>3, <2>1, <2>2, MessagesGrow DEF Transit
    <2>4. Message(new) = [from |-> e, to |-> Heard[e], body |-> p.body]
      BY <2>1, <2>2, WhoIs DEF Message
    <2>5. Service!Post(e, p.body)
      BY <1>1, <2>3, <2>4 DEF Service!Post
    <2>6. QED
      BY <2>1, <2>5 DEF Promised, Service!Serve
  <1>4. QED
    BY <1>2, <1>3 DEF Transmit

\* A packet that is received was under way to the end, and is what it holds.
LEMMA ReceivedTakes ==
  ASSUME Exchanging, NEW e \in Ends, NEW d \in Arriving(e), NEW op,
         Received(op, e, d), SizeRight(d.bytes),
         Heard' = [Heard EXCEPT ![e] = Who(d.from)]
  PROVE  Promised
PROOF
  <1>1. d \in net /\ d.to = At[e] /\ Underway(d)
    BY DEF Arriving, Exchanging
  <1>2. Behind(d.bytes) \in Bodies /\ IsPacket(d.bytes, Behind(d.bytes))
    BY <1>1, UnderwaySized
  <1>3. Message(d) = [from |-> Who(d.from), to |-> e, body |-> Behind(d.bytes)]
    BY <1>1, WhoIs DEF Message
  <1>4. Message(d) \in Transit
    <2>1. d \in Carriers(net)
      BY <1>1, <1>2 DEF Carriers
    <2>2. QED
      BY <2>1 DEF Transit, Messages
  <1>5. d.bytes # << >>
    <2>1. Len(d.bytes) >= 2
      BY DEF SizeRight, HeaderSize
    <2>2. SUFFICES ASSUME d.bytes = << >> PROVE FALSE
      OBVIOUS
    <2>3. Len(d.bytes) = 0
      BY <2>2
    <2>4. QED
      BY <2>1, <2>3
  <1> DEFINE q == Copied(pkt[e], d.bytes)
  <1>6. pkt' = [pkt EXCEPT ![e] = q]
    BY <1>5 DEF Received, receive_datagram_packet
  <1>7. q.body = Behind(d.bytes)
    <2>1. Sound(pkt[e])
      BY DEF Exchanging, IsMessage
    <2>2. QED
      BY <1>2, <2>1, CopiedIsMessage
  <1>8. Held' = [Held EXCEPT ![e] = Behind(d.bytes)]
    <2> HIDE DEF q
    <2>1. QED
      BY <1>6, <1>7, HeldChanges
  <1>9. Transit' \in {Transit, Transit \ {Message(d)}}
    <2>1. net' = net \/ net' = net \ {d}
      BY DEF Received
    <2>2. QED
      BY <1>1, <2>1, MessagesShrink DEF Transit
  <1>10. Service!Take(Message(d)) /\ Message(d).to \in Ends
    <2>1. Message(d).to = e /\ Message(d).from = Who(d.from)
          /\ Message(d).body = Behind(d.bytes)
      BY <1>3
    <2>2. QED
      BY <1>8, <1>9, <2>1 DEF Service!Take
  <1>11. QED
    BY <1>4, <1>10 DEF Promised, Service!Serve

\* What is not a packet teaches an end nothing but that somebody sent it.
LEMMA NoiseIsNoise ==
  ASSUME Exchanging, NEW e \in Ends, ~Connected(e), NEW d \in Arriving(e), NEW op,
         Received(op, e, d), ~SizeRight(d.bytes),
         addr' = [addr EXCEPT ![e] = from_native(d.from)]
  PROVE  Promised
PROOF
  <1>1. d \in net /\ Underway(d)
    BY DEF Arriving, Exchanging
  <1>2. ~(\E body \in Bodies : IsPacket(d.bytes, body))
    BY <1>1, UnderwaySized
  <1>3. PICK f \in Forged : d.from = f.from
    BY <1>1, <1>2 DEF Underway
  <1>4. Named(from_native(d.from)) = NoPeer
    BY <1>3, ReplyGoesBack
  <1>5. Heard' = [Heard EXCEPT ![e] = NoPeer]
    <2>1. Heard' = [Heard EXCEPT ![e] = Named(from_native(d.from))]
      BY HeardChanges
    <2>2. QED
      BY <1>4, <2>1
  <1>6. pkt' = pkt
    BY DEF Received, receive_datagram_packet
  <1>7. Held' = Held
    BY <1>6 DEF Held
  <1>8. Transit' = Transit
    <2>1. net' = net \/ net' = net \ {d}
      BY DEF Received
    <2>2. d \in net /\ ~(\E body \in Bodies : IsPacket(d.bytes, body))
      BY <1>1, <1>2
    <2>3. Messages(net \ {d}) = Messages(net)
      BY <2>2, MessagesShrink
    <2>4. QED
      BY <2>1, <2>3 DEF Transit
  <1>9. Service!Noise(e)
    BY <1>5, <1>7, <1>8 DEF Service!Noise
  <1>10. QED
    BY <1>9 DEF Promised, Service!Serve

\* An end that gets another address turns to somebody, or to nobody.
LEMMA TurnsTo ==
  ASSUME Exchanging, NEW e \in Ends, ~Connected(e), NEW a,
         addr' = [addr EXCEPT ![e] = a], UNCHANGED <<net, pkt>>
  PROVE  Promised
PROOF
  <1>1. Heard' = [Heard EXCEPT ![e] = Named(a)]
    BY HeardChanges
  <1>2. UNCHANGED <<Transit, Held>>
    BY DEF Transit, Held
  <1>3. CASE Named(a) \in Ends
    <2>1. Service!Turn(e, Named(a))
      BY <1>1, <1>2 DEF Service!Turn
    <2>2. QED
      BY <1>3, <2>1 DEF Promised, Service!Serve
  <1>4. CASE Named(a) = NoPeer
    <2>1. Service!Noise(e)
      BY <1>1, <1>2, <1>4 DEF Service!Noise
    <2>2. QED
      BY <2>1 DEF Promised, Service!Serve
  <1>5. QED
    BY <1>3, <1>4, NamedType

\* What changes nothing that the service speaks of.
LEMMA Stutters ==
  ASSUME UNCHANGED <<net, pkt, addr>>
  PROVE  Promised
PROOF
  <1>1. UNCHANGED <<Transit, Held, Heard>>
    BY DEF Transit, Held, Heard
  <1>2. QED
    BY <1>1 DEF Promised, Service!dvars

\* Every step is one of the service, or none.
LEMMA StepServes ==
  ASSUME Exchanging, Next
  PROVE  Promised
PROOF
  <1>1. ASSUME NEW e \in Ends, NEW p \in Outgoing(e), send(e, p)
        PROVE  Promised
    <2>1. Peer[e] \in Ends /\ Who(At[Peer[e]]) = Peer[e] /\ Heard[e] = Peer[e]
      <3>1. Connected(e)
        BY <1>1 DEF send
      <3>2. Peer[e] \in Ends
        BY <3>1, DatagramAssumption DEF Connected
      <3>3. QED
        BY <3>1, <3>2, WhoIs DEF Heard
    <2>2. CASE Transmit(At[e], At[Peer[e]], Flat(p))
      <3>1. UNCHANGED <<pkt, addr>>
        BY <1>1 DEF send
      <3>2. QED
        BY <2>1, <2>2, <3>1, TransmitPosts
    <2>3. CASE UNCHANGED net
      BY <1>1, <2>3, Stutters DEF send
    <2>4. QED
      BY <1>1, <2>2, <2>3 DEF send
  <1>2. ASSUME NEW e \in Ends, NEW p \in Outgoing(e), send_to(e, p, addr[e])
        PROVE  Promised
    <2>1. CASE Translatable(addr[e])
               /\ Transmit(At[e], to_native(addr[e]), Flat(p))
      <3>1. Who(to_native(addr[e])) = Heard[e]
        BY <1>2, <2>1 DEF send_to, Heard, Named
      <3>2. UNCHANGED <<pkt, addr>>
        BY <1>2 DEF send_to
      <3>3. QED
        BY <2>1, <3>1, <3>2, TransmitPosts
    <2>2. CASE UNCHANGED net
      BY <1>2, <2>2, Stutters DEF send_to
    <2>3. QED
      BY <1>2, <2>1, <2>2 DEF send_to
  <1>3. ASSUME NEW e \in Ends, NEW p, SendEmpty(e, p)
        PROVE  Promised
    BY <1>3, Stutters DEF SendEmpty
  <1>4. ASSUME NEW e \in Ends, NEW op, Unreceived(op, e)
        PROVE  Promised
    BY <1>4, Stutters DEF Unreceived
  <1>5. ASSUME NEW e \in Ends, receive(e)
        PROVE  Promised
    <2>1. ASSUME NEW d \in Arriving(e), Received("receive", e, d), UNCHANGED addr
          PROVE  Promised
      <3>1. Connected(e) /\ Peer[e] \in Ends
        BY <1>5, DatagramAssumption DEF receive, Connected
      <3>2. d \in net /\ Underway(d) /\ d.from = At[Peer[e]]
        BY <3>1 DEF Arriving, Exchanging
      <3>3. SizeRight(d.bytes)
        BY <3>1, <3>2, UnderwaySized
      <3>4. Heard' = Heard /\ Heard[e] = Peer[e]
        BY <2>1, <3>1 DEF Heard
      <3>5. Who(d.from) = Peer[e]
        BY <3>1, <3>2, WhoIs
      <3>6. Heard = [f \in Ends |-> Heard[f]]
        BY DEF Heard
      <3>7. [Heard EXCEPT ![e] = Heard[e]] = Heard
        BY <3>6
      <3>8. Heard' = [Heard EXCEPT ![e] = Who(d.from)]
        BY <3>4, <3>5, <3>7
      <3>9. QED
        BY <2>1, <3>3, <3>8, ReceivedTakes
    <2>2. QED
      BY <1>4, <1>5, <2>1 DEF receive
  <1>6. ASSUME NEW e \in Ends, receive_from(e)
        PROVE  Promised
    <2>1. ASSUME NEW d \in Arriving(e), Received("receive_from", e, d),
                 addr' = [addr EXCEPT ![e] = from_native(d.from)]
          PROVE  Promised
      <3>1. ~Connected(e)
        BY <1>6 DEF receive_from
      <3>2. CASE ~SizeRight(d.bytes)
        BY <2>1, <3>1, <3>2, NoiseIsNoise
      <3>3. CASE SizeRight(d.bytes)
        <4>1. Underway(d)
          BY DEF Arriving, Exchanging
        <4>2. Named(from_native(d.from)) = Who(d.from)
          BY <4>1, ReplyGoesBack, WhoIs DEF Underway
        <4>3. Heard' = [Heard EXCEPT ![e] = Named(from_native(d.from))]
          BY <2>1, <3>1, HeardChanges
        <4>4. QED
          BY <2>1, <3>3, <4>2, <4>3, ReceivedTakes
      <3>4. QED
        BY <3>2, <3>3
    <2>2. QED
      BY <1>4, <1>6, <2>1 DEF receive_from
  <1>7. ASSUME NEW e \in Ends, Resolve(e)
        PROVE  Promised
    <2>1. CASE UNCHANGED addr
      BY <1>7, <2>1, Stutters DEF Resolve
    <2>2. CASE ~UNCHANGED addr
      <3>1. PICK a : addr' = [addr EXCEPT ![e] = a]
        BY <1>7, <2>2 DEF Resolve
      <3>2. ~Connected(e) /\ UNCHANGED <<net, pkt>>
        BY <1>7 DEF Resolve
      <3>3. QED
        BY <3>1, <3>2, TurnsTo
    <2>3. QED
      BY <2>1, <2>2
  <1>8. ASSUME NEW e \in Ends, GetName(e)
        PROVE  Promised
    <2> DEFINE a == get_name(addr[e], HostName)
    <2>1. ~Connected(e) /\ UNCHANGED <<net, pkt>> /\ addr' = [addr EXCEPT ![e] = a]
      BY <1>8 DEF GetName
    <2> HIDE DEF a
    <2>2. QED
      BY <2>1, TurnsTo
  <1>9. ASSUME Lose
        PROVE  Promised
    <2>1. PICK d \in net : net' = net \ {d} /\ UNCHANGED <<pkt, addr>>
      BY <1>9 DEF Lose
    <2>2. UNCHANGED <<Held, Heard>>
      BY <2>1 DEF Held, Heard
    <2>3. CASE Transit' = Transit
      BY <2>2, <2>3 DEF Promised, Service!dvars
    <2>4. CASE Transit' # Transit
      <3>1. Transit' = Transit \ {Message(d)} /\ Message(d) \in Transit
        BY <2>1, <2>4, MessagesShrink DEF Transit
      <3>2. Service!Lose(Message(d))
        BY <2>2, <3>1 DEF Service!Lose
      <3>3. QED
        BY <3>1, <3>2 DEF Promised, Service!Serve
    <2>5. QED
      BY <2>3, <2>4
  <1>10. ASSUME Forge
         PROVE  Promised
    <2>1. PICK f \in Forged, e \in Ends :
            net' = net \cup {[from |-> f.from, to |-> At[e], bytes |-> f.bytes]}
      BY <1>10 DEF Forge
    <2> DEFINE d == [from |-> f.from, to |-> At[e], bytes |-> f.bytes]
    <2>2. UNCHANGED <<Held, Heard>>
      BY <1>10 DEF Forge, Held, Heard
    <2>3. d.from = f.from /\ d.to = At[e] /\ d.bytes = f.bytes
      OBVIOUS
    <2>4. Underway(d)
      BY DEF Underway
    <2> HIDE DEF d
    <2>5. net' = net \cup {d}
      BY <2>1 DEF d
    <2>6. CASE \E body \in Bodies : IsPacket(d.bytes, body)
      <3>1. Behind(d.bytes) \in Bodies
        BY <2>4, <2>6, UnderwaySized
      <3>2. Transit' = Transit \cup {Message(d)}
        BY <2>5, <2>6, MessagesGrow DEF Transit
      <3>3. Message(d) = [from |-> NoPeer, to |-> e, body |-> Behind(d.bytes)]
        BY <2>3, WhoIs DEF Message
      <3>4. Service!PostOutside(e, Behind(d.bytes))
        BY <2>2, <3>2, <3>3 DEF Service!PostOutside
      <3>5. QED
        BY <3>1, <3>4 DEF Promised, Service!Serve
    <2>7. CASE ~(\E body \in Bodies : IsPacket(d.bytes, body))
      <3>1. Transit' = Transit
        BY <2>5, <2>7, MessagesGrow DEF Transit
      <3>2. QED
        BY <2>2, <3>1 DEF Promised, Service!dvars
    <2>8. QED
      BY <2>6, <2>7
  <1>11. QED
    BY <1>1, <1>2, <1>3, <1>5, <1>6, <1>7, <1>8, <1>9, <1>10 DEF Next, Sends

\* IsDatagramService: what a program receives was posted to it, whole, by the
\* end that the address it gets names, and a reply to that address goes back
\* there; a datagram that is not a packet, an exception or a failure leaves the
\* packet that the program has.
THEOREM DatagramsAreServed == Spec => IsDatagramService
PROOF
  <1>1. Init => Service!Nothing
    <2> SUFFICES ASSUME Init PROVE Service!Nothing
      OBVIOUS
    <2>1. Transit = {}
      BY DEF Init, Transit, Messages, Carriers
    <2>2. Held = [e \in Ends |-> << >>]
      BY DEF Init, Held, NewPacket
    <2>3. QED
      BY <2>1, <2>2 DEF Service!Nothing
  <1>2. Exchanging /\ [Next]_vars => Promised
    <2>1. UNCHANGED vars => Promised
      BY Stutters DEF vars
    <2>2. QED
      BY <2>1, StepServes
  <1>3. Promised => [Service!Serve]_(Service!dvars)
    BY DEF Promised
  <1>4. Spec => Service!Nothing /\ [][Service!Serve]_(Service!dvars)
    BY <1>1, <1>2, <1>3, AlwaysExchanging, PTL DEF Spec
  <1>5. QED
    BY <1>4 DEF IsDatagramService, Service!ServiceSpec

-----------------------------------------------------------------------------
(* The decimal form of a port.                                             *)

\* The ten digits are ten characters, and none of them has a meaning of its own
\* in the text of an address.
LEMMA DigitsDiffer ==
  /\ \A i, j \in 1 .. 10 : Numerals[i] = Numerals[j] => i = j
  /\ \A i \in 1 .. 10 : Numerals[i] \in Decimals
  /\ ":" \notin Hexes /\ "." \notin Hexes /\ "[" \notin Hexes
  /\ Decimals \subseteq Hexes
PROOF
  <1>1. \A i, j \in 1 .. 10 : Numerals[i] = Numerals[j] => i = j
    BY DEF Numerals
  <1>2. Decimals = {"0", "1", "2", "3", "4", "5", "6", "7", "8", "9"}
    BY DEF Decimals, Numerals
  <1>3. QED
    BY <1>1, <1>2 DEF Hexes, Decimals

\* A port takes one digit to five.
LEMMA PortWidth ==
  ASSUME NEW n \in Ports
  PROVE  /\ n \in Nat /\ n < 65536 /\ Width(n) \in 1 .. 5
         /\ n < 10 * Tens[Width(n)]
PROOF
  <1>1. n \in Nat /\ n < 65536
    <2> DEFINE R == PortRadix
    <2>1. R \in Nat /\ R <= 256 /\ n \in Nat /\ n <= R * R - 1
      BY AddressAssumption DEF Ports
    <2> HIDE DEF R
    <2>2. R * R <= 256 * R /\ R * R \in Nat
      BY <2>1
    <2>3. QED
      BY <2>1, <2>2
  <1>2. \E w \in 1 .. 5 : n < 10 * Tens[w] /\ (w = 1 \/ n >= Tens[w])
    <2>1. Tens[1] = 1 /\ Tens[2] = 10 /\ Tens[3] = 100 /\ Tens[4] = 1000
          /\ Tens[5] = 10000
      BY DEF Tens
    <2> DEFINE Fits(w) == n < 10 * Tens[w] /\ (w = 1 \/ n >= Tens[w])
    <2>2. (n < 10 => Fits(1)) /\ (n >= 10 /\ n < 100 => Fits(2))
      BY <1>1, <2>1
    <2>3. (n >= 100 /\ n < 1000 => Fits(3)) /\ (n >= 1000 /\ n < 10000 => Fits(4))
      BY <1>1, <2>1
    <2>4. n >= 10000 => Fits(5)
      BY <1>1, <2>1
    <2> HIDE DEF Fits
    <2>5. Fits(1) \/ Fits(2) \/ Fits(3) \/ Fits(4) \/ Fits(5)
      BY <1>1, <2>2, <2>3, <2>4
    <2>6. \E w \in 1 .. 5 : Fits(w)
      BY <2>5
    <2>7. QED
      BY <2>6 DEF Fits
  <1>3. QED
    BY <1>1, <1>2 DEF Width

\* The decimal form of a port is some digits.
LEMMA DecimalDigits ==
  ASSUME NEW n \in Ports
  PROVE  Decimal(n) \in Seq(Decimals) /\ Len(Decimal(n)) = Width(n)
PROOF
  <1> DEFINE w == Width(n)
  <1>1. w \in 1 .. 5 /\ n \in Nat
    BY PortWidth
  <1>2. \A i \in 1 .. w : Numerals[((n \div Tens[w + 1 - i]) % 10) + 1] \in Decimals
    <2> TAKE i \in 1 .. w
    <2> DEFINE t == Tens[w + 1 - i]
    <2>1. t \in Nat /\ t > 0
      BY <1>1 DEF Tens
    <2> HIDE DEF t
    <2>2. (n \div t) \in Nat
      BY <1>1, <2>1
    <2>3. ((n \div t) % 10) + 1 \in 1 .. 10
      BY <2>2
    <2> DEFINE k == ((n \div t) % 10) + 1
    <2>4. Numerals[k] \in Decimals
      BY <2>3, DigitsDiffer
    <2>5. QED
      BY <2>4 DEF t
  <1>3. Decimal(n) = [i \in 1 .. w |-> Numerals[((n \div Tens[w + 1 - i]) % 10) + 1]]
    BY DEF Decimal
  <1> HIDE DEF w
  <1>4. Decimal(n) \in Seq(Decimals) /\ Len(Decimal(n)) = w
    BY <1>1, <1>2, <1>3
  <1>5. QED
    BY <1>4 DEF w

\* A digit of a port, from the last one.
Digit(n, k) == (n \div Tens[k]) % 10

\* Two ports with the same digits are the same.
LEMMA SameDigits ==
  ASSUME NEW n \in Nat, NEW m \in Nat, NEW w \in 1 .. 5,
         n < 10 * Tens[w], m < 10 * Tens[w],
         \A k \in 1 .. w : Digit(n, k) = Digit(m, k)
  PROVE  n = m
PROOF
  <1>1. /\ Digit(n, 1) = n % 10             /\ Digit(m, 1) = m % 10
        /\ Digit(n, 2) = (n \div 10) % 10   /\ Digit(m, 2) = (m \div 10) % 10
        /\ Digit(n, 3) = (n \div 100) % 10  /\ Digit(m, 3) = (m \div 100) % 10
        /\ Digit(n, 4) = (n \div 1000) % 10 /\ Digit(m, 4) = (m \div 1000) % 10
        /\ Digit(n, 5) = (n \div 10000) % 10
        /\ Digit(m, 5) = (m \div 10000) % 10
    BY DEF Digit, Tens
  <1>2. CASE w = 1
    BY <1>1, <1>2 DEF Tens
  <1>3. CASE w = 2
    BY <1>1, <1>3 DEF Tens
  <1>4. CASE w = 3
    BY <1>1, <1>4 DEF Tens
  <1>5. CASE w = 4
    BY <1>1, <1>5 DEF Tens
  <1>6. CASE w = 5
    BY <1>1, <1>6 DEF Tens
  <1>7. QED
    BY <1>2, <1>3, <1>4, <1>5, <1>6

\* Ports are told apart by their decimal forms.
LEMMA DecimalInjective ==
  ASSUME NEW n \in Ports, NEW m \in Ports, Decimal(n) = Decimal(m)
  PROVE  n = m
PROOF
  <1> DEFINE w == Width(n)
  <1>1. w = Width(m)
    BY DecimalDigits
  <1>2. /\ w \in 1 .. 5 /\ n \in Nat /\ m \in Nat
        /\ n < 10 * Tens[w] /\ m < 10 * Tens[w]
    BY <1>1, PortWidth
  <1>3. ASSUME NEW k \in 1 .. w PROVE Digit(n, k) = Digit(m, k)
    <2> DEFINE i == w + 1 - k
    <2>1. i \in 1 .. w /\ w + 1 - i = k
      BY <1>2
    <2> HIDE DEF i
    <2>2. Decimal(n)[i] = Numerals[Digit(n, k) + 1]
      BY <2>1 DEF Decimal, Digit
    <2>3. Decimal(m)[i] = Numerals[Digit(m, k) + 1]
      BY <1>1, <2>1 DEF Decimal, Digit
    <2>4. ASSUME NEW p \in Nat PROVE Digit(p, k) \in 0 .. 9
      <3> DEFINE t == Tens[k]
      <3>1. t \in Nat /\ t > 0
        BY <1>2 DEF Tens
      <3> HIDE DEF t
      <3>2. (p \div t) \in Nat
        BY <3>1
      <3>3. (p \div t) % 10 \in 0 .. 9
        BY <3>2
      <3>4. QED
        BY <3>3 DEF t, Digit
    <2>5. Digit(n, k) \in 0 .. 9 /\ Digit(m, k) \in 0 .. 9
      BY <1>2, <2>4
    <2> DEFINE x == Digit(n, k)
               y == Digit(m, k)
    <2>6. Numerals[x + 1] = Numerals[y + 1]
      BY <2>2, <2>3
    <2>7. x \in 0 .. 9 /\ y \in 0 .. 9
      BY <2>5
    <2> HIDE DEF x, y
    <2>8. x + 1 \in 1 .. 10 /\ y + 1 \in 1 .. 10
      BY <2>7
    <2>9. x + 1 = y + 1
      BY <2>6, <2>8, DigitsDiffer
    <2>10. x = y
      BY <2>7, <2>9
    <2>11. QED
      BY <2>10 DEF x, y
  <1> HIDE DEF w
  <1>4. QED
    BY <1>2, <1>3, SameDigits

-----------------------------------------------------------------------------
(* The forms of the text of an address.                                    *)

\* A sequence starts with another one, and goes on with a third.
GoesOn(s, x, y) ==
  /\ Len(s) = Len(x) + Len(y)
  /\ \A i \in 1 .. Len(x) : s[i] = x[i]
  /\ \A i \in 1 .. Len(y) : s[Len(x) + i] = y[i]

\* What is put behind a sequence, and where it is.
LEMMA PutBehind ==
  ASSUME NEW T, NEW x \in Seq(T), NEW y \in Seq(T)
  PROVE  x \o y \in Seq(T) /\ GoesOn(x \o y, x, y)
PROOF
  <1>1. x \o y \in Seq(T)
    OBVIOUS
  <1>2. Len(x \o y) = Len(x) + Len(y)
    OBVIOUS
  <1>3. \A i \in 1 .. Len(x) : (x \o y)[i] = x[i]
    OBVIOUS
  <1>4. \A i \in 1 .. Len(y) : (x \o y)[Len(x) + i] = y[i]
    OBVIOUS
  <1>5. QED
    BY <1>1, <1>2, <1>3, <1>4 DEF GoesOn

\* Sequences that agree everywhere are the same.
LEMMA SameSequence ==
  ASSUME NEW T, NEW x \in Seq(T), NEW y \in Seq(T), Len(x) = Len(y),
         \A i \in 1 .. Len(x) : x[i] = y[i]
  PROVE  x = y
OBVIOUS

\* It does not matter which two of three sequences are joined first.
LEMMA TextsAssociate ==
  ASSUME NEW T, NEW x \in Seq(T), NEW y \in Seq(T), NEW z \in Seq(T)
  PROVE  x \o (y \o z) = (x \o y) \o z
OBVIOUS

\* Something, a colon, and the digits of a port.
WithPort(x, d) == x \o <<":">> \o d

\* The characters of a joined text.
IsWithPort(s, x, d) ==
  /\ Len(s) = Len(x) + 1 + Len(d)
  /\ \A i \in 1 .. Len(x) : s[i] = x[i]
  /\ s[Len(x) + 1] = ":"
  /\ \A i \in 1 .. Len(d) : s[Len(x) + 1 + i] = d[i]

\* A joined text has them.
LEMMA WithPortAt ==
  ASSUME NEW T, ":" \in T, NEW x \in Seq(T), NEW d \in Seq(T)
  PROVE  WithPort(x, d) \in Seq(T) /\ IsWithPort(WithPort(x, d), x, d)
PROOF
  <1> DEFINE c == <<":">>
             y == x \o c
  <1>1. c \in Seq(T) /\ Len(c) = 1 /\ c[1] = ":"
    OBVIOUS
  <1> HIDE DEF c
  <1>2. /\ y \in Seq(T) /\ Len(y) = Len(x) + 1
        /\ \A i \in 1 .. Len(x) : y[i] = x[i]
        /\ y[Len(x) + 1] = ":"
    <2>1. y \in Seq(T) /\ GoesOn(y, x, c)
      BY <1>1, PutBehind
    <2> HIDE DEF y
    <2>2. QED
      BY <1>1, <2>1 DEF GoesOn
  <1> HIDE DEF y
  <1> DEFINE s == y \o d
  <1>3. s \in Seq(T) /\ GoesOn(s, y, d)
    BY <1>2, PutBehind
  <1> HIDE DEF s
  <1>4. IsWithPort(s, x, d)
    BY <1>2, <1>3 DEF GoesOn, IsWithPort
  <1>5. QED
    BY <1>3, <1>4 DEF WithPort, s, y, c

\* No colon is a digit, so the colon that joins them is the last one, and there
\* is one way only to take a joined text apart.
LEMMA TakenApart ==
  ASSUME NEW T, Decimals \cup {":"} \subseteq T,
         NEW x \in Seq(T), NEW y \in Seq(T),
         NEW d \in Seq(Decimals), NEW e \in Seq(Decimals),
         WithPort(x, d) = WithPort(y, e)
  PROVE  x = y /\ d = e
PROOF
  <1> DEFINE s == WithPort(x, d)
  <1>1. d \in Seq(T) /\ e \in Seq(T) /\ ":" \in T
    OBVIOUS
  <1>2. /\ Len(s) = Len(x) + 1 + Len(d)
        /\ \A i \in 1 .. Len(x) : s[i] = x[i]
        /\ s[Len(x) + 1] = ":"
        /\ \A i \in 1 .. Len(d) : s[Len(x) + 1 + i] = d[i]
    <2>1. IsWithPort(s, x, d)
      BY <1>1, WithPortAt
    <2>2. QED
      BY <2>1 DEF IsWithPort
  <1>3. /\ Len(s) = Len(y) + 1 + Len(e)
        /\ \A i \in 1 .. Len(y) : s[i] = y[i]
        /\ s[Len(y) + 1] = ":"
        /\ \A i \in 1 .. Len(e) : s[Len(y) + 1 + i] = e[i]
    <2>1. IsWithPort(s, y, e)
      BY <1>1, WithPortAt
    <2>2. QED
      BY <2>1 DEF IsWithPort
  <1> HIDE DEF s
  <1>4. /\ \A i \in 1 .. Len(d) : d[i] # ":"
        /\ \A i \in 1 .. Len(e) : e[i] # ":"
    BY DigitsDiffer
  <1>5. ~(Len(x) < Len(y))
    <2>1. SUFFICES ASSUME Len(x) < Len(y) PROVE FALSE
      OBVIOUS
    <2> DEFINE i == Len(y) - Len(x)
    <2>2. i \in 1 .. Len(d) /\ Len(x) + 1 + i = Len(y) + 1
      BY <1>2, <1>3, <2>1
    <2> HIDE DEF i
    <2>3. s[Len(x) + 1 + i] = d[i]
      BY <1>2, <2>2
    <2>4. QED
      BY <1>3, <1>4, <2>2, <2>3
  <1>6. ~(Len(y) < Len(x))
    <2>1. SUFFICES ASSUME Len(y) < Len(x) PROVE FALSE
      OBVIOUS
    <2> DEFINE i == Len(x) - Len(y)
    <2>2. i \in 1 .. Len(e) /\ Len(y) + 1 + i = Len(x) + 1
      BY <1>2, <1>3, <2>1
    <2> HIDE DEF i
    <2>3. s[Len(y) + 1 + i] = e[i]
      BY <1>3, <2>2
    <2>4. QED
      BY <1>2, <1>4, <2>2, <2>3
  <1>7. Len(x) = Len(y)
    BY <1>5, <1>6
  <1>8. Len(d) = Len(e)
    BY <1>2, <1>3, <1>7
  <1>9. \A i \in 1 .. Len(x) : x[i] = y[i]
    BY <1>2, <1>3, <1>7
  <1>10. \A i \in 1 .. Len(d) : d[i] = e[i]
    BY <1>2, <1>3, <1>7, <1>8
  <1>11. x = y
    BY <1>7, <1>9, SameSequence
  <1>12. d = e
    BY <1>8, <1>10, SameSequence
  <1>13. QED
    BY <1>11, <1>12

\* The characters of the texts of hosts, and of texts with brackets.
HostChar == Hexes \cup {":", "."}
TextChar == HostChar \cup {"[", "]"}

\* A host in brackets.
Bracketed(h) == <<"[">> \o h \o <<"]">>

\* Brackets hide nothing.
LEMMA BracketedAt ==
  ASSUME NEW h \in Seq(HostChar)
  PROVE  /\ Bracketed(h) \in Seq(TextChar) /\ Len(Bracketed(h)) = Len(h) + 2
         /\ Bracketed(h)[1] = "["
         /\ \A i \in 1 .. Len(h) : Bracketed(h)[i + 1] = h[i]
PROOF
  <1> DEFINE open  == <<"[">>
             close == <<"]">>
             y     == open \o h
  <1>1. /\ open \in Seq(TextChar) /\ Len(open) = 1 /\ open[1] = "["
        /\ close \in Seq(TextChar) /\ Len(close) = 1
        /\ h \in Seq(TextChar)
    BY DEF TextChar
  <1> HIDE DEF open, close
  <1>2. /\ y \in Seq(TextChar) /\ Len(y) = Len(h) + 1
        /\ y[1] = "[" /\ \A i \in 1 .. Len(h) : y[i + 1] = h[i]
    <2>1. y \in Seq(TextChar) /\ GoesOn(y, open, h)
      BY <1>1, PutBehind
    <2> HIDE DEF y
    <2>2. QED
      BY <1>1, <2>1 DEF GoesOn
  <1> HIDE DEF y
  <1> DEFINE s == y \o close
  <1>3. s \in Seq(TextChar) /\ GoesOn(s, y, close)
    BY <1>1, <1>2, PutBehind
  <1> HIDE DEF s
  <1>4. /\ s \in Seq(TextChar) /\ Len(s) = Len(h) + 2 /\ s[1] = "["
        /\ \A i \in 1 .. Len(h) : s[i + 1] = h[i]
    BY <1>1, <1>2, <1>3 DEF GoesOn
  <1>5. QED
    BY <1>4 DEF Bracketed, s, y, open, close

\* Two hosts with the same text in brackets are the same.
LEMMA BracketedInjective ==
  ASSUME NEW h \in Seq(HostChar), NEW k \in Seq(HostChar),
         Bracketed(h) = Bracketed(k)
  PROVE  h = k
PROOF
  <1>1. Len(h) = Len(k)
    BY BracketedAt
  <1>2. \A i \in 1 .. Len(h) : h[i] = k[i]
    BY <1>1, BracketedAt
  <1>3. QED
    BY <1>1, <1>2, SameSequence

\* What is known of the text of a host.
LEMMA HostTexts ==
  /\ \A h \in InetHosts  : h \in Seq(HostChar) /\ \A i \in 1 .. Len(h) : h[i] # ":"
  /\ \A h \in Inet6Hosts :
       /\ h \in Seq(HostChar)
       /\ \E i, j \in 1 .. Len(h) : i < j /\ h[i] = ":" /\ h[j] = ":"
  /\ InetHosts \cap Inet6Hosts = {}
PROOF
  <1>1. ASSUME NEW h \in InetHosts
        PROVE  h \in Seq(HostChar) /\ \A i \in 1 .. Len(h) : h[i] # ":"
    <2>1. h \in Seq(Decimals \cup {"."})
      BY AddressAssumption DEF InetText
    <2>2. Decimals \cup {"."} \subseteq HostChar /\ ":" \notin Decimals \cup {"."}
      BY DigitsDiffer DEF HostChar
    <2>3. QED
      BY <2>1, <2>2
  <1>2. ASSUME NEW h \in Inet6Hosts
        PROVE  /\ h \in Seq(HostChar)
               /\ \E i, j \in 1 .. Len(h) : i < j /\ h[i] = ":" /\ h[j] = ":"
    <2>1. Inet6Text(h)
      BY AddressAssumption
    <2>2. h \in Seq(HostChar)
      BY <2>1 DEF Inet6Text, HostChar
    <2>3. DOMAIN h = 1 .. Len(h)
      BY <2>2
    <2>4. QED
      BY <2>1, <2>2, <2>3 DEF Inet6Text
  <1>3. QED
    BY <1>1, <1>2

\* No host that is written without brackets becomes another host when a colon
\* and a port are put behind it: an IPv4 host has no colon, and an IPv6 one that
\* is not numeric has a dot, or ends with two colons.
LEMMA WithPortIsNoHost ==
  ASSUME NEW a, Translatable(a), ~(a.family = "inet6" /\ is_numeric(a)),
         NEW d \in Seq(Decimals), NEW h \in InetHosts \cup Inet6Hosts
  PROVE  WithPort(a.address, d) # h
PROOF
  <1> DEFINE c == a.address
             s == WithPort(c, d)
             n == Len(c)
  <1>1. SUFFICES ASSUME s = h PROVE FALSE
    OBVIOUS
  <1>2. (a.family = "inet" /\ c \in InetHosts) \/ (a.family = "inet6" /\ c \in Inet6Hosts)
    BY DEF Translatable, HostsOf
  <1>3. c \in Seq(HostChar) /\ n \in Nat
    BY <1>2, HostTexts
  <1>4. ":" \in HostChar /\ d \in Seq(HostChar) /\ Len(d) \in Nat
    BY DEF HostChar, Hexes
  <1>5. /\ s \in Seq(HostChar) /\ Len(s) = n + 1 + Len(d)
        /\ \A i \in 1 .. n : s[i] = c[i]
        /\ s[n + 1] = ":"
        /\ \A i \in 1 .. Len(d) : s[n + 1 + i] = d[i]
    <2>1. s \in Seq(HostChar) /\ IsWithPort(s, c, d)
      BY <1>3, <1>4, WithPortAt
    <2>2. QED
      BY <2>1 DEF IsWithPort
  <1>6. \A i \in 1 .. Len(d) : d[i] # ":"
    BY DigitsDiffer
  <1> HIDE DEF s, n
  <1>7. n + 1 \in 1 .. Len(s)
    BY <1>3, <1>4, <1>5
  <1>8. h \in Inet6Hosts
    BY <1>1, <1>5, <1>7, HostTexts
  <1>9. /\ \A i \in 1 .. Len(s) - 2 : ~(s[i] = ":" /\ s[i + 1] = ":" /\ s[i + 2] = ":")
        /\ \A i, j \in 1 .. Len(s) : s[i] = "." /\ s[j] = ":" => j < i
    <2>1. Inet6Text(s) /\ DOMAIN s = 1 .. Len(s)
      BY <1>1, <1>5, <1>8, AddressAssumption
    <2>2. QED
      BY <2>1 DEF Inet6Text
  <1>10. CASE a.family = "inet" /\ c \in InetHosts
    <2>1. PICK i, j \in 1 .. Len(s) : i < j /\ s[i] = ":" /\ s[j] = ":"
      BY <1>1, <1>8, HostTexts
    <2>2. \A k \in 1 .. n : c[k] # ":"
      BY <1>10, HostTexts DEF n
    <2>3. ASSUME NEW k \in 1 .. Len(s), s[k] = ":" PROVE k = n + 1
      <3>1. k \in 1 .. n \/ k = n + 1 \/ k - (n + 1) \in 1 .. Len(d)
        BY <1>3, <1>4, <1>5
      <3>2. ~(k \in 1 .. n)
        BY <1>5, <2>2, <2>3
      <3>3. ASSUME k - (n + 1) \in 1 .. Len(d) PROVE FALSE
        <4> DEFINE m == k - (n + 1)
        <4>1. m \in 1 .. Len(d) /\ n + 1 + m = k
          BY <1>3, <3>3
        <4> HIDE DEF m
        <4>2. QED
          BY <1>5, <1>6, <2>3, <4>1
      <3>4. QED
        BY <3>1, <3>2, <3>3
    <2>4. i = n + 1 /\ j = n + 1
      BY <2>1, <2>3
    <2>5. QED
      BY <2>1, <2>4, <1>3
  <1>11. CASE a.family = "inet6" /\ c \in Inet6Hosts
    <2>1. PICK i, j \in 1 .. n : i < j /\ c[i] = ":" /\ c[j] = ":"
      BY <1>11, HostTexts DEF n
    <2>2. ~is_numeric(a)
      BY <1>11
    <2>3. DOMAIN c = 1 .. n
      BY <1>3 DEF n
    <2>4. \/ \E k \in 1 .. n : c[k] \notin Hexes \cup {":"}
          \/ \A k \in 1 .. n : c[k] \notin Hexes
      BY <1>11, <2>2, <2>3 DEF is_numeric
    <2>5. \A k \in 1 .. n : c[k] \in HostChar
      BY <1>3 DEF n
    <2>6. ASSUME NEW k \in 1 .. n, c[k] = "." PROVE FALSE
      <3>1. s[k] = "." /\ k \in 1 .. Len(s)
        BY <1>3, <1>4, <1>5, <2>6
      <3>2. n + 1 < k
        BY <1>5, <1>7, <1>9, <3>1
      <3>3. QED
        BY <1>3, <3>2
    <2>7. \A k \in 1 .. n : c[k] = ":"
      BY <2>4, <2>5, <2>6 DEF HostChar
    <2>8. n >= 2 /\ n - 1 \in 1 .. n /\ n \in 1 .. n /\ n - 1 \in 1 .. Len(s) - 2
      <3>1. n >= 2
        BY <1>3, <2>1
      <3>2. Len(s) >= n + 1 /\ Len(s) \in Nat
        BY <1>3, <1>4, <1>5
      <3>3. QED
        BY <1>3, <3>1, <3>2
    <2> DEFINE k == n - 1
    <2>9. k \in 1 .. Len(s) - 2 /\ k + 1 = n /\ k + 2 = n + 1
      BY <2>8, <1>3
    <2>10. s[k] = ":" /\ s[n] = ":" /\ s[n + 1] = ":"
      BY <1>5, <2>7, <2>8
    <2> HIDE DEF k
    <2>11. QED
      BY <1>9, <2>9, <2>10
  <1>12. QED
    BY <1>2, <1>10, <1>11

\* The text of an address that a program can send to: the host alone, the host
\* in brackets and the port, or the host and the port.
LEMMA ThreeForms ==
  ASSUME NEW a, Translatable(a), IsAddress(a)
  PROVE  LET h == a.address
             d == Decimal(a.port)
         IN /\ h \in Seq(HostChar) /\ h \in InetHosts \cup Inet6Hosts
            /\ d \in Seq(Decimals)
            /\ \/ a.port = 0 /\ to_string(a) = h
               \/ a.port # 0 /\ to_string(a) = WithPort(Bracketed(h), d)
               \/ /\ a.port # 0 /\ ~(a.family = "inet6" /\ is_numeric(a))
                  /\ to_string(a) = WithPort(h, d)
PROOF
  <1> DEFINE h == a.address
             d == Decimal(a.port)
  <1>1. h \in InetHosts \cup Inet6Hosts
    BY DEF Translatable, HostsOf
  <1>2. h \in Seq(HostChar)
    BY <1>1, HostTexts
  <1>3. d \in Seq(Decimals)
    BY DecimalDigits DEF IsAddress
  <1>4. CASE a.port = 0
    BY <1>1, <1>2, <1>3, <1>4 DEF to_string
  <1>5. CASE a.port # 0 /\ ~(a.family = "inet6" /\ is_numeric(a))
    BY <1>1, <1>2, <1>3, <1>5 DEF to_string, WithPort
  <1>6. CASE a.port # 0 /\ a.family = "inet6" /\ is_numeric(a)
    <2>1. to_string(a) = <<"[">> \o h \o <<"]", ":">> \o d
      BY <1>6 DEF to_string
    <2> DEFINE x == <<"[">> \o h
               y == <<"]">>
               z == <<":">>
    <2>2. x \in Seq(TextChar) /\ y \in Seq(TextChar) /\ z \in Seq(TextChar)
      <3>1. <<"[">> \in Seq(TextChar) /\ h \in Seq(TextChar)
        BY <1>2 DEF TextChar
      <3>2. x \in Seq(TextChar)
        BY <3>1, PutBehind
      <3>3. y \in Seq(TextChar) /\ z \in Seq(TextChar)
        BY DEF TextChar, HostChar
      <3>4. QED
        BY <3>2, <3>3
    <2>3. <<"]", ":">> = y \o z
      OBVIOUS
    <2> HIDE DEF x, y, z
    <2>4. x \o (y \o z) = (x \o y) \o z
      BY <2>2, TextsAssociate
    <2>5. to_string(a) = WithPort(Bracketed(h), d)
      BY <2>1, <2>3, <2>4 DEF WithPort, Bracketed, x, y, z
    <2>6. QED
      BY <1>1, <1>2, <1>3, <1>6, <2>5
  <1>7. QED
    BY <1>4, <1>5, <1>6

\* A text that starts with a bracket is not one without.
LEMMA BracketsTell ==
  ASSUME NEW h \in Seq(HostChar), NEW k \in Seq(HostChar),
         NEW d \in Seq(Decimals), NEW e \in Seq(Decimals)
  PROVE  /\ WithPort(Bracketed(h), d) # k
         /\ WithPort(Bracketed(h), d) # WithPort(k, e)
PROOF
  <1> DEFINE b == Bracketed(h)
             s == WithPort(b, d)
  <1>1. /\ ":" \in TextChar /\ ":" \in HostChar /\ "[" \notin HostChar
        /\ d \in Seq(TextChar) /\ e \in Seq(HostChar)
    BY DigitsDiffer DEF TextChar, HostChar, Hexes
  <1>2. b \in Seq(TextChar) /\ Len(b) = Len(h) + 2 /\ b[1] = "["
    BY BracketedAt
  <1> HIDE DEF b
  <1>3. s \in Seq(TextChar) /\ IsWithPort(s, b, d)
    BY <1>1, <1>2, WithPortAt
  <1> HIDE DEF s
  <1>4. s[1] = "[" /\ Len(s) >= 1
    BY <1>2, <1>3 DEF IsWithPort
  <1>5. \A t \in Seq(HostChar) : s # t
    <2> SUFFICES ASSUME NEW t \in Seq(HostChar), s = t PROVE FALSE
      OBVIOUS
    <2>1. t[1] \in HostChar
      BY <1>4
    <2>2. QED
      BY <1>1, <1>4, <2>1
  <1>6. WithPort(k, e) \in Seq(HostChar)
    BY <1>1, WithPortAt
  <1>7. QED
    BY <1>5, <1>6 DEF s, b

\* An address is known from its text.
LEMMA TextTells ==
  ASSUME NEW a, Translatable(a), IsAddress(a),
         NEW b, Translatable(b), IsAddress(b),
         to_string(a) = to_string(b)
  PROVE  a = b
PROOF
  <1> DEFINE h == a.address
             k == b.address
             d == Decimal(a.port)
             e == Decimal(b.port)
  <1>1. /\ h \in Seq(HostChar) /\ h \in InetHosts \cup Inet6Hosts
        /\ d \in Seq(Decimals)
        /\ \/ a.port = 0 /\ to_string(a) = h
           \/ a.port # 0 /\ to_string(a) = WithPort(Bracketed(h), d)
           \/ /\ a.port # 0 /\ ~(a.family = "inet6" /\ is_numeric(a))
              /\ to_string(a) = WithPort(h, d)
    BY ThreeForms
  <1>2. /\ k \in Seq(HostChar) /\ k \in InetHosts \cup Inet6Hosts
        /\ e \in Seq(Decimals)
        /\ \/ b.port = 0 /\ to_string(b) = k
           \/ b.port # 0 /\ to_string(b) = WithPort(Bracketed(k), e)
           \/ /\ b.port # 0 /\ ~(b.family = "inet6" /\ is_numeric(b))
              /\ to_string(b) = WithPort(k, e)
    BY ThreeForms
  <1>3. ASSUME h = k, a.port = b.port PROVE a = b
    <2>1. a.family = b.family
      BY <1>3, HostTexts DEF Translatable, HostsOf
    <2>2. QED
      BY <1>3, <2>1 DEF IsAddress
  <1>4. ASSUME d = e PROVE a.port = b.port
    BY <1>4, DecimalInjective DEF IsAddress
  <1> HIDE DEF h, k, d, e
  <1>5. Decimals \cup {":"} \subseteq HostChar /\ HostChar \subseteq TextChar
    BY DigitsDiffer DEF HostChar, TextChar
  <1>6. CASE a.port = 0 /\ b.port = 0
    BY <1>1, <1>2, <1>3, <1>6
  <1>7. ASSUME WithPort(h, d) = WithPort(k, e) PROVE a = b
    <2>1. h = k /\ d = e
      BY <1>1, <1>2, <1>5, <1>7, TakenApart
    <2>2. QED
      BY <1>3, <1>4, <2>1
  <1>8. ASSUME WithPort(Bracketed(h), d) = WithPort(Bracketed(k), e) PROVE a = b
    <2>1. Bracketed(h) \in Seq(TextChar) /\ Bracketed(k) \in Seq(TextChar)
      BY <1>1, <1>2, BracketedAt
    <2>2. Decimals \cup {":"} \subseteq TextChar
      BY <1>5
    <2>3. Bracketed(h) = Bracketed(k) /\ d = e
      BY <1>1, <1>2, <1>8, <2>1, <2>2, TakenApart
    <2>4. h = k
      BY <1>1, <1>2, <2>3, BracketedInjective
    <2>5. QED
      BY <1>3, <1>4, <2>3, <2>4
  <1>9. ~(\/ WithPort(Bracketed(h), d) = k
          \/ WithPort(Bracketed(k), e) = h
          \/ WithPort(Bracketed(h), d) = WithPort(k, e)
          \/ WithPort(Bracketed(k), e) = WithPort(h, d))
    BY <1>1, <1>2, BracketsTell
  <1>10. /\ ~(a.family = "inet6" /\ is_numeric(a)) => WithPort(h, d) # k
         /\ ~(b.family = "inet6" /\ is_numeric(b)) => WithPort(k, e) # h
    BY <1>1, <1>2, WithPortIsNoHost DEF h, k
  <1>11. QED
    BY <1>1, <1>2, <1>6, <1>7, <1>8, <1>9, <1>10

\* NamesApart: the port is never taken for a part of the address.  Two addresses
\* that a program can send to, whether it resolved them, was sent a datagram
\* from there, or is bound there, are written differently.
THEOREM NamesStayApart == Spec => []NamesApart
PROOF
  <1>1. Exchanging => NamesApart
    <2> SUFFICES ASSUME Exchanging PROVE NamesApart
      OBVIOUS
    <2>1. ASSUME NEW a \in Reachable PROVE Translatable(a) /\ IsAddress(a)
      <3>1. \A e \in Ends : IsAddress(from_native(At[e])) /\ IsAddress(addr[e])
        BY DatagramAssumption, FromNative DEF Exchanging
      <3>2. QED
        BY <3>1 DEF Reachable
    <2>2. QED
      BY <2>1, TextTells DEF NamesApart
  <1>2. QED
    BY <1>1, AlwaysExchanging, PTL
=============================================================================
