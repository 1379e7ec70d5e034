---------------------------- MODULE PacketLemmas ----------------------------
(***************************************************************************)
(* What each operation does with a single packet, for every Radix and      *)
(* DatagramSize: the lemmas that the proofs about programs over packets,   *)
(* over TCP and over UDP all need.                                         *)
(***************************************************************************)
EXTENDS Packet, TLAPS

-----------------------------------------------------------------------------
(* Arithmetic and byte sequences.                                          *)

\* The constants are numbers, and every size a packet can have is below the
\* number of values of its length field.
LEMMA Constants ==
  /\ Radix \in Nat /\ DatagramSize \in Nat /\ LenMod \in Nat
  /\ Radix >= 2 /\ 2 < DatagramSize /\ DatagramSize <= LenMod
  /\ 0 \in Byte
PROOF
  <1>1. Radix * Radix \in Nat
    BY PacketAssumption
  <1>2. QED
    BY <1>1, PacketAssumption DEF LenMod, HeaderSize, Byte

\* A length below the modulus is written into the length field unchanged.
LEMMA SmallLength ==
  ASSUME NEW n \in Nat, n < LenMod
  PROVE  n % LenMod = n
BY Constants

\* vector::resize yields bytes, as many as it was asked for.
LEMMA ResizedBytes ==
  ASSUME NEW body \in Seq(Byte), NEW n \in Nat
  PROVE  Resized(body, n) \in Seq(Byte) /\ Len(Resized(body, n)) = n
PROOF
  <1>1. Resized(body, n) \in [1 .. n -> Byte]
    BY Constants DEF Resized
  <1>2. QED
    BY <1>1

\* memcpy behind an offset yields bytes, and only ever lengthens the vector.
LEMMA OverwrittenBytes ==
  ASSUME NEW body \in Seq(Byte), NEW off \in Nat, NEW d \in Seq(Byte)
  PROVE  /\ Overwritten(body, off, d) \in Seq(Byte)
         /\ Len(Overwritten(body, off, d)) = Larger(Len(body), off + Len(d))
PROOF
  <1> DEFINE n == Larger(Len(body), off + Len(d))
  <1>1. n \in Nat
    BY DEF Larger
  <1>2. ASSUME NEW i \in 1 .. n
        PROVE  (IF i > off /\ i <= off + Len(d) THEN d[i - off]
                ELSE IF i <= Len(body) THEN body[i] ELSE 0) \in Byte
    BY <1>1, Constants
  <1>3. Overwritten(body, off, d) \in [1 .. n -> Byte]
    BY <1>2 DEF Overwritten
  <1>4. QED
    BY <1>1, <1>3

-----------------------------------------------------------------------------
(* Cursors and sizes.                                                      *)

\* The fields of a packet have their types, and the sizes are numbers.
LEMMA Fields ==
  ASSUME NEW p \in PacketType
  PROVE  /\ p.header \in Int /\ p.body \in Seq(Byte)
         /\ p.read_pos \in Nat /\ p.write_pos \in Nat
         /\ work_size(p) \in Nat /\ real_size(p) \in Nat
         /\ HasData(p) => real_size(p) = HeaderSize + work_size(p)
         /\ ~HasData(p) => real_size(p) = 0
BY Constants DEF PacketType, work_size, real_size, HasData, HeaderSize, NoHeader

\* A seek of the write cursor moves nothing else, and moves it only to a
\* place between the header and the end.
LEMMA SeekWriteMoves ==
  ASSUME NEW p \in PacketType, NEW type, NEW value \in Int
  PROVE  \/ SeekWrite(p, type, value).pkt = p
         \/ \E w \in HeaderSize .. HeaderSize + work_size(p) :
              SeekWrite(p, type, value).pkt = [p EXCEPT !.write_pos = w]
PROOF
  <1> DEFINE at == SeekPosition(p, type, p.write_pos, value)
  <1>1. CASE ~SeekAllowed(p, type, p.write_pos, value)
    BY <1>1 DEF SeekWrite, Throw
  <1>2. CASE SeekAllowed(p, type, p.write_pos, value)
    <2>1. at \in 0 .. work_size(p)
      BY <1>2 DEF SeekAllowed
    <2>2. SeekWrite(p, type, value).pkt = [p EXCEPT !.write_pos = HeaderSize + at]
      BY <1>2 DEF SeekWrite, Return
    <2>3. HeaderSize + at \in HeaderSize .. HeaderSize + work_size(p)
      BY <2>1, Fields DEF HeaderSize
    <2>4. QED
      BY <2>2, <2>3
  <1>3. QED
    BY <1>1, <1>2

\* The same of the read cursor.
LEMMA SeekReadMoves ==
  ASSUME NEW p \in PacketType, NEW type, NEW value \in Int
  PROVE  \/ SeekRead(p, type, value).pkt = p
         \/ \E r \in HeaderSize .. HeaderSize + work_size(p) :
              SeekRead(p, type, value).pkt = [p EXCEPT !.read_pos = r]
PROOF
  <1> DEFINE at == SeekPosition(p, type, p.read_pos, value)
  <1>1. CASE ~SeekAllowed(p, type, p.read_pos, value)
    BY <1>1 DEF SeekRead, Throw
  <1>2. CASE SeekAllowed(p, type, p.read_pos, value)
    <2>1. at \in 0 .. work_size(p)
      BY <1>2 DEF SeekAllowed
    <2>2. SeekRead(p, type, value).pkt = [p EXCEPT !.read_pos = HeaderSize + at]
      BY <1>2 DEF SeekRead, Return
    <2>3. HeaderSize + at \in HeaderSize .. HeaderSize + work_size(p)
      BY <2>1, Fields DEF HeaderSize
    <2>4. QED
      BY <2>2, <2>3
  <1>3. QED
    BY <1>1, <1>2

\* What update_size is called on: a packet with data whose header is out of
\* date and whose write cursor may be beyond the end.
Sizable(p) ==
  /\ p \in PacketType
  /\ HasData(p)
  /\ real_size(p) <= DatagramSize
  /\ p.read_pos >= HeaderSize
  /\ p.write_pos <= DatagramSize

\* update_size leaves a sound packet whether it throws or not.
LEMMA UpdateSizeSound ==
  ASSUME NEW p, Sizable(p)
  PROVE  /\ Sound(update_size(p).pkt)
         /\ HasData(update_size(p).pkt)
         /\ work_size(update_size(p).pkt) = work_size(p)
PROOF
  <1> USE DEF Sizable
  <1>1. CASE full(p)
    <2> DEFINE q == [p EXCEPT !.write_pos = 0]
    <2>1. update_size(p).pkt = q
      BY <1>1 DEF update_size, Throw
    <2>2. q \in PacketType /\ q.header = p.header /\ q.body = p.body
          /\ q.read_pos = p.read_pos /\ q.write_pos = 0
      BY DEF PacketType
    <2>3. work_size(q) = work_size(p) /\ real_size(q) = real_size(p)
          /\ HasData(q) /\ full(q)
      BY <1>1, <2>2 DEF work_size, real_size, HasData, full
    <2>4. Sound(q)
      BY <2>2, <2>3, Constants DEF Sound
    <2>5. QED
      BY <2>1, <2>3, <2>4
  <1>2. CASE ~full(p)
    <2> DEFINE written == [p EXCEPT !.header = work_size(p) % LenMod,
                                    !.write_pos = HeaderSize]
               q == update_size(p).pkt
               n == work_size(p)
    <2>1. q = SeekWrite(written, "from_start", p.write_pos - HeaderSize).pkt
      BY <1>2 DEF update_size
    <2>2. n \in Nat /\ n < LenMod /\ real_size(p) = HeaderSize + n
      BY Fields, Constants DEF HeaderSize
    <2>3. n % LenMod = n
      BY <2>2, SmallLength
    <2>4. n \in 0 .. LenMod - 1 \cup {NoHeader} /\ n # NoHeader
      BY <2>2, Constants DEF NoHeader
    <2>5. /\ written \in PacketType
          /\ written.header = n /\ written.body = p.body
          /\ written.read_pos = p.read_pos /\ written.write_pos = HeaderSize
      BY <2>3, <2>4 DEF PacketType, HeaderSize
    <2>6. work_size(written) = n
      BY <2>5 DEF work_size
    <2>7. p.write_pos - HeaderSize \in Int
      BY Fields DEF HeaderSize
    <2>8. \E w \in HeaderSize .. HeaderSize + n :
            q = [written EXCEPT !.write_pos = w]
      <3>1. CASE q = written
        <4>1. written = [written EXCEPT !.write_pos = HeaderSize]
          BY <2>5 DEF PacketType
        <4>2. HeaderSize \in HeaderSize .. HeaderSize + n
          BY <2>2 DEF HeaderSize
        <4>3. QED
          BY <3>1, <4>1, <4>2
      <3>2. \/ q = written
            \/ \E w \in HeaderSize .. HeaderSize + work_size(written) :
                 q = [written EXCEPT !.write_pos = w]
        <4> HIDE DEF written
        <4>1. QED
          BY <2>1, <2>5, <2>7, SeekWriteMoves
      <3>3. QED
        BY <2>6, <3>1, <3>2
    <2>9. PICK w \in HeaderSize .. HeaderSize + n :
            q = [written EXCEPT !.write_pos = w]
      BY <2>8
    <2>10. w \in Nat
      BY <2>2 DEF HeaderSize
    <2>11. /\ q \in PacketType
           /\ q.header = n /\ q.body = p.body
           /\ q.read_pos = p.read_pos /\ q.write_pos = w
      BY <2>5, <2>9, <2>10 DEF PacketType
    <2>12. HasData(q) /\ work_size(q) = n /\ real_size(q) = HeaderSize + n
      BY <2>2, <2>4, <2>11 DEF HasData, work_size, real_size
    <2>13. w <= DatagramSize
      BY <2>2, <2>9, Constants DEF HeaderSize
    <2>14. Sound(q)
      BY <2>9, <2>2, <2>11, <2>12, <2>13 DEF Sound
    <2>15. QED
      BY <2>12, <2>14
  <1>3. QED
    BY <1>1, <1>2

-----------------------------------------------------------------------------
(* The calls that change the data.                                         *)

\* resize takes a sound packet to a sound packet, even a moved-away one, and
\* sets its size, cut to what a packet can have.
LEMMA ResizeSound ==
  ASSUME NEW p, Sound(p), NEW size \in Nat
  PROVE  /\ Sound(resize(p, size).pkt)
         /\ HasData(resize(p, size).pkt)
PROOF
  <1> DEFINE n == Larger(HeaderSize, Smaller(DatagramSize, size))
             m == n - HeaderSize
             q == [p EXCEPT !.header = Grown(@), !.body = Resized(@, m)]
  <1>1. p \in PacketType /\ p.body \in Seq(Byte)
    BY DEF Sound, PacketType
  <1>2. m \in Nat /\ HeaderSize + m <= DatagramSize
    BY Constants DEF Larger, Smaller, HeaderSize
  <1>3. Resized(p.body, m) \in Seq(Byte) /\ Len(Resized(p.body, m)) = m
    BY <1>1, <1>2, ResizedBytes
  <1>4. Grown(p.header) \in 0 .. LenMod - 1 \cup {NoHeader}
        /\ Grown(p.header) # NoHeader
    BY <1>1, Constants DEF Grown, NoHeader, PacketType
  <1>5. /\ q \in PacketType
        /\ q.header = Grown(p.header) /\ q.body = Resized(p.body, m)
        /\ q.read_pos = p.read_pos /\ q.write_pos = p.write_pos
    <2> HIDE DEF m
    <2>1. QED
      BY <1>1, <1>3, <1>4 DEF PacketType
  <1>6. HasData(q) /\ real_size(q) = HeaderSize + m
    BY <1>3, <1>4, <1>5 DEF HasData, real_size
  <1>7. Sizable(q)
    BY <1>2, <1>5, <1>6 DEF Sizable, Sound
  <1>8. resize(p, size) = update_size(q)
    BY DEF resize
  <1>9. QED
    BY <1>7, <1>8, UpdateSizeSound

\* Putting a cursor somewhere else behind the header keeps a packet sound.
LEMMA CursorSound ==
  ASSUME NEW p, Sound(p), NEW c \in Nat, c >= HeaderSize
  PROVE  /\ Sound([p EXCEPT !.read_pos = c])
         /\ c <= HeaderSize + work_size(p) =>
              Sound([p EXCEPT !.write_pos = c])
PROOF
  <1>1. p \in PacketType
    BY DEF Sound
  <1>2. Sound([p EXCEPT !.read_pos = c])
    <2> DEFINE q == [p EXCEPT !.read_pos = c]
    <2>1. /\ q \in PacketType
          /\ q.header = p.header /\ q.body = p.body
          /\ q.read_pos = c /\ q.write_pos = p.write_pos
      BY <1>1 DEF PacketType
    <2>2. /\ work_size(q) = work_size(p) /\ real_size(q) = real_size(p)
          /\ HasData(q) <=> HasData(p)
          /\ full(q) <=> full(p)
      BY <2>1 DEF work_size, real_size, HasData, full
    <2>3. QED
      BY <2>1, <2>2 DEF Sound
  <1>3. ASSUME c <= HeaderSize + work_size(p)
        PROVE  Sound([p EXCEPT !.write_pos = c])
    <2> DEFINE q == [p EXCEPT !.write_pos = c]
    <2>1. /\ q \in PacketType
          /\ q.header = p.header /\ q.body = p.body
          /\ q.read_pos = p.read_pos /\ q.write_pos = c
      BY <1>1 DEF PacketType
    <2>2. /\ work_size(q) = work_size(p) /\ real_size(q) = real_size(p)
          /\ HasData(q) <=> HasData(p)
          /\ full(q) <=> full(p)
      BY <2>1 DEF work_size, real_size, HasData, full
    <2>3. c <= DatagramSize
      <3>1. CASE HasData(p)
        BY <1>1, <1>3, <3>1, Fields, Constants DEF Sound, HeaderSize
      <3>2. CASE ~HasData(p)
        <4>1. work_size(p) = 0
          BY <3>2 DEF Sound, work_size
        <4>2. QED
          BY <1>3, <4>1, Constants DEF HeaderSize
      <3>3. QED
        BY <3>1, <3>2
    <2>4. HasData(p) => c \in HeaderSize .. real_size(p)
      BY <1>1, <1>3, Fields DEF HeaderSize
    <2>5. QED
      BY <2>1, <2>2, <2>3, <2>4 DEF Sound
  <1>4. QED
    BY <1>2, <1>3

\* clear makes a sound packet of a sound packet.
LEMMA ClearSound ==
  ASSUME NEW p, Sound(p)
  PROVE  Sound(clear(p).pkt)
PROOF
  <1> DEFINE q == [p EXCEPT !.read_pos = HeaderSize]
             r == [q EXCEPT !.write_pos = HeaderSize]
  <1>1. HeaderSize \in Nat /\ HeaderSize >= HeaderSize
    BY DEF HeaderSize
  <1>2. p \in PacketType
    BY DEF Sound
  <1>3. Sound(q)
    BY <1>1, CursorSound
  <1>4. HeaderSize <= HeaderSize + work_size(q)
    <2>1. q \in PacketType
      BY <1>3 DEF Sound
    <2>2. work_size(q) \in Nat
      BY <2>1, Fields
    <2>3. QED
      BY <2>2 DEF HeaderSize
  <1>5. Sound(r)
    <2> HIDE DEF q
    <2>1. QED
      BY <1>1, <1>3, <1>4, CursorSound
  <1>6. r = [p EXCEPT !.read_pos = HeaderSize, !.write_pos = HeaderSize]
    BY <1>2 DEF PacketType
  <1>7. clear(p) = resize(r, HeaderSize)
    BY <1>6 DEF clear
  <1>8. QED
    <2> HIDE DEF r
    <2>1. QED
      BY <1>1, <1>5, <1>7, ResizeSound

\* A write, whole or not, keeps a sound packet sound, and writable: it may be
\* followed by another one.
LEMMA WriteDataSound ==
  ASSUME NEW p, Sound(p), Writable(p), NEW d \in Seq(Byte), NEW whole
  PROVE  /\ Sound(write_data(p, d, whole).pkt)
         /\ Writable(write_data(p, d, whole).pkt)
PROOF
  <1> DEFINE r    == write_data(p, d, whole)
             n    == Smaller(DatagramSize - p.write_pos, Len(d))
             off  == p.write_pos - HeaderSize
             part == SubSeq(d, 1, n)
             body == Overwritten(p.body, off, part)
             q    == [p EXCEPT !.header    = Grown(@),
                               !.body      = body,
                               !.write_pos = @ + n]
  <1>1. CASE full(p) \/ (whole /\ p.write_pos + Len(d) > DatagramSize)
    <2>1. r.pkt = p
      BY <1>1 DEF write_data, Return
    <2>2. QED
      BY <2>1
  <1>2. CASE ~(full(p) \/ (whole /\ p.write_pos + Len(d) > DatagramSize))
    <2>1. /\ p \in PacketType /\ p.body \in Seq(Byte)
          /\ p.write_pos \in Nat /\ p.write_pos >= HeaderSize
          /\ p.write_pos <= DatagramSize
      BY <1>2 DEF Sound, PacketType, Writable
    <2>2. off \in Nat /\ Len(d) \in Nat
      BY <2>1 DEF HeaderSize
    <2>3. n \in Nat /\ n <= Len(d) /\ p.write_pos + n <= DatagramSize
      BY <2>1, <2>2, Constants DEF Smaller
    <2>4. part \in Seq(Byte) /\ Len(part) = n
      <3> HIDE DEF n
      <3>1. QED
        BY <2>2, <2>3
    <2>5. body \in Seq(Byte) /\ Len(body) = Larger(Len(p.body), off + n)
      <3>1. /\ body \in Seq(Byte)
            /\ Len(body) = Larger(Len(p.body), off + Len(part))
        <4> HIDE DEF off, part, q, r
        <4>1. QED
          BY <2>1, <2>2, <2>4, OverwrittenBytes
      <3> HIDE DEF body, off, part, n
      <3>2. QED
        BY <2>4, <3>1
    <2>6. Grown(p.header) \in 0 .. LenMod - 1 \cup {NoHeader}
          /\ Grown(p.header) # NoHeader
      BY <2>1, Constants DEF Grown, NoHeader, PacketType
    <2>7. /\ q \in PacketType
          /\ q.header = Grown(p.header)
          /\ q.body = body
          /\ q.read_pos = p.read_pos /\ q.write_pos = p.write_pos + n
      <3> DEFINE h == Grown(p.header)
                 w == p.write_pos + n
      <3>1. w \in Nat
        <4> HIDE DEF n
        <4>1. QED
          BY <2>1, <2>3
      <3>2. h \in 0 .. LenMod - 1 \cup {NoHeader}
        BY <2>6
      <3>3. q = [p EXCEPT !.header = h, !.body = body, !.write_pos = w]
        OBVIOUS
      <3> HIDE DEF body, w, h, q
      <3>4. QED
        <4>1. /\ q \in PacketType /\ q.header = h /\ q.body = body
              /\ q.read_pos = p.read_pos /\ q.write_pos = w
          BY <2>1, <2>5, <3>1, <3>2, <3>3 DEF PacketType
        <4>2. QED
          BY <4>1 DEF h, w
    <2>8. HeaderSize + Larger(Len(p.body), off + n) <= DatagramSize
      <3>1. HeaderSize + Len(p.body) <= DatagramSize
        <4>1. CASE HasData(p)
          BY <4>1 DEF Sound, HasData, real_size
        <4>2. CASE ~HasData(p)
          BY <4>2, Constants DEF Sound, HeaderSize
        <4>3. QED
          BY <4>1, <4>2
      <3>2. HeaderSize + (off + n) <= DatagramSize
        <4> HIDE DEF n
        <4>1. QED
          BY <2>1, <2>3 DEF HeaderSize
      <3>3. QED
        BY <3>1, <3>2 DEF Larger
    <2>9. HasData(q) /\ real_size(q) <= DatagramSize
      BY <2>5, <2>6, <2>7, <2>8 DEF HasData, real_size
    <2>10. Sizable(q)
      <3> HIDE DEF q, n
      <3>1. QED
        BY <2>3, <2>7, <2>9 DEF Sizable, Sound
    <2>11. r.pkt = update_size(q).pkt
      <3>1. p.write_pos # 0
        BY <2>1 DEF HeaderSize
      <3>2. q = AtCursor(p, part)
        <4> HIDE DEF n, part
        <4>1. QED
          BY <2>4 DEF AtCursor
      <3>3. r = IF update_size(q).threw THEN update_size(q)
                ELSE Return(update_size(q).pkt, n)
        <4> HIDE DEF q
        <4>1. QED
          BY <1>2, <3>1, <3>2 DEF write_data
      <3> HIDE DEF q, r, n
      <3>4. QED
        BY <3>3 DEF Return
    <2>12. Sound(r.pkt) /\ HasData(r.pkt)
      <3> HIDE DEF q, r
      <3>1. QED
        BY <2>10, <2>11, UpdateSizeSound
    <2>13. Writable(r.pkt)
      <3> HIDE DEF r
      <3>1. QED
        BY <2>12 DEF Sound, Writable
    <2>14. QED
      BY <2>12, <2>13
  <1>3. QED
    BY <1>1, <1>2

\* operator<< and write of one value.
LEMMA WriteValueSound ==
  ASSUME NEW p, Sound(p), Writable(p), NEW d \in Seq(Byte), NEW enforced
  PROVE  Sound(WriteValue(p, d, enforced).pkt)
PROOF
  <1> DEFINE r == write_data(p, d, TRUE)
  <1>1. Sound(r.pkt)
    BY WriteDataSound
  <1>2. WriteValue(p, d, enforced).pkt = r.pkt
    BY DEF WriteValue, Throw
  <1>3. QED
    BY <1>1, <1>2

\* The two bytes of a length are bytes, from which it can be read again.
LEMMA DigitsBytes ==
  ASSUME NEW n \in Nat, n < LenMod
  PROVE  /\ Digits(n) \in Seq(Byte) /\ Len(Digits(n)) = 2
         /\ Number(Digits(n)) = n
PROOF
  <1> USE DEF Byte
  <1>1. n < Radix * Radix
    BY DEF LenMod
  <1>2. n % Radix \in 0 .. Radix - 1
    BY Constants
  <1> DEFINE q == n \div Radix
             r == n % Radix
  <1>3. q \in Int /\ r \in 0 .. Radix - 1 /\ n = Radix * q + r
    BY Constants
  <1>4. q \in 0 .. Radix - 1
    <2>1. q >= 0
      <3>1. SUFFICES ASSUME q <= -1 PROVE FALSE
        BY <1>3
      <3>2. Radix * q <= -Radix
        BY <1>3, <3>1, Constants
      <3>3. QED
        BY <1>3, <3>2, Constants
    <2>2. q <= Radix - 1
      <3>1. SUFFICES ASSUME q >= Radix PROVE FALSE
        BY <1>3, Constants
      <3>2. Radix * q >= Radix * Radix
        BY <1>3, <3>1, Constants
      <3>3. QED
        BY <1>1, <1>3, <3>2, Constants
    <2>3. QED
      BY <1>3, <2>1, <2>2
  <1>5. Digits(n) = <<r, q>>
    BY DEF Digits
  <1> HIDE DEF q, r
  <1>6. Number(Digits(n)) = r + Radix * q
    BY <1>5 DEF Number
  <1>7. r + Radix * q = n
    BY <1>3, <1>4, Constants
  <1>8. <<r, q>> \in Seq(Byte) /\ Len(<<r, q>>) = 2
    BY <1>3, <1>4
  <1>9. QED
    BY <1>5, <1>6, <1>7, <1>8

\* A string: whichever part is written first, and wherever it stops.
LEMMA WriteStringSound ==
  ASSUME NEW p, Sound(p), Writable(p), NEW s \in Seq(Byte), NEW order
  PROVE  Sound(WriteString(p, s, order).pkt)
PROOF
  <1> DEFINE parts  == IF order THEN <<Digits(Len(s)), s>>
                                ELSE <<s, Digits(Len(s))>>
             first  == write_data(p, parts[1], TRUE)
             second == write_data(first.pkt, parts[2], TRUE)
  <1>1. CASE Len(s) > StringLimit
    BY <1>1 DEF WriteString, Throw
  <1>2. CASE ~(Len(s) > StringLimit)
    <2>1. Digits(Len(s)) \in Seq(Byte)
      <3>1. Len(s) \in Nat /\ LenMod \div 2 \in Int
        BY Constants
      <3>2. Len(s) < LenMod
        BY <1>2, <3>1, Constants DEF StringLimit
      <3>3. QED
        BY <3>1, <3>2, DigitsBytes
    <2>2. parts[1] \in Seq(Byte) /\ parts[2] \in Seq(Byte)
      BY <2>1
    <2>3. Sound(first.pkt) /\ Writable(first.pkt)
      <3> HIDE DEF parts
      <3>1. QED
        BY <2>2, WriteDataSound
    <2>4. Sound(second.pkt)
      <3> HIDE DEF parts, first
      <3>1. QED
        BY <2>2, <2>3, WriteDataSound
    <2>5. WriteString(p, s, order).pkt \in {first.pkt, second.pkt}
      BY <1>2 DEF WriteString, Throw, Return
    <2>6. QED
      BY <2>3, <2>4, <2>5
  <1>3. QED
    BY <1>1, <1>2

\* Appending another packet's payload.
LEMMA WritePacketSound ==
  ASSUME NEW p, Sound(p), Writable(p), NEW source \in PacketType, NEW enforced
  PROVE  Sound(WritePacket(p, source, enforced).pkt)
PROOF
  <1> DEFINE r == IF empty(source) THEN Return(p, 0)
                  ELSE write_data(p, source.body, TRUE)
  <1>1. Sound(r.pkt)
    <2>1. source.body \in Seq(Byte)
      BY DEF PacketType
    <2>2. QED
      BY <2>1, WriteDataSound DEF Return
  <1>2. WritePacket(p, source, enforced).pkt = r.pkt
    BY DEF WritePacket, Throw
  <1>3. QED
    BY <1>1, <1>2

-----------------------------------------------------------------------------
(* The calls that move cursors.                                            *)

\* A read returns at most what it was asked for and moves the read cursor by
\* that; the bytes it takes out are bytes.
LEMMA ReadDataSound ==
  ASSUME NEW p, Sound(p), NEW size \in Nat, NEW whole, NEW beyond \in Byte
  PROVE  LET r == read_data(p, size, whole, beyond) IN
         /\ Sound(r.pkt)
         /\ r.ret \in 0 .. size
         /\ r.ret # 0 => \A i \in 1 .. r.ret : r.out[i] \in Byte
         /\ whole => r.ret \in {0, size}
PROOF
  <1> DEFINE r   == read_data(p, size, whole, beyond)
             off == p.read_pos - HeaderSize
             n   == IF p.read_pos <= real_size(p)
                      THEN Smaller(real_size(p) - p.read_pos, size)
                      ELSE size
  <1>1. /\ p \in PacketType /\ p.body \in Seq(Byte)
        /\ p.read_pos \in Nat /\ p.read_pos >= HeaderSize
    BY DEF Sound, PacketType
  <1>2. off \in Nat /\ real_size(p) \in Nat
    BY <1>1, Fields DEF HeaderSize
  <1>3. n \in 0 .. size
    BY <1>1, <1>2 DEF Smaller
  <1>4. CASE empty(p) \/ n = 0 \/ (whole /\ n < size)
    <2>1. r = Return(p, 0)
      BY <1>4 DEF read_data
    <2>2. QED
      BY <2>1 DEF Return
  <1>5. CASE ~(empty(p) \/ n = 0 \/ (whole /\ n < size))
    <2> DEFINE out == [i \in 1 .. n |-> IF off + i <= Len(p.body)
                                          THEN p.body[off + i] ELSE beyond]
               q   == [p EXCEPT !.read_pos = @ + n]
    <2>1. r = [Return(q, n) EXCEPT !.out = out]
      BY <1>5 DEF read_data
    <2>2. r.pkt = q /\ r.ret = n /\ r.out = out
      BY <2>1 DEF Return
    <2>3. Sound(q)
      <3> DEFINE c == p.read_pos + n
      <3>1. c \in Nat /\ c >= HeaderSize
        <4> HIDE DEF n
        <4>1. QED
          BY <1>1, <1>3 DEF HeaderSize
      <3>2. q = [p EXCEPT !.read_pos = c]
        OBVIOUS
      <3> HIDE DEF c
      <3>3. QED
        BY <3>1, <3>2, CursorSound
    <2>4. \A i \in 1 .. n : out[i] \in Byte
      <3>1. ASSUME NEW i \in 1 .. n PROVE out[i] \in Byte
        <4>1. i \in Nat /\ i >= 1
          <5> HIDE DEF n
          <5>1. QED
            BY <1>3, <3>1
        <4>2. CASE off + i <= Len(p.body)
          <5>1. off + i \in 1 .. Len(p.body)
            <6> HIDE DEF off, n
            <6>1. QED
              BY <1>1, <1>2, <4>1, <4>2
          <5>2. p.body[off + i] \in Byte
            <6> HIDE DEF off, n
            <6>1. QED
              BY <1>1, <5>1
          <5>3. out[i] = p.body[off + i]
            BY <4>2
          <5>4. QED
            BY <5>2, <5>3
        <4>3. CASE ~(off + i <= Len(p.body))
          BY <4>3
        <4>4. QED
          BY <4>2, <4>3
      <3>2. QED
        BY <3>1
    <2>5. whole => n = size
      <3> HIDE DEF n
      <3>1. QED
        BY <1>3, <1>5
    <2>6. QED
      <3> HIDE DEF n, q, out, r
      <3>1. QED
        BY <1>3, <2>2, <2>3, <2>4, <2>5 DEF r
  <1>6. QED
    BY <1>4, <1>5

\* operator>> and read of one value, and of a bool.
LEMMA ReadValueSound ==
  ASSUME NEW p, Sound(p), NEW size \in Nat, NEW enforced, NEW beyond \in Byte
  PROVE  /\ Sound(ReadValue(p, size, enforced, beyond).pkt)
         /\ Sound(ReadBool(p, beyond).pkt)
PROOF
  <1>1. ASSUME NEW n \in Nat, NEW e
        PROVE  Sound(ReadValue(p, n, e, beyond).pkt)
    <2> DEFINE r == read_data(p, n, TRUE, beyond)
    <2>1. Sound(r.pkt)
      BY ReadDataSound
    <2>2. ReadValue(p, n, e, beyond).pkt = r.pkt
      BY DEF ReadValue, Throw
    <2>3. QED
      BY <2>1, <2>2
  <1>2. ReadBool(p, beyond).pkt = ReadValue(p, 1, TRUE, beyond).pkt
    BY DEF ReadBool, Throw
  <1>3. QED
    BY <1>1, <1>2

\* A string: the length alone, or the length and the characters.
LEMMA ReadStringSound ==
  ASSUME NEW p, Sound(p), NEW enforced, NEW beyond \in Byte
  PROVE  Sound(ReadString(p, enforced, beyond).pkt)
PROOF
  <1> DEFINE length == read_data(p, 2, TRUE, beyond)
             size   == Signed(Number(length.out))
             chars  == read_data(length.pkt, size, TRUE, beyond)
             short  == [length EXCEPT !.ret = 0, !.threw = enforced]
  <1>1. /\ Sound(length.pkt) /\ length.ret \in {0, 2}
        /\ length.ret # 0 => \A i \in 1 .. length.ret : length.out[i] \in Byte
    BY ReadDataSound
  <1>2. short.pkt = length.pkt
        /\ [length EXCEPT !.ret = 0, !.threw = TRUE].pkt = length.pkt
    BY DEF read_data, Return
  <1>3. CASE length.ret = 0 \/ size < 0 \/ chars.ret = 0
    <2>1. ReadString(p, enforced, beyond).pkt = length.pkt
      BY <1>2, <1>3 DEF ReadString
    <2>2. QED
      BY <1>1, <2>1
  <1>4. CASE ~(length.ret = 0 \/ size < 0 \/ chars.ret = 0)
    <2>1. length.out[1] \in Byte /\ length.out[2] \in Byte
      <3>1. length.ret # 0
        BY <1>4
      <3>2. length.ret = 2 /\ \A i \in 1 .. 2 : length.out[i] \in Byte
        <4> HIDE DEF length
        <4>1. QED
          BY <1>1, <3>1
      <3>3. QED
        <4> HIDE DEF length
        <4>1. QED
          BY <3>2
    <2>2. size \in Nat
      <3>1. Number(length.out) \in Int
        <4> HIDE DEF length
        <4>1. QED
          BY <2>1, Constants DEF Number, Byte
      <3>2. size \in Int
        <4> HIDE DEF length
        <4>1. QED
          BY <3>1, Constants DEF Signed
      <3>3. ~(size < 0)
        BY <1>4
      <3>4. QED
        <4> HIDE DEF size
        <4>1. QED
          BY <3>2, <3>3
    <2>3. Sound(chars.pkt)
      <3> HIDE DEF length, size
      <3>1. QED
        BY <1>1, <2>2, ReadDataSound
    <2>4. ReadString(p, enforced, beyond).pkt
            = [chars EXCEPT !.ret = @ + 2, !.out = length.out \o @].pkt
      BY <1>4 DEF ReadString
    <2>5. [chars EXCEPT !.ret = @ + 2, !.out = length.out \o @].pkt = chars.pkt
      <3> HIDE DEF length, size
      <3>1. QED
        BY DEF read_data, Return
    <2>6. QED
      BY <2>3, <2>4, <2>5
  <1>5. QED
    BY <1>3, <1>4

\* A seek of either cursor or of both.
LEMMA SeekSound ==
  ASSUME NEW p, Sound(p), NEW type, NEW value \in Int,
         NEW cursor \in {"read", "write", "both"}
  PROVE  Sound(seek(p, cursor, type, value).pkt)
PROOF
  <1>1. ASSUME NEW q, Sound(q)
        PROVE  /\ Sound(SeekRead(q, type, value).pkt)
               /\ Sound(SeekWrite(q, type, value).pkt)
    <2>1. q \in PacketType /\ work_size(q) \in Nat
      BY <1>1, Fields DEF Sound
    <2>2. Sound(SeekRead(q, type, value).pkt)
      <3>1. CASE SeekRead(q, type, value).pkt = q
        BY <1>1, <3>1
      <3>2. ASSUME NEW c \in HeaderSize .. HeaderSize + work_size(q),
                   SeekRead(q, type, value).pkt = [q EXCEPT !.read_pos = c]
            PROVE  Sound(SeekRead(q, type, value).pkt)
        <4>1. c \in Nat /\ c >= HeaderSize
          BY <2>1 DEF HeaderSize
        <4>2. Sound([q EXCEPT !.read_pos = c])
          BY <1>1, <4>1, CursorSound
        <4>3. QED
          BY <3>2, <4>2
      <3>3. \/ SeekRead(q, type, value).pkt = q
            \/ \E c \in HeaderSize .. HeaderSize + work_size(q) :
                 SeekRead(q, type, value).pkt = [q EXCEPT !.read_pos = c]
        BY <2>1, SeekReadMoves
      <3>4. QED
        BY <3>1, <3>2, <3>3
    <2>3. Sound(SeekWrite(q, type, value).pkt)
      <3>1. CASE SeekWrite(q, type, value).pkt = q
        BY <1>1, <3>1
      <3>2. ASSUME NEW c \in HeaderSize .. HeaderSize + work_size(q),
                   SeekWrite(q, type, value).pkt = [q EXCEPT !.write_pos = c]
            PROVE  Sound(SeekWrite(q, type, value).pkt)
        <4>1. c \in Nat /\ c >= HeaderSize /\ c <= HeaderSize + work_size(q)
          BY <2>1 DEF HeaderSize
        <4>2. Sound([q EXCEPT !.write_pos = c])
          BY <1>1, <4>1, CursorSound
        <4>3. QED
          BY <3>2, <4>2
      <3>3. \/ SeekWrite(q, type, value).pkt = q
            \/ \E c \in HeaderSize .. HeaderSize + work_size(q) :
                 SeekWrite(q, type, value).pkt = [q EXCEPT !.write_pos = c]
        BY <2>1, SeekWriteMoves
      <3>4. QED
        BY <3>1, <3>2, <3>3
    <2>4. QED
      BY <2>2, <2>3
  <1> DEFINE first == SeekRead(p, type, value)
  <1>2. Sound(first.pkt)
    BY <1>1
  <1>3. Sound(SeekWrite(first.pkt, type, value).pkt)
    <2> HIDE DEF first
    <2>1. QED
      BY <1>1, <1>2
  <1>4. seek(p, cursor, type, value).pkt
          \in {first.pkt, SeekWrite(p, type, value).pkt,
               SeekWrite(first.pkt, type, value).pkt}
    BY DEF seek
  <1>5. QED
    <2> HIDE DEF first
    <2>1. QED
      BY <1>1, <1>2, <1>3, <1>4

\* A packet that was just made, and one that was just moved away.
LEMMA NewPacketSound == Sound(NewPacket)
PROOF
  <1>1. NewPacket \in PacketType
    <2>1. 0 \in 0 .. LenMod - 1
      BY Constants
    <2>2. QED
      BY <2>1 DEF NewPacket, PacketType, HeaderSize
  <1>2. real_size(NewPacket) = HeaderSize /\ work_size(NewPacket) = 0
    BY DEF NewPacket, real_size, work_size, NoHeader, HeaderSize
  <1>3. QED
    BY <1>1, <1>2, Constants DEF Sound, NewPacket, HasData, NoHeader, HeaderSize

LEMMA MovedFromSound ==
  ASSUME NEW p, Sound(p)
  PROVE  Sound(MovedFrom(p))
PROOF
  <1> DEFINE q == MovedFrom(p)
  <1>1. /\ q \in PacketType
        /\ q.header = NoHeader /\ q.body = << >>
        /\ q.read_pos = p.read_pos /\ q.write_pos = p.write_pos
    <2> DEFINE Kept(x) ==
                 /\ x \in PacketType
                 /\ x.header = NoHeader /\ x.body = << >>
                 /\ x.read_pos = p.read_pos /\ x.write_pos = p.write_pos
               bare == [p EXCEPT !.header = NoHeader, !.body = << >>]
               sent == [bare EXCEPT !.send_pos = -1]
               gone == [sent EXCEPT !.recv_pos = -1]
    <2>1. Kept(bare)
      <3>1. NoHeader \in 0 .. LenMod - 1 \cup {NoHeader}
        OBVIOUS
      <3>2. << >> \in Seq(Byte)
        OBVIOUS
      <3>3. p \in PacketType
        BY DEF Sound
      <3>4. QED
        BY <3>1, <3>2, <3>3 DEF PacketType
    <2>2. Kept(sent)
      <3> HIDE DEF bare
      <3>1. QED
        BY <2>1 DEF PacketType
    <2>3. Kept(gone)
      <3> HIDE DEF sent
      <3>1. QED
        BY <2>2 DEF PacketType
    <2>4. Kept([gone EXCEPT !.recv_target = -1])
      <3> HIDE DEF gone
      <3>1. QED
        BY <2>3 DEF PacketType
    <2>5. q = [gone EXCEPT !.recv_target = -1]
      BY DEF MovedFrom, send_reset, recv_reset
    <2>6. QED
      <3> HIDE DEF gone, q
      <3>1. QED
        BY <2>4, <2>5
  <1>2. ~HasData(q) /\ real_size(q) = 0
    BY <1>1 DEF HasData, real_size
  <1>3. QED
    <2> HIDE DEF q
    <2>1. QED
      BY <1>1, <1>2, Constants DEF Sound, q

\* What clear does with a sound packet.
LEMMA ClearResult ==
  ASSUME NEW p, Sound(p)
  PROVE  LET r == clear(p) IN
         /\ ~r.threw
         /\ empty(r.pkt) /\ verify_size(r.pkt)
         /\ r.pkt.read_pos = HeaderSize /\ r.pkt.write_pos = HeaderSize
PROOF
  <1> DEFINE front   == [p EXCEPT !.read_pos = HeaderSize, !.write_pos = HeaderSize]
             cut     == [front EXCEPT !.header = Grown(@), !.body = Resized(@, 0)]
             written == [cut EXCEPT !.header = work_size(cut) % LenMod,
                                    !.write_pos = HeaderSize]
             done    == [written EXCEPT !.write_pos = HeaderSize + 0]
  <1>1. p \in PacketType
    BY DEF Sound
  <1>2. /\ front \in PacketType /\ front.header = p.header
        /\ front.read_pos = HeaderSize /\ front.write_pos = HeaderSize
    BY <1>1 DEF PacketType, HeaderSize
  <1>3. /\ Grown(p.header) \in 0 .. LenMod - 1 \cup {NoHeader}
        /\ Grown(p.header) # NoHeader
    BY <1>1, Constants DEF Grown, NoHeader, PacketType
  <1>4. Resized(front.body, 0) \in Seq(Byte) /\ Len(Resized(front.body, 0)) = 0
    <2>1. front.body \in Seq(Byte)
      BY <1>2 DEF PacketType
    <2>2. QED
      BY <2>1, ResizedBytes
  <1>5. /\ cut \in PacketType /\ cut.header # NoHeader /\ Len(cut.body) = 0
        /\ cut.read_pos = HeaderSize /\ cut.write_pos = HeaderSize
    <2> HIDE DEF front
    <2>1. QED
      BY <1>2, <1>3, <1>4 DEF PacketType
  <1>6. work_size(cut) = 0 /\ real_size(cut) = HeaderSize /\ ~full(cut)
    <2> HIDE DEF cut
    <2>1. QED
      BY <1>5, Constants DEF work_size, real_size, full, HeaderSize
  <1>7. 0 % LenMod = 0
    BY SmallLength, Constants
  <1>8. /\ written \in PacketType /\ written.header = 0 /\ Len(written.body) = 0
        /\ written.read_pos = HeaderSize /\ written.write_pos = HeaderSize
    <2>1. 0 \in 0 .. LenMod - 1 \cup {NoHeader}
      BY Constants
    <2> HIDE DEF cut
    <2>2. QED
      BY <1>5, <1>6, <1>7, <2>1 DEF PacketType, HeaderSize
  <1>9. SeekAllowed(written, "from_start", written.write_pos, 0)
        /\ SeekPosition(written, "from_start", written.write_pos, 0) = 0
    <2> HIDE DEF written
    <2>1. QED
      BY <1>8 DEF SeekAllowed, SeekPosition, work_size
  <1>10. SeekWrite(written, "from_start", 0) = Return(done, 0)
    <2> HIDE DEF written
    <2>1. QED
      BY <1>9 DEF SeekWrite
  <1>11. update_size(cut) = SeekWrite(written, "from_start", 0)
    <2>1. cut.write_pos - HeaderSize = 0
      <3> HIDE DEF cut
      <3>1. QED
        BY <1>5 DEF HeaderSize
    <2> HIDE DEF cut
    <2>2. QED
      BY <1>6, <2>1 DEF update_size
  <1>12. resize(front, HeaderSize) = update_size(cut)
    <2>1. Larger(HeaderSize, Smaller(DatagramSize, HeaderSize)) - HeaderSize = 0
      BY Constants DEF Larger, Smaller, HeaderSize
    <2> HIDE DEF front
    <2>2. QED
      BY <2>1 DEF resize
  <1>13. clear(p) = Return(done, 0)
    BY <1>10, <1>11, <1>12 DEF clear
  <1>14. /\ done.header = 0 /\ Len(done.body) = 0
         /\ done.read_pos = HeaderSize /\ done.write_pos = HeaderSize
    <2> HIDE DEF written
    <2>1. QED
      BY <1>8 DEF PacketType, HeaderSize
  <1>15. empty(done) /\ verify_size(done)
    <2> HIDE DEF done
    <2>1. QED
      BY <1>14 DEF empty, verify_size, work_size, NoHeader
  <1>16. QED
    <2> HIDE DEF done
    <2>1. QED
      BY <1>13, <1>14, <1>15 DEF Return

-----------------------------------------------------------------------------
(* What calls do exactly.                                                  *)

\* A size is written as a header.
LEMMA SizeIsHeader ==
  ASSUME NEW n \in Nat, HeaderSize + n <= DatagramSize
  PROVE  /\ n < LenMod /\ n % LenMod = n
         /\ n \in 0 .. LenMod - 1 \cup {NoHeader} /\ n # NoHeader
PROOF
  <1>1. n < LenMod
    BY Constants DEF HeaderSize
  <1>2. n % LenMod = n
    BY <1>1, SmallLength
  <1>3. QED
    BY <1>1, <1>2, Constants DEF NoHeader

\* update_size writes the header and nothing else when the packet is not full
\* and its write cursor is in the data.
LEMMA UpdateSizeExact ==
  ASSUME NEW p \in PacketType, HasData(p), real_size(p) < DatagramSize,
         p.write_pos \in HeaderSize .. real_size(p)
  PROVE  update_size(p) = Return([p EXCEPT !.header = work_size(p)], 0)
PROOF
  <1> DEFINE n       == work_size(p)
             v       == p.write_pos - HeaderSize
             written == [p EXCEPT !.header = n, !.write_pos = HeaderSize]
  <1>1. n \in Nat /\ real_size(p) = HeaderSize + n /\ p.write_pos \in Nat
    BY Fields
  <1>2. n % LenMod = n /\ n \in 0 .. LenMod - 1 \cup {NoHeader}
    BY <1>1, SizeIsHeader, Constants DEF HeaderSize
  <1>3. v \in 0 .. n /\ HeaderSize + v = p.write_pos
    BY <1>1 DEF HeaderSize
  <1>4. update_size(p) = SeekWrite(written, "from_start", v)
    <2>1. ~full(p)
      BY <1>1, Constants DEF full, HeaderSize
    <2>2. QED
      BY <1>2, <2>1 DEF update_size
  <1>5. /\ written \in PacketType /\ written.body = p.body
        /\ written.write_pos = HeaderSize
    <2> HIDE DEF n
    <2>1. QED
      BY <1>2 DEF PacketType, HeaderSize
  <1>6. work_size(written) = n
    BY <1>5 DEF work_size
  <1>7. /\ SeekAllowed(written, "from_start", written.write_pos, v)
        /\ SeekPosition(written, "from_start", written.write_pos, v) = v
    <2> HIDE DEF written, v
    <2>1. SeekPosition(written, "from_start", written.write_pos, v) = v
      BY DEF SeekPosition
    <2>2. v >= 0 /\ v \in 0 .. work_size(written)
      BY <1>1, <1>3, <1>6
    <2>3. QED
      BY <2>1, <2>2 DEF SeekAllowed
  <1>8. SeekWrite(written, "from_start", v)
          = Return([written EXCEPT !.write_pos = HeaderSize + v], 0)
    <2> HIDE DEF written, v
    <2>1. QED
      BY <1>7 DEF SeekWrite
  <1>9. [written EXCEPT !.write_pos = p.write_pos] = [p EXCEPT !.header = n]
    <2> HIDE DEF n
    <2>1. QED
      BY DEF PacketType
  <1>10. QED
    <2> HIDE DEF written, v, n
    <2>1. QED
      BY <1>3, <1>4, <1>8, <1>9 DEF n

\* It throws on a full packet.
LEMMA UpdateSizeFull ==
  ASSUME NEW p, full(p)
  PROVE  update_size(p) = Throw([p EXCEPT !.write_pos = 0])
BY DEF update_size

\* The cursors of a connection and the read cursor do not change.
SameElsewhere(p, q) ==
  /\ q.read_pos = p.read_pos
  /\ q.send_pos = p.send_pos /\ q.recv_pos = p.recv_pos
  /\ q.recv_target = p.recv_target

\* update_size changes the header and the write cursor alone.
LEMMA UpdateSizeKeeps ==
  ASSUME NEW p, Sizable(p)
  PROVE  SameElsewhere(p, update_size(p).pkt) /\ update_size(p).pkt.body = p.body
PROOF
  <1> DEFINE q == update_size(p).pkt
             n == work_size(p)
             written == [p EXCEPT !.header = n % LenMod, !.write_pos = HeaderSize]
  <1>1. p \in PacketType /\ n \in Nat /\ HeaderSize + n <= DatagramSize
    BY Fields DEF Sizable
  <1>2. CASE full(p)
    <2>1. q = [p EXCEPT !.write_pos = 0]
      BY <1>2, UpdateSizeFull DEF Throw
    <2>2. QED
      BY <1>1, <2>1 DEF SameElsewhere, PacketType
  <1>3. CASE ~full(p)
    <2>1. q = SeekWrite(written, "from_start", p.write_pos - HeaderSize).pkt
      BY <1>3 DEF update_size
    <2>2. n % LenMod \in 0 .. LenMod - 1 \cup {NoHeader}
      BY <1>1, SizeIsHeader
    <2>3. /\ written \in PacketType /\ written.body = p.body
          /\ SameElsewhere(p, written)
      <3> HIDE DEF n
      <3>1. QED
        BY <1>1, <2>2 DEF SameElsewhere, PacketType, HeaderSize
    <2>4. p.write_pos - HeaderSize \in Int
      BY <1>1, Fields DEF HeaderSize
    <2> HIDE DEF written, q
    <2>5. \/ q = written
          \/ \E w \in HeaderSize .. HeaderSize + work_size(written) :
               q = [written EXCEPT !.write_pos = w]
      BY <2>1, <2>3, <2>4, SeekWriteMoves
    <2>6. QED
      BY <2>3, <2>5 DEF SameElsewhere, PacketType, q
  <1>4. QED
    BY <1>2, <1>3

\* resize cuts or fills the payload, and moves neither the read cursor nor the
\* positions of a connection.  It throws if it makes the packet full.
LEMMA ResizeExact ==
  ASSUME NEW p, Sound(p), NEW size \in Nat
  PROVE  LET r == resize(p, size)
             n == Larger(HeaderSize, Smaller(DatagramSize, size)) - HeaderSize
         IN  /\ n \in Nat
             /\ r.pkt.body = Resized(p.body, n)
             /\ work_size(r.pkt) = n
             /\ SameElsewhere(p, r.pkt)
             /\ ~r.threw => HeaderSize + n < DatagramSize
PROOF
  <1> DEFINE r == resize(p, size)
             n == Larger(HeaderSize, Smaller(DatagramSize, size)) - HeaderSize
             q == [p EXCEPT !.header = Grown(@), !.body = Resized(@, n)]
  <1>1. p \in PacketType /\ p.body \in Seq(Byte)
    BY DEF Sound, PacketType
  <1>2. n \in Nat /\ HeaderSize + n <= DatagramSize
    BY Constants DEF Larger, Smaller, HeaderSize
  <1>3. Resized(p.body, n) \in Seq(Byte) /\ Len(Resized(p.body, n)) = n
    <2> HIDE DEF n
    <2>1. QED
      BY <1>1, <1>2, ResizedBytes
  <1>4. Grown(p.header) \in 0 .. LenMod - 1 \cup {NoHeader}
        /\ Grown(p.header) # NoHeader
    BY <1>1, Constants DEF Grown, NoHeader, PacketType
  <1>5. /\ q \in PacketType
        /\ q.header = Grown(p.header) /\ q.body = Resized(p.body, n)
        /\ q.write_pos = p.write_pos /\ SameElsewhere(p, q)
    <2> HIDE DEF n
    <2>1. QED
      BY <1>1, <1>3, <1>4 DEF PacketType, SameElsewhere
  <1>6. HasData(q) /\ work_size(q) = n /\ real_size(q) = HeaderSize + n
    <2> HIDE DEF q, n
    <2>1. QED
      BY <1>3, <1>4, <1>5 DEF HasData, real_size, work_size
  <1>7. Sizable(q)
    <2> HIDE DEF q, n
    <2>1. QED
      BY <1>2, <1>5, <1>6 DEF Sizable, Sound, SameElsewhere
  <1>8. r = update_size(q)
    BY DEF resize
  <1>9. r.pkt.body = q.body /\ SameElsewhere(q, r.pkt) /\ work_size(r.pkt) = n
    <2> HIDE DEF q, n, r
    <2>1. QED
      BY <1>6, <1>7, <1>8, UpdateSizeKeeps, UpdateSizeSound
  <1>10. ~r.threw => HeaderSize + n < DatagramSize
    <2>1. SUFFICES ASSUME HeaderSize + n = DatagramSize PROVE r.threw
      <3> HIDE DEF n, r
      <3>1. QED
        BY <1>2, <2>1, Constants DEF HeaderSize
    <2>2. full(q)
      <3> HIDE DEF n, q
      <3>1. QED
        BY <1>6, <2>1 DEF full
    <2> HIDE DEF q, n, r
    <2>3. QED
      BY <1>8, <2>2, UpdateSizeFull DEF Throw
  <1>11. QED
    <2> HIDE DEF q
    <2>1. r.pkt.body = Resized(p.body, n) /\ SameElsewhere(p, r.pkt)
      <3> HIDE DEF r, n
      <3>1. QED
        BY <1>5, <1>9 DEF SameElsewhere
    <2>2. QED
      BY <1>2, <1>9, <1>10, <2>1

\* A write refuses: the packet is full, or all or nothing is nothing.
Refuses(p, d, whole) ==
  full(p) \/ (whole /\ p.write_pos + Len(d) > DatagramSize)

\* A write of n bytes that make the payload body ends with r: the cursor is
\* behind them and the header is right, unless the packet is full now.  Then it
\* throws, with the header as it was and the cursor at 0.
Stores(p, body, n, r) ==
  \/ /\ HeaderSize + Len(body) < DatagramSize
     /\ r = Return([p EXCEPT !.header    = Len(body),
                             !.body      = body,
                             !.write_pos = @ + n], n)
  \/ /\ HeaderSize + Len(body) = DatagramSize
     /\ r = Throw([p EXCEPT !.header    = Grown(@),
                            !.body      = body,
                            !.write_pos = 0])

\* It stores what it is given behind the write cursor: as much of it as there
\* is room for, or all.
Places(p, d, whole, body, n) ==
  /\ p.write_pos - HeaderSize \in Nat
  /\ n = Smaller(DatagramSize - p.write_pos, Len(d))
  /\ whole => n = Len(d)
  /\ body = Overwritten(p.body, p.write_pos - HeaderSize, SubSeq(d, 1, n))
  /\ Len(body) = Larger(Len(p.body), p.write_pos - HeaderSize + n)

\* A write refuses, or it stores.
LEMMA WriteDataCases ==
  ASSUME NEW p, Sound(p), Writable(p), NEW d \in Seq(Byte), NEW whole \in BOOLEAN,
         NEW r, r = write_data(p, d, whole)
  PROVE  \/ Refuses(p, d, whole) /\ r = Return(p, 0)
         \/ /\ ~Refuses(p, d, whole)
            /\ \E n \in 0 .. Len(d), body \in Seq(Byte) :
                 Places(p, d, whole, body, n) /\ Stores(p, body, n, r)
PROOF
  <1> DEFINE n    == Smaller(DatagramSize - p.write_pos, Len(d))
             off  == p.write_pos - HeaderSize
             part == SubSeq(d, 1, n)
             body == Overwritten(p.body, off, part)
             size == HeaderSize + Len(body)
             w    == p.write_pos + n
             h    == Grown(p.header)
             q    == [p EXCEPT !.header = h, !.body = body, !.write_pos = w]
  <1>1. CASE Refuses(p, d, whole)
    BY <1>1 DEF write_data, Refuses
  <1>2. CASE ~Refuses(p, d, whole)
    <2>1. /\ p \in PacketType /\ p.body \in Seq(Byte) /\ Len(p.body) \in Nat
          /\ p.write_pos \in Nat /\ p.write_pos >= HeaderSize
          /\ p.write_pos <= DatagramSize /\ ~full(p)
          /\ HeaderSize + Len(p.body) <= DatagramSize
      <3>1. HeaderSize + Len(p.body) <= DatagramSize
        <4>1. CASE HasData(p)
          BY <4>1 DEF Sound, HasData, real_size
        <4>2. CASE ~HasData(p)
          BY <4>2, Constants DEF Sound, HeaderSize
        <4>3. QED
          BY <4>1, <4>2
      <3>2. QED
        BY <1>2, <3>1 DEF Sound, PacketType, Writable, Refuses
    <2>2. off \in Nat /\ Len(d) \in Nat /\ HeaderSize + off = p.write_pos
      BY <2>1 DEF HeaderSize
    <2>3. n \in Nat /\ n <= Len(d) /\ p.write_pos + n <= DatagramSize
      BY <2>1, <2>2, Constants DEF Smaller
    <2>4. whole => n = Len(d)
      BY <1>2, <2>1, <2>2, Constants DEF Smaller, Refuses
    <2>5. part \in Seq(Byte) /\ Len(part) = n
      <3> HIDE DEF n
      <3>1. QED
        BY <2>2, <2>3
    <2>6. body \in Seq(Byte) /\ Len(body) = Larger(Len(p.body), off + n)
      <3>1. body \in Seq(Byte) /\ Len(body) = Larger(Len(p.body), off + Len(part))
        <4> HIDE DEF off, part
        <4>1. QED
          BY <2>1, <2>2, <2>5, OverwrittenBytes
      <3> HIDE DEF body, off, part, n
      <3>2. QED
        BY <2>5, <3>1
    <2>7. h \in 0 .. LenMod - 1 \cup {NoHeader} /\ h # NoHeader
      BY <2>1, Constants DEF Grown, NoHeader, PacketType
    <2>8. Len(body) \in Nat /\ size <= DatagramSize /\ w \in HeaderSize .. size
      <3> HIDE DEF n, off, body
      <3>1. Len(body) \in Nat
        BY <2>6
      <3>2. /\ Len(p.body) <= Len(body) /\ off + n <= Len(body)
            /\ Len(body) \in {Len(p.body), off + n}
        BY <2>1, <2>2, <2>3, <2>6 DEF Larger
      <3>3. Len(p.body) \in Nat /\ HeaderSize + Len(p.body) <= DatagramSize
            /\ off \in Nat /\ HeaderSize + off = p.write_pos
            /\ n \in Nat /\ HeaderSize + (off + n) <= DatagramSize
        BY <2>1, <2>2, <2>3 DEF HeaderSize
      <3> DEFINE l == Len(p.body)
                 m == Len(body)
      <3> HIDE DEF l, m
      <3>4. m \in {l, off + n} /\ off + n <= m
        BY <3>2 DEF l, m
      <3>5. size <= DatagramSize
        BY <3>1, <3>3, <3>4 DEF l, m, HeaderSize
      <3>6. p.write_pos + n = HeaderSize + (off + n)
        BY <2>1, <3>3 DEF HeaderSize
      <3>7. w \in HeaderSize .. size
        BY <3>1, <3>3, <3>4, <3>6 DEF m, HeaderSize
      <3>8. QED
        BY <3>1, <3>5, <3>7
    <2>9. /\ q \in PacketType /\ q.header = h /\ q.body = body
          /\ q.read_pos = p.read_pos /\ q.write_pos = w
      <3>1. w \in Nat
        <4> HIDE DEF n
        <4>1. QED
          BY <2>1, <2>3
      <3> HIDE DEF body, w, h
      <3>2. QED
        BY <2>1, <2>6, <2>7, <3>1 DEF PacketType
    <2>10. HasData(q) /\ real_size(q) = size /\ work_size(q) = Len(body)
      <3> HIDE DEF q, h, body
      <3>1. QED
        BY <2>7, <2>9 DEF HasData, real_size, work_size
    <2>11. r = IF update_size(q).threw THEN update_size(q)
               ELSE Return(update_size(q).pkt, n)
      <3>1. p.write_pos # 0
        BY <2>1 DEF HeaderSize
      <3>2. q = AtCursor(p, part)
        <4> HIDE DEF n, part
        <4>1. QED
          BY <2>5 DEF AtCursor
      <3> HIDE DEF q
      <3>3. QED
        BY <1>2, <3>1, <3>2 DEF write_data, Refuses
    <2>12. ASSUME size < DatagramSize PROVE Stores(p, body, n, r)
      <3>1. update_size(q) = Return([q EXCEPT !.header = Len(body)], 0)
        <4> HIDE DEF q, body, w
        <4>1. QED
          BY <2>8, <2>9, <2>10, <2>12, UpdateSizeExact
      <3>2. r = Return([q EXCEPT !.header = Len(body)], n)
        <4> HIDE DEF q, n, body
        <4>1. QED
          BY <2>11, <3>1 DEF Return
      <3>3. [q EXCEPT !.header = Len(body)]
              = [p EXCEPT !.header = Len(body), !.body = body, !.write_pos = @ + n]
        <4> HIDE DEF body, n, h
        <4>1. QED
          BY <2>1 DEF PacketType
      <3>4. QED
        <4> HIDE DEF q, n, body
        <4>1. QED
          BY <2>12, <3>2, <3>3 DEF Stores
    <2>13. ASSUME size = DatagramSize PROVE Stores(p, body, n, r)
      <3>1. full(q)
        <4> HIDE DEF q, body
        <4>1. QED
          BY <2>10, <2>13 DEF full
      <3>2. r = Throw([q EXCEPT !.write_pos = 0])
        <4> HIDE DEF q, n
        <4>1. update_size(q) = Throw([q EXCEPT !.write_pos = 0])
          BY <3>1, UpdateSizeFull
        <4>2. Throw([q EXCEPT !.write_pos = 0]).threw
          BY DEF Throw
        <4>3. QED
          BY <2>11, <4>1, <4>2
      <3>3. [q EXCEPT !.write_pos = 0]
              = [p EXCEPT !.header = Grown(@), !.body = body, !.write_pos = 0]
        <4> HIDE DEF body, n
        <4>1. QED
          BY <2>1 DEF PacketType
      <3>4. QED
        <4> HIDE DEF q, n, body
        <4>1. QED
          BY <2>13, <3>2, <3>3 DEF Stores
    <2>14. Stores(p, body, n, r)
      <3> HIDE DEF body, n
      <3>1. size < DatagramSize \/ size = DatagramSize
        BY <2>8, Constants DEF HeaderSize
      <3>2. QED
        BY <2>12, <2>13, <3>1
    <2>15. Places(p, d, whole, body, n)
      <3>1. body = Overwritten(p.body, p.write_pos - HeaderSize, SubSeq(d, 1, n))
        OBVIOUS
      <3> HIDE DEF body
      <3>2. QED
        BY <2>2, <2>4, <2>6, <3>1 DEF Places
    <2>16. n \in 0 .. Len(d) /\ body \in Seq(Byte)
      <3> HIDE DEF body, n
      <3>1. QED
        BY <2>2, <2>3, <2>6
    <2>17. QED
      <3> HIDE DEF body, n
      <3>1. QED
        BY <1>2, <2>14, <2>15, <2>16
  <1>3. QED
    BY <1>1, <1>2

\* memcpy over the whole payload, or more of it, leaves what was copied.
LEMMA OverwrittenAll ==
  ASSUME NEW body \in Seq(Byte), NEW d \in Seq(Byte), Len(body) <= Len(d)
  PROVE  Overwritten(body, 0, d) = d
PROOF
  <1>1. Larger(Len(body), 0 + Len(d)) = Len(d)
    BY DEF Larger
  <1>2. Overwritten(body, 0, d) = [i \in 1 .. Len(d) |-> d[i]]
    BY <1>1 DEF Overwritten
  <1>3. QED
    BY <1>2

\* memcpy changes no byte in front of the offset.
LEMMA OverwrittenKeeps ==
  ASSUME NEW body \in Seq(Byte), NEW off \in Nat, NEW d \in Seq(Byte)
  PROVE  /\ Len(Overwritten(body, off, d)) >= Len(body)
         /\ \A i \in 1 .. Len(body) : i <= off => Overwritten(body, off, d)[i] = body[i]
PROOF
  <1>1. Len(Overwritten(body, off, d)) >= Len(body)
    BY OverwrittenBytes DEF Larger
  <1>2. ASSUME NEW i \in 1 .. Len(body), i <= off
        PROVE  Overwritten(body, off, d)[i] = body[i]
    <2>1. i \in 1 .. Larger(Len(body), off + Len(d))
      BY DEF Larger
    <2>2. QED
      BY <1>2, <2>1 DEF Overwritten
  <1>3. QED
    BY <1>1, <1>2

\* A payload that does not fill a packet makes one, header and all.
LEMMA FilledPacket ==
  ASSUME NEW m \in Seq(Byte), HeaderSize + Len(m) < DatagramSize,
         NEW q, q = write_data(NewPacket, m, TRUE).pkt
  PROVE  /\ q = [NewPacket EXCEPT !.header    = Len(m),
                                  !.body      = m,
                                  !.write_pos = HeaderSize + Len(m)]
         /\ Sound(q) /\ HasData(q)
PROOF
  <1> DEFINE r == write_data(NewPacket, m, TRUE)
  <1>1. Sound(NewPacket) /\ NewPacket.header = 0 /\ NewPacket.body = << >>
        /\ NewPacket.write_pos = HeaderSize
    BY NewPacketSound DEF NewPacket
  <1>2. Writable(NewPacket)
    BY <1>1 DEF Writable, HeaderSize
  <1>3. ~Refuses(NewPacket, m, TRUE)
    <2>1. real_size(NewPacket) = HeaderSize
      BY <1>1 DEF real_size, NoHeader, HeaderSize
    <2>2. QED
      BY <1>1, <2>1, Constants DEF Refuses, full, HeaderSize
  <1>4. PICK n \in 0 .. Len(m), body \in Seq(Byte) :
          Places(NewPacket, m, TRUE, body, n) /\ Stores(NewPacket, body, n, r)
    <2> HIDE DEF r
    <2>1. QED
      BY <1>1, <1>2, <1>3, WriteDataCases DEF r
  <1>5. n = Len(m) /\ body = Overwritten(<< >>, 0, SubSeq(m, 1, n))
    BY <1>1, <1>4 DEF Places, HeaderSize
  <1>6. body = m
    <2>1. SubSeq(m, 1, Len(m)) = m
      OBVIOUS
    <2>2. << >> \in Seq(Byte) /\ Len(<< >>) <= Len(m)
      OBVIOUS
    <2>3. Overwritten(<< >>, 0, m) = m
      BY <2>2, OverwrittenAll
    <2>4. QED
      BY <1>5, <2>1, <2>3
  <1>7. r = Return([NewPacket EXCEPT !.header    = Len(m),
                                     !.body      = m,
                                     !.write_pos = @ + Len(m)], Len(m))
    <2> HIDE DEF r
    <2>1. Stores(NewPacket, m, Len(m), r)
      BY <1>4, <1>5, <1>6
    <2>2. HeaderSize + Len(m) # DatagramSize
      BY Constants DEF HeaderSize
    <2>3. QED
      BY <2>1, <2>2 DEF Stores
  <1>8. /\ q = [NewPacket EXCEPT !.header    = Len(m),
                                 !.body      = m,
                                 !.write_pos = HeaderSize + Len(m)]
        /\ q.header = Len(m)
    <2>1. q = [NewPacket EXCEPT !.header    = Len(m),
                                !.body      = m,
                                !.write_pos = NewPacket.write_pos + Len(m)]
      <3> HIDE DEF r
      <3>1. q = r.pkt
        BY DEF r
      <3>2. QED
        BY <1>7, <3>1 DEF Return
    <2>2. NewPacket.write_pos = HeaderSize
      BY <1>1
    <2>3. QED
      BY <2>1, <2>2 DEF NewPacket
  <1>9. Sound(q)
    BY <1>1, <1>2, WriteDataSound
  <1>10. HasData(q)
    <2>1. q.header = Len(m)
      BY <1>8, Zenon
    <2>2. Len(m) # -1
      OBVIOUS
    <2>3. QED
      BY <2>1, <2>2, Zenon DEF HasData, NoHeader
  <1>11. QED
    BY <1>8, <1>9, <1>10

-----------------------------------------------------------------------------
(* What is put on the wire.                                                *)

\* Bytes behind bytes.
LEMMA Concatenated ==
  ASSUME NEW a \in Seq(Byte), NEW b \in Seq(Byte)
  PROVE  a \o b \in Seq(Byte) /\ Len(a \o b) = Len(a) + Len(b)
OBVIOUS

\* A packet with data is on the wire as long as it is.
LEMMA FlatBytes ==
  ASSUME NEW p \in PacketType, HasData(p)
  PROVE  /\ Flat(p) \in Seq(Byte)
         /\ Len(Flat(p)) = real_size(p)
PROOF
  <1>1. p.header \in Nat /\ p.header < LenMod /\ p.body \in Seq(Byte)
    BY Constants DEF HasData, PacketType, NoHeader
  <1>2. Digits(p.header) \in Seq(Byte) /\ Len(Digits(p.header)) = 2
    BY <1>1, DigitsBytes
  <1>3. Flat(p) = Digits(p.header) \o p.body
    BY DEF Flat
  <1>4. real_size(p) = 2 + Len(p.body)
    BY Fields DEF HeaderSize, work_size
  <1>5. QED
    <2> DEFINE a == Digits(p.header)
               b == p.body
    <2> HIDE DEF a, b
    <2>1. a \in Seq(Byte) /\ b \in Seq(Byte) /\ Len(a) = 2
      BY <1>1, <1>2 DEF a, b
    <2>2. a \o b \in Seq(Byte) /\ Len(a \o b) = 2 + Len(b)
      BY <2>1, Concatenated
    <2>3. QED
      BY <1>3, <1>4, <2>2 DEF a, b

-----------------------------------------------------------------------------
(* What a connection does to a packet.                                     *)

\* A packet that differs in its payload's bytes, not in its length, and in the
\* positions of a connection, is as sound as the other one.
LEMMA LikeSound ==
  ASSUME NEW p, Sound(p), NEW q \in PacketType,
         q.header = p.header, Len(q.body) = Len(p.body),
         q.read_pos = p.read_pos, q.write_pos = p.write_pos
  PROVE  Sound(q) /\ work_size(q) = work_size(p) /\ real_size(q) = real_size(p)
PROOF
  <1>1. /\ work_size(q) = work_size(p) /\ real_size(q) = real_size(p)
        /\ HasData(q) <=> HasData(p)
        /\ full(q) <=> full(p)
    BY DEF work_size, real_size, HasData, full
  <1>2. ~HasData(q) => q.body = << >>
    <2>1. SUFFICES ASSUME ~HasData(q) PROVE q.body = << >>
      OBVIOUS
    <2>2. Len(q.body) = 0
      BY <1>1, <2>1 DEF Sound
    <2>3. q.body \in Seq(Byte)
      BY DEF PacketType
    <2>4. QED
      BY <2>2, <2>3
  <1>3. QED
    BY <1>1, <1>2 DEF Sound

\* The positions of a connection have no part in soundness.
LEMMA PositionsSound ==
  ASSUME NEW p, Sound(p), NEW pos \in Int, NEW target \in Int, NEW q,
         q = [p EXCEPT !.recv_pos = pos, !.recv_target = target]
  PROVE  /\ Sound(q) /\ q.recv_pos = pos /\ q.recv_target = target
         /\ q.header = p.header /\ q.body = p.body
         /\ work_size(q) = work_size(p) /\ real_size(q) = real_size(p)
PROOF
  <1>1. p \in PacketType
    BY DEF Sound
  <1>2. /\ q \in PacketType /\ q.header = p.header /\ q.body = p.body
        /\ q.read_pos = p.read_pos /\ q.write_pos = p.write_pos
        /\ q.recv_pos = pos /\ q.recv_target = target
    BY <1>1 DEF PacketType
  <1>3. QED
    BY <1>2, LikeSound

\* clear leaves the positions of a connection as they are.
LEMMA ClearKeeps ==
  ASSUME NEW p, Sound(p)
  PROVE  LET q == clear(p).pkt IN
         /\ q.recv_pos = p.recv_pos /\ q.recv_target = p.recv_target
         /\ q.send_pos = p.send_pos
PROOF
  <1> DEFINE f == [p EXCEPT !.read_pos = HeaderSize]
             r == [f EXCEPT !.write_pos = HeaderSize]
  <1>1. p \in PacketType /\ HeaderSize \in Nat /\ HeaderSize >= HeaderSize
    BY DEF Sound, HeaderSize
  <1>2. Sound(f) /\ f \in PacketType
    BY <1>1, CursorSound DEF Sound
  <1>3. work_size(f) \in Nat /\ HeaderSize <= HeaderSize + work_size(f)
    <2>1. work_size(f) \in Nat
      BY <1>2, Fields
    <2>2. QED
      BY <2>1 DEF HeaderSize
  <1>4. Sound(r)
    <2> HIDE DEF f
    <2>1. QED
      BY <1>1, <1>2, <1>3, CursorSound
  <1>5. /\ r.recv_pos = p.recv_pos /\ r.recv_target = p.recv_target
        /\ r.send_pos = p.send_pos
    BY <1>1 DEF PacketType
  <1>6. clear(p) = resize(r, HeaderSize)
    <2>1. r = [p EXCEPT !.read_pos = HeaderSize, !.write_pos = HeaderSize]
      BY <1>1 DEF PacketType
    <2>2. QED
      BY <2>1 DEF clear
  <1>7. SameElsewhere(r, resize(r, HeaderSize).pkt)
    <2> HIDE DEF r
    <2>1. QED
      BY <1>1, <1>4, ResizeExact
  <1>8. QED
    <2> HIDE DEF r
    <2>1. QED
      BY <1>5, <1>6, <1>7 DEF SameElsewhere

-----------------------------------------------------------------------------
(* What reads take out.                                                    *)

\* n bytes were taken out of p: the read cursor moved by that much and nothing
\* else changed, and if it stood in the data the bytes are the next ones of it.
TakesOut(p, n, r) ==
  /\ r.pkt = [p EXCEPT !.read_pos = @ + n]
  /\ p.read_pos <= real_size(p) =>
       /\ p.read_pos + n <= real_size(p)
       /\ r.out = SubSeq(p.body, p.read_pos - HeaderSize + 1,
                                 p.read_pos - HeaderSize + n)

\* memcpy of n bytes from behind the first off ones.
CopiedFrom(body, off, n, beyond) ==
  [i \in 1 .. n |-> IF off + i <= Len(body) THEN body[off + i] ELSE beyond]

\* The bytes copied out of the data are a piece of it.
LEMMA CopiedOut ==
  ASSUME NEW body \in Seq(Byte), NEW off \in Nat, NEW n \in Nat,
         off + n <= Len(body), NEW beyond
  PROVE  CopiedFrom(body, off, n, beyond) = SubSeq(body, off + 1, off + n)
PROOF
  <1> DEFINE out == CopiedFrom(body, off, n, beyond)
             cut == SubSeq(body, off + 1, off + n)
  <1>1. cut \in Seq(Byte) /\ Len(cut) = n
    OBVIOUS
  <1>2. ASSUME NEW i \in 1 .. n PROVE cut[i] = body[off + i]
    OBVIOUS
  <1>3. ASSUME NEW i \in 1 .. n PROVE out[i] = body[off + i]
    BY <1>3 DEF CopiedFrom
  <1>4. cut = [i \in 1 .. n |-> cut[i]] /\ out = [i \in 1 .. n |-> out[i]]
    <2>1. cut = [i \in 1 .. n |-> cut[i]]
      <3> HIDE DEF cut
      <3>1. QED
        BY <1>1
    <2>2. QED
      BY <2>1 DEF CopiedFrom
  <1>5. \A i \in 1 .. n : cut[i] = out[i]
    BY <1>2, <1>3
  <1>6. QED
    <2> HIDE DEF cut, out
    <2>1. cut = out
      BY <1>4, <1>5, Zenon
    <2>2. QED
      BY <2>1 DEF cut, out

\* Nothing taken out.
LEMMA TakesNothing ==
  ASSUME NEW p \in PacketType, NEW r, r.pkt = p, r.out = << >>
  PROVE  TakesOut(p, 0, r)
PROOF
  <1>1. p.read_pos \in Nat /\ p.body \in Seq(Byte)
    BY DEF PacketType
  <1>2. p.read_pos + 0 = p.read_pos /\ [p EXCEPT !.read_pos = @ + 0] = p
    BY <1>1 DEF PacketType
  <1>3. SubSeq(p.body, p.read_pos - HeaderSize + 1, p.read_pos - HeaderSize + 0)
          = << >>
    BY <1>1 DEF HeaderSize
  <1>4. QED
    BY <1>2, <1>3 DEF TakesOut

\* read_data takes out what it returns; asked for a whole value, all or none.
LEMMA ReadDataCases ==
  ASSUME NEW p, Sound(p), NEW size \in Nat, NEW whole \in BOOLEAN,
         NEW beyond \in Byte, NEW r, r = read_data(p, size, whole, beyond)
  PROVE  /\ ~r.threw
         /\ r.ret \in 0 .. size
         /\ whole => r.ret \in {0, size}
         /\ TakesOut(p, r.ret, r)
PROOF
  <1> DEFINE off == p.read_pos - HeaderSize
             n   == IF p.read_pos <= real_size(p)
                      THEN Smaller(real_size(p) - p.read_pos, size)
                      ELSE size
             out == CopiedFrom(p.body, off, n, beyond)
  <1>1. /\ p \in PacketType /\ p.body \in Seq(Byte)
        /\ p.read_pos \in Nat /\ p.read_pos >= HeaderSize
        /\ real_size(p) \in Nat /\ off \in Nat /\ off = p.read_pos - HeaderSize
    <2>1. p \in PacketType /\ p.read_pos >= HeaderSize
      BY DEF Sound
    <2>2. QED
      BY <2>1, Fields DEF HeaderSize
  <1>2. n \in 0 .. size
    BY <1>1 DEF Smaller
  <1>3. CASE empty(p) \/ n = 0 \/ (whole /\ n < size)
    <2>1. r = Return(p, 0)
      BY <1>3 DEF read_data
    <2>2. r.pkt = p /\ r.out = << >> /\ ~r.threw /\ r.ret = 0
      BY <2>1 DEF Return
    <2>3. QED
      BY <1>1, <2>2, TakesNothing
  <1>4. CASE ~(empty(p) \/ n = 0 \/ (whole /\ n < size))
    <2>1. r = [Return([p EXCEPT !.read_pos = @ + n], n) EXCEPT !.out = out]
      BY <1>4 DEF read_data, CopiedFrom
    <2>2. /\ r.pkt = [p EXCEPT !.read_pos = @ + n]
          /\ r.ret = n /\ r.out = out /\ ~r.threw
      <3> HIDE DEF out, n
      <3>1. QED
        BY <2>1 DEF Return
    <2>3. whole => n = size
      <3> HIDE DEF n
      <3>1. QED
        BY <1>2, <1>4
    <2>4. ASSUME p.read_pos <= real_size(p)
          PROVE  p.read_pos + n <= real_size(p) /\ off + n <= Len(p.body)
      <3>1. n <= real_size(p) - p.read_pos
        BY <1>1, <2>4 DEF Smaller
      <3>2. real_size(p) <= HeaderSize + Len(p.body)
        BY <1>1 DEF real_size, HeaderSize
      <3> HIDE DEF n
      <3>3. QED
        BY <1>1, <1>2, <3>1, <3>2 DEF HeaderSize
    <2>5. ASSUME p.read_pos <= real_size(p)
          PROVE  out = SubSeq(p.body, off + 1, off + n)
      <3>1. n \in Nat
        <4> HIDE DEF n
        <4>1. QED
          BY <1>2
      <3>2. off + n <= Len(p.body)
        BY <2>4, <2>5
      <3> DEFINE body == p.body
      <3>3. body \in Seq(Byte) /\ off + n <= Len(body)
        BY <1>1, <3>2
      <3>4. out = CopiedFrom(body, off, n, beyond)
        OBVIOUS
      <3>5. off \in Nat
        BY <1>1
      <3> HIDE DEF n, off, body, out
      <3>6. CopiedFrom(body, off, n, beyond) = SubSeq(body, off + 1, off + n)
        BY <3>1, <3>3, <3>5, CopiedOut
      <3>7. out = SubSeq(body, off + 1, off + n)
        BY <3>4, <3>6, Zenon
      <3>8. QED
        BY <3>7 DEF body, off
    <2>6. QED
      <3>1. /\ r.ret = n /\ r.out = out
            /\ p.read_pos <= real_size(p) =>
                 /\ p.read_pos + n <= real_size(p)
                 /\ out = SubSeq(p.body, p.read_pos - HeaderSize + 1,
                                         p.read_pos - HeaderSize + n)
        BY <2>2, <2>4, <2>5
      <3> HIDE DEF n, out
      <3>2. QED
        BY <1>2, <2>2, <2>3, <3>1 DEF TakesOut
  <1>5. QED
    BY <1>3, <1>4

\* A value is taken out whole or not at all.
LEMMA ReadValueCases ==
  ASSUME NEW p, Sound(p), NEW size \in Nat, NEW enforced \in BOOLEAN,
         NEW beyond \in Byte, NEW r, r = ReadValue(p, size, enforced, beyond)
  PROVE  /\ r.ret \in {0, size}
         /\ r.threw => r.ret = 0
         /\ TakesOut(p, r.ret, r)
PROOF
  <1> DEFINE s == read_data(p, size, TRUE, beyond)
  <1>1. ~s.threw /\ s.ret \in {0, size} /\ TakesOut(p, s.ret, s)
    <2> HIDE DEF s
    <2>1. QED
      BY ReadDataCases DEF s
  <1>2. CASE enforced /\ s.ret # size
    <2>1. r = Throw(s.pkt) /\ s.ret = 0
      BY <1>1, <1>2 DEF ReadValue
    <2>2. p \in PacketType /\ p.read_pos \in Nat
      BY DEF Sound, PacketType
    <2>3. s.pkt = p
      <3>1. s.pkt = [p EXCEPT !.read_pos = @ + 0]
        <4> HIDE DEF s
        <4>1. QED
          BY <1>1, <2>1 DEF TakesOut
      <3> HIDE DEF s
      <3>2. p.read_pos + 0 = p.read_pos
        BY <2>2
      <3>3. [p EXCEPT !.read_pos = p.read_pos] = p
        BY <2>2 DEF PacketType
      <3>4. QED
        BY <3>1, <3>2, <3>3
    <2>4. r.pkt = p /\ r.out = << >> /\ r.ret = 0
      <3> HIDE DEF s
      <3>1. QED
        BY <2>1, <2>3 DEF Throw
    <2>5. QED
      BY <2>2, <2>4, TakesNothing
  <1>3. CASE ~(enforced /\ s.ret # size)
    <2>1. r = s
      BY <1>3 DEF ReadValue
    <2>2. QED
      BY <1>1, <2>1
  <1>4. QED
    BY <1>2, <1>3

\* A bool is taken out also when its byte is neither 0 nor 1 and the call throws.
LEMMA ReadBoolCases ==
  ASSUME NEW p, Sound(p), NEW beyond \in Byte, NEW r, r = ReadBool(p, beyond)
  PROVE  \E n \in {0, 1} : TakesOut(p, n, r) /\ (r.threw \/ r.ret = n)
PROOF
  <1> DEFINE v == ReadValue(p, 1, TRUE, beyond)
  <1>1. v.ret \in {0, 1} /\ TakesOut(p, v.ret, v)
    <2> HIDE DEF v
    <2>1. QED
      BY ReadValueCases DEF v
  <1>2. CASE ~v.threw /\ v.out[1] > 1
    <2>1. r = [Throw(v.pkt) EXCEPT !.out = v.out]
      BY <1>2 DEF ReadBool
    <2>2. r.pkt = v.pkt /\ r.out = v.out /\ r.threw
      BY <2>1 DEF Throw
    <2>3. TakesOut(p, v.ret, r)
      BY <1>1, <2>2 DEF TakesOut
    <2>4. QED
      BY <1>1, <2>2, <2>3
  <1>3. CASE ~(~v.threw /\ v.out[1] > 1)
    <2>1. r = v
      BY <1>3 DEF ReadBool
    <2>2. QED
      BY <1>1, <2>1
  <1>4. QED
    BY <1>2, <1>3

\* Two pieces of a sequence, one behind the other.
LEMMA Joined ==
  ASSUME NEW s \in Seq(Byte), NEW a \in Nat, NEW b \in Nat, NEW c \in Nat,
         a <= b, b <= c, c <= Len(s)
  PROVE  SubSeq(s, a + 1, b) \o SubSeq(s, b + 1, c) = SubSeq(s, a + 1, c)
OBVIOUS

\* Bytes taken out one after the other are taken out together.
LEMMA TakesJoined ==
  ASSUME NEW p, Sound(p), NEW a \in Nat, NEW b \in Nat, NEW x, NEW y, NEW r,
         TakesOut(p, a, x), TakesOut(x.pkt, b, y),
         r.pkt = y.pkt, r.out = x.out \o y.out
  PROVE  TakesOut(p, a + b, r)
PROOF
  <1>1. /\ p \in PacketType /\ p.read_pos \in Nat /\ p.body \in Seq(Byte)
        /\ p.read_pos >= HeaderSize /\ real_size(p) \in Nat
        /\ real_size(p) <= HeaderSize + Len(p.body)
    <2>1. p \in PacketType /\ p.read_pos >= HeaderSize
      BY DEF Sound
    <2>2. QED
      BY <2>1, Fields DEF HeaderSize, real_size
  <1>2. /\ x.pkt = [p EXCEPT !.read_pos = @ + a] 
        /\ x.pkt.read_pos = p.read_pos + a
        /\ x.pkt.body = p.body /\ x.pkt.header = p.header
    BY <1>1 DEF TakesOut, PacketType
  <1>3. real_size(x.pkt) = real_size(p)
    BY <1>2 DEF real_size
  <1>4. r.pkt = [p EXCEPT !.read_pos = @ + (a + b)]
    <2>1. r.pkt = [x.pkt EXCEPT !.read_pos = @ + b]
      BY DEF TakesOut
    <2>2. r.pkt = [p EXCEPT !.read_pos = (@ + a) + b]
      BY <1>1, <1>2, <2>1 DEF PacketType
    <2>3. (p.read_pos + a) + b = p.read_pos + (a + b)
      BY <1>1
    <2>4. QED
      BY <2>2, <2>3
  <1>5. ASSUME p.read_pos <= real_size(p)
        PROVE  /\ p.read_pos + (a + b) <= real_size(p)
               /\ r.out = SubSeq(p.body, p.read_pos - HeaderSize + 1,
                                         p.read_pos - HeaderSize + (a + b))
    <2> DEFINE off == p.read_pos - HeaderSize
    <2>1. p.read_pos + a <= real_size(p)
          /\ x.out = SubSeq(p.body, off + 1, off + a)
      BY <1>5 DEF TakesOut
    <2>2. /\ (p.read_pos + a) + b <= real_size(p)
          /\ y.out = SubSeq(p.body, (p.read_pos + a) - HeaderSize + 1,
                                    (p.read_pos + a) - HeaderSize + b)
      BY <1>2, <1>3, <2>1 DEF TakesOut
    <2>3. /\ off \in Nat /\ (p.read_pos + a) - HeaderSize = off + a
          /\ (off + a) + b = off + (a + b)
          /\ (p.read_pos + a) + b = p.read_pos + (a + b)
          /\ off + (a + b) <= Len(p.body)
      <3> DEFINE c == p.read_pos
                 m == real_size(p)
                 l == Len(p.body)
      <3>1. /\ c \in Nat /\ m \in Nat /\ l \in Nat /\ c >= 2 /\ m <= 2 + l
            /\ (c + a) + b <= m
        BY <1>1, <2>2 DEF HeaderSize
      <3> HIDE DEF c, m, l
      <3>2. /\ c - 2 \in Nat /\ (c + a) - 2 = (c - 2) + a
            /\ ((c - 2) + a) + b = (c - 2) + (a + b)
            /\ (c + a) + b = c + (a + b)
            /\ (c - 2) + (a + b) <= l
        BY <3>1
      <3>3. QED
        BY <3>2 DEF c, l, HeaderSize
    <2>4. x.out \o y.out = SubSeq(p.body, off + 1, off + (a + b))
      <3> DEFINE s == p.body
                 m == off + a
                 e == off + (a + b)
      <3>1. s \in Seq(Byte) /\ m \in Nat /\ e \in Nat /\ off <= m /\ m <= e
            /\ e <= Len(s)
        BY <1>1, <2>3
      <3>2. x.out = SubSeq(s, off + 1, m) /\ y.out = SubSeq(s, m + 1, e)
        BY <2>1, <2>2, <2>3
      <3> HIDE DEF s, m, e, off
      <3>3. SubSeq(s, off + 1, m) \o SubSeq(s, m + 1, e) = SubSeq(s, off + 1, e)
        BY <2>3, <3>1, Joined
      <3>4. QED
        BY <3>2, <3>3 DEF s, m, e
    <2>5. QED
      BY <2>2, <2>3, <2>4
  <1>6. QED
    BY <1>4, <1>5 DEF TakesOut

\* A string is taken out with its length, or its length alone is, or nothing.
LEMMA ReadStringCases ==
  ASSUME NEW p, Sound(p), NEW enforced \in BOOLEAN, NEW beyond \in Byte,
         NEW r, r = ReadString(p, enforced, beyond)
  PROVE  \E n \in Nat : /\ TakesOut(p, n, r)
                        /\ r.ret = n \/ (r.ret = 0 /\ n = 2)
PROOF
  <1> DEFINE length == read_data(p, 2, TRUE, beyond)
             size   == Signed(Number(length.out))
             chars  == read_data(length.pkt, size, TRUE, beyond)
             short  == [length EXCEPT !.ret = 0, !.threw = enforced]
  <1>1. /\ length.ret \in {0, 2} /\ TakesOut(p, length.ret, length)
        /\ Sound(length.pkt)
        /\ length.ret # 0 => \A i \in 1 .. length.ret : length.out[i] \in Byte
    <2> HIDE DEF length
    <2>1. QED
      BY ReadDataCases, ReadDataSound DEF length
  <1>2. /\ short.pkt = length.pkt /\ short.out = length.out /\ short.ret = 0
        /\ LET t == [length EXCEPT !.ret = 0, !.threw = TRUE]
           IN  t.pkt = length.pkt /\ t.out = length.out /\ t.ret = 0
    BY DEF read_data, Return
  <1>3. CASE length.ret = 0 \/ size < 0 \/ chars.ret = 0
    <2>1. r.pkt = length.pkt /\ r.out = length.out /\ r.ret = 0
      BY <1>2, <1>3 DEF ReadString
    <2>2. TakesOut(p, length.ret, r)
      <3> HIDE DEF length
      <3>1. QED
        BY <1>1, <2>1 DEF TakesOut
    <2>3. QED
      <3> HIDE DEF length
      <3>1. QED
        BY <1>1, <2>1, <2>2
  <1>4. CASE ~(length.ret = 0 \/ size < 0 \/ chars.ret = 0)
    <2>1. length.out[1] \in Byte /\ length.out[2] \in Byte /\ length.ret = 2
      <3>1. length.ret # 0
        BY <1>4
      <3>2. length.ret = 2 /\ \A i \in 1 .. 2 : length.out[i] \in Byte
        <4> HIDE DEF length
        <4>1. QED
          BY <1>1, <3>1
      <3> HIDE DEF length
      <3>3. QED
        BY <3>2
    <2>2. size \in Nat
      <3>1. Number(length.out) \in Int
        <4> HIDE DEF length
        <4>1. QED
          BY <2>1, Constants DEF Number, Byte
      <3>2. size \in Int
        <4> HIDE DEF length
        <4>1. QED
          BY <3>1, Constants DEF Signed
      <3>3. ~(size < 0)
        BY <1>4
      <3> HIDE DEF size
      <3>4. QED
        BY <3>2, <3>3
    <2>3. chars.ret = size /\ TakesOut(length.pkt, size, chars)
      <3>1. chars.ret # 0
        BY <1>4
      <3> DEFINE q == length.pkt
      <3>2. Sound(q) /\ chars = read_data(q, size, TRUE, beyond)
        BY <1>1
      <3> HIDE DEF size, q, chars
      <3>3. chars.ret \in {0, size} /\ TakesOut(q, chars.ret, chars)
        BY <2>2, <3>2, ReadDataCases
      <3>4. QED
        BY <3>1, <3>3 DEF q
    <2>4. r = [chars EXCEPT !.ret = @ + 2, !.out = length.out \o @]
      BY <1>4 DEF ReadString
    <2>5. r.pkt = chars.pkt /\ r.out = length.out \o chars.out /\ r.ret = size + 2
      <3>1. r.pkt = chars.pkt /\ r.out = length.out \o chars.out
            /\ r.ret = chars.ret + 2
        <4> HIDE DEF length, size
        <4>1. QED
          BY <2>4 DEF read_data, Return
      <3> HIDE DEF chars, size, length
      <3>2. QED
        BY <2>3, <3>1
    <2>6. TakesOut(p, 2 + size, r)
      <3>1. TakesOut(p, 2, length)
        <4> HIDE DEF length
        <4>1. QED
          BY <1>1, <2>1
      <3> HIDE DEF length, size, chars
      <3>2. QED
        BY <2>2, <2>3, <2>5, <3>1, TakesJoined
    <2>7. 2 + size \in Nat /\ r.ret = 2 + size
      <3> HIDE DEF size
      <3>1. QED
        BY <2>2, <2>5
    <2> HIDE DEF size
    <2>8. QED
      BY <2>6, <2>7
  <1>5. QED
    BY <1>3, <1>4

-----------------------------------------------------------------------------
(* What writes put in.                                                     *)

\* The write cursor is where the next byte belongs, or the packet is full.
WritesLast(p) == p.write_pos = real_size(p) \/ full(p)

\* From p to q the payload did not get lost or shorter, no byte in front of
\* p's write cursor changed, and the read cursor did not move; bytes written
\* at the end were added behind the others.
Extends(p, q) ==
  /\ work_size(q) >= work_size(p)
  /\ \A i \in 1 .. work_size(p) :
       i <= p.write_pos - HeaderSize => q.body[i] = p.body[i]
  /\ q.read_pos = p.read_pos
  /\ HasData(p) => HasData(q)
  /\ WritesLast(p) => WritesLast(q) /\ \E e \in Seq(Byte) : q.body = p.body \o e

\* A call that was given d ends with r: whether or not it threw it wrote
\* behind the cursor, and if it did not, as many bytes of d as it says.
Puts(p, d, r) ==
  /\ Extends(p, r.pkt)
  /\ r.out = << >>
  /\ ~r.threw =>
       /\ r.ret \in 0 .. Len(d)
       /\ r.pkt.write_pos = p.write_pos + r.ret
       /\ SubSeq(d, 1, r.ret) \in Seq(Byte)
       /\ WritesLast(p) => r.pkt.body = p.body \o SubSeq(d, 1, r.ret)

\* memcpy to the end of the payload adds to it.
LEMMA OverwrittenEnd ==
  ASSUME NEW body \in Seq(Byte), NEW d \in Seq(Byte)
  PROVE  Overwritten(body, Len(body), d) = body \o d
PROOF
  <1> DEFINE n == Len(body) + Len(d)
             a == Overwritten(body, Len(body), d)
             b == body \o d
  <1>1. n \in Nat /\ Larger(Len(body), Len(body) + Len(d)) = n
    BY DEF Larger
  <1>2. a = [i \in 1 .. n |-> IF i > Len(body) /\ i <= n THEN d[i - Len(body)]
                              ELSE IF i <= Len(body) THEN body[i] ELSE 0]
    BY <1>1 DEF Overwritten
  <1>3. a = [i \in 1 .. n |-> a[i]]
    BY <1>2
  <1>4. b = [i \in 1 .. n |-> b[i]]
    <2>1. b \in Seq(Byte) /\ Len(b) = n
      BY Concatenated
    <2> HIDE DEF b, n
    <2>2. QED
      BY <2>1
  <1>5. ASSUME NEW i \in 1 .. n PROVE a[i] = b[i]
    <2>1. a[i] = IF i > Len(body) /\ i <= n THEN d[i - Len(body)]
                 ELSE IF i <= Len(body) THEN body[i] ELSE 0
      BY <1>2
    <2>2. b[i] = IF i <= Len(body) THEN body[i] ELSE d[i - Len(body)]
      OBVIOUS
    <2>3. i \in Int /\ i <= n /\ Len(body) \in Int
      BY <1>1
    <2> HIDE DEF a, b, n
    <2>4. QED
      BY <2>1, <2>2, <2>3
  <1>6. a = b
    <2> HIDE DEF a, b, n
    <2>1. QED
      BY <1>3, <1>4, <1>5, Zenon
  <1>7. QED
    BY <1>6

\* A call that changes nothing.
LEMMA PutsNothing ==
  ASSUME NEW p \in PacketType, NEW d \in Seq(Byte), NEW r, r.pkt = p,
         r.ret = 0, r.out = << >>
  PROVE  Puts(p, d, r)
PROOF
  <1>1. /\ p.body \in Seq(Byte) /\ work_size(p) \in Nat /\ p.write_pos \in Nat
        /\ p.body \o << >> = p.body /\ << >> \in Seq(Byte)
        /\ SubSeq(d, 1, 0) = << >> /\ Len(d) \in Nat
    BY Fields DEF PacketType
  <1>2. Extends(p, p)
    <2>1. \E e \in Seq(Byte) : p.body = p.body \o e
      BY <1>1, Zenon
    <2>2. work_size(p) >= work_size(p)
      BY <1>1
    <2>3. QED
      BY <2>1, <2>2, Zenon DEF Extends
  <1>3. QED
    BY <1>1, <1>2 DEF Puts

\* What a packet is after a write that stored n bytes.
LEMMA StoresFields ==
  ASSUME NEW p \in PacketType, NEW n \in Nat, NEW body \in Seq(Byte),
         NEW r, Stores(p, body, n, r)
  PROVE  /\ r.pkt.body = body /\ r.pkt.read_pos = p.read_pos /\ r.out = << >>
         /\ HasData(r.pkt) /\ real_size(r.pkt) = HeaderSize + Len(body)
         /\ r.threw <=> HeaderSize + Len(body) = DatagramSize
         /\ ~r.threw => r.ret = n /\ r.pkt.write_pos = p.write_pos + n
PROOF
  <1>1. Len(body) \in Nat /\ p.write_pos \in Nat
    BY DEF PacketType
  <1>2. Grown(p.header) # NoHeader /\ Len(body) # NoHeader
    BY <1>1 DEF Grown, NoHeader
  <1>3. CASE /\ HeaderSize + Len(body) < DatagramSize
             /\ r = Return([p EXCEPT !.header    = Len(body),
                                     !.body      = body,
                                     !.write_pos = @ + n], n)
    <2>1. /\ r.pkt.body = body /\ r.pkt.read_pos = p.read_pos /\ r.out = << >>
          /\ r.pkt.header = Len(body) /\ ~r.threw
          /\ r.ret = n /\ r.pkt.write_pos = p.write_pos + n
      BY <1>3 DEF Return, PacketType
    <2>2. HeaderSize + Len(body) # DatagramSize
      BY <1>1, <1>3, Constants DEF HeaderSize
    <2>3. QED
      BY <1>2, <2>1, <2>2 DEF HasData, real_size
  <1>4. CASE /\ HeaderSize + Len(body) = DatagramSize
             /\ r = Throw([p EXCEPT !.header    = Grown(@),
                                    !.body      = body,
                                    !.write_pos = 0])
    <2>1. /\ r.pkt.body = body /\ r.pkt.read_pos = p.read_pos /\ r.out = << >>
          /\ r.pkt.header = Grown(p.header) /\ r.threw
      BY <1>4 DEF Throw, PacketType
    <2>2. QED
      BY <1>2, <1>4, <2>1 DEF HasData, real_size
  <1>5. QED
    BY <1>3, <1>4 DEF Stores

\* With the write cursor at the end, what is stored is added behind the rest.
LEMMA StoresEnd ==
  ASSUME NEW p \in PacketType, NEW d \in Seq(Byte), NEW whole,
         NEW n \in 0 .. Len(d), NEW body \in Seq(Byte),
         Places(p, d, whole, body, n), NEW r, Stores(p, body, n, r),
         ~full(p), WritesLast(p)
  PROVE  /\ body = p.body \o SubSeq(d, 1, n)
         /\ Len(body) = Len(p.body) + n
         /\ p.write_pos = real_size(p) /\ HasData(p)
         /\ WritesLast(r.pkt)
PROOF
  <1> DEFINE off  == p.write_pos - HeaderSize
             part == SubSeq(d, 1, n)
             q    == r.pkt
  <1>1. /\ p.body \in Seq(Byte) /\ off \in Nat /\ n \in Nat /\ p.write_pos \in Nat
        /\ part \in Seq(Byte) /\ Len(part) = n
    BY DEF PacketType, Places
  <1>2. p.write_pos = real_size(p) /\ HasData(p)
    <2>1. p.write_pos = real_size(p)
      BY DEF WritesLast
    <2>2. QED
      BY <1>1, <2>1 DEF real_size, HasData, HeaderSize
  <1>3. off = Len(p.body)
    BY <1>1, <1>2 DEF real_size, HasData, HeaderSize
  <1>4. body = Overwritten(p.body, off, part) /\ Len(body) = Larger(Len(p.body), off + n)
    BY DEF Places
  <1>5. body = p.body \o part
    <2> DEFINE s == p.body
    <2>1. s \in Seq(Byte) /\ body = Overwritten(s, Len(s), part)
      BY <1>1, <1>3, <1>4
    <2> HIDE DEF part, off, s
    <2>2. body = s \o part
      BY <1>1, <2>1, OverwrittenEnd
    <2>3. QED
      BY <2>2 DEF s
  <1>6. Len(body) = Len(p.body) + n
    BY <1>1, <1>3, <1>4 DEF Larger
  <1>7. /\ real_size(q) = HeaderSize + Len(body)
        /\ r.threw <=> HeaderSize + Len(body) = DatagramSize
        /\ ~r.threw => q.write_pos = p.write_pos + n
    BY <1>1, StoresFields
  <1>8. WritesLast(q)
    <2>1. CASE r.threw
      BY <1>7, <2>1 DEF WritesLast, full
    <2>2. CASE ~r.threw
      <3>1. q.write_pos = HeaderSize + Len(body)
        BY <1>1, <1>3, <1>6, <1>7, <2>2 DEF HeaderSize
      <3>2. QED
        BY <1>7, <3>1 DEF WritesLast
    <2>3. QED
      BY <2>1, <2>2
  <1>9. QED
    BY <1>2, <1>5, <1>6, <1>8

\* The same of a write.
LEMMA WriteEnd ==
  ASSUME NEW p, Sound(p), Writable(p), WritesLast(p),
         NEW d \in Seq(Byte), NEW whole \in BOOLEAN,
         NEW r, r = write_data(p, d, whole), ~Refuses(p, d, whole)
  PROVE  \E n \in 0 .. Len(d), body \in Seq(Byte) :
           /\ Places(p, d, whole, body, n) /\ Stores(p, body, n, r)
           /\ body = p.body \o SubSeq(d, 1, n)
           /\ Len(body) = Len(p.body) + n
           /\ WritesLast(r.pkt)
PROOF
  <1>1. PICK n \in 0 .. Len(d), body \in Seq(Byte) :
          Places(p, d, whole, body, n) /\ Stores(p, body, n, r)
    BY WriteDataCases
  <1>2. p \in PacketType /\ ~full(p)
    BY DEF Sound, Refuses
  <1>3. Places(p, d, whole, body, n)
    BY <1>1
  <1>4. Stores(p, body, n, r)
    BY <1>1
  <1>5. /\ body = p.body \o SubSeq(d, 1, n)
        /\ Len(body) = Len(p.body) + n
        /\ WritesLast(r.pkt)
    BY <1>2, <1>3, <1>4, StoresEnd, Zenon
  <1>6. QED
    BY <1>3, <1>4, <1>5

\* A call that stores d, or the front of it, behind the write cursor.
LEMMA StoresPuts ==
  ASSUME NEW p, Sound(p), Writable(p), ~full(p), NEW d \in Seq(Byte), NEW whole,
         NEW n \in 0 .. Len(d), NEW body \in Seq(Byte),
         Places(p, d, whole, body, n), NEW r, Stores(p, body, n, r)
  PROVE  Puts(p, d, r)
PROOF
  <1> DEFINE off  == p.write_pos - HeaderSize
             part == SubSeq(d, 1, n)
             q    == r.pkt
  <1>1. /\ p \in PacketType /\ p.body \in Seq(Byte) /\ off \in Nat
        /\ n \in Nat /\ n <= Len(d) /\ p.write_pos \in Nat
        /\ part \in Seq(Byte) /\ Len(part) = n
    <2>1. n \in Nat /\ n <= Len(d)
      OBVIOUS
    <2>2. QED
      BY <2>1 DEF Sound, PacketType, Places
  <1>2. body = Overwritten(p.body, off, part)
    BY DEF Places
  <1>3. /\ q.body = body /\ q.read_pos = p.read_pos /\ r.out = << >>
        /\ HasData(q)
        /\ ~r.threw => r.ret = n /\ q.write_pos = p.write_pos + n
    BY <1>1, StoresFields
  <1>4. /\ Len(body) >= Len(p.body)
        /\ \A i \in 1 .. Len(p.body) : i <= off => body[i] = p.body[i]
    <2> DEFINE s == p.body
    <2>1. s \in Seq(Byte) /\ body = Overwritten(s, off, part)
      BY <1>1, <1>2
    <2> HIDE DEF off, part, s
    <2>2. /\ Len(Overwritten(s, off, part)) >= Len(s)
          /\ \A i \in 1 .. Len(s) :
               i <= off => Overwritten(s, off, part)[i] = s[i]
      BY <1>1, <2>1, OverwrittenKeeps
    <2>3. QED
      BY <2>1, <2>2 DEF s
  <1>5. ASSUME WritesLast(p) PROVE WritesLast(q) /\ body = p.body \o part
    <2>1. p \in PacketType
      BY <1>1
    <2>2. body = p.body \o SubSeq(d, 1, n) /\ WritesLast(r.pkt)
      BY <1>5, <2>1, StoresEnd, Zenon
    <2>3. QED
      BY <2>2
  <1>6. Extends(p, q)
    <2> HIDE DEF part, q
    <2>1. QED
      BY <1>1, <1>3, <1>4, <1>5 DEF Extends, work_size
  <1>7. QED
    <2> HIDE DEF q
    <2>1. QED
      BY <1>1, <1>3, <1>5, <1>6 DEF Puts, q

\* A raw write puts in what it says; asked for a whole value, all or nothing.
LEMMA WriteDataPuts ==
  ASSUME NEW p, Sound(p), Writable(p), NEW d \in Seq(Byte), NEW whole \in BOOLEAN,
         NEW r, r = write_data(p, d, whole)
  PROVE  Puts(p, d, r) /\ (whole => r.ret \in {0, Len(d)})
PROOF
  <1>1. p \in PacketType
    BY DEF Sound
  <1>2. CASE r = Return(p, 0)
    <2>1. r.pkt = p /\ r.ret = 0 /\ r.out = << >>
      BY <1>2 DEF Return
    <2>2. QED
      BY <1>1, <2>1, PutsNothing
  <1>3. CASE r # Return(p, 0)
    <2>1. ~Refuses(p, d, whole)
      BY <1>3, WriteDataCases
    <2>2. PICK n \in 0 .. Len(d), body \in Seq(Byte) :
            Places(p, d, whole, body, n) /\ Stores(p, body, n, r)
      BY <1>3, WriteDataCases
    <2>3. Puts(p, d, r)
      BY <2>1, <2>2, StoresPuts DEF Refuses
    <2>4. r.ret \in {0, n}
      BY <2>2 DEF Stores, Return, Throw
    <2>5. QED
      BY <2>2, <2>3, <2>4 DEF Places
  <1>4. QED
    BY <1>2, <1>3

\* A value is put in whole or the call fails.
LEMMA WriteValuePuts ==
  ASSUME NEW p, Sound(p), Writable(p), NEW d \in Seq(Byte), NEW enforced,
         NEW r, r = WriteValue(p, d, enforced)
  PROVE  Puts(p, d, r) /\ r.ret \in {0, Len(d)}
PROOF
  <1> DEFINE s == write_data(p, d, TRUE)
  <1>1. Puts(p, d, s) /\ s.ret \in {0, Len(d)}
    <2> HIDE DEF s
    <2>1. QED
      BY WriteDataPuts DEF s
  <1>2. r = s \/ r = Throw(s.pkt)
    BY DEF WriteValue
  <1>3. CASE r = s
    BY <1>1, <1>3
  <1>4. CASE r = Throw(s.pkt)
    <2> HIDE DEF s
    <2>1. r.pkt = s.pkt /\ r.out = << >> /\ r.threw /\ r.ret = 0
      BY <1>4 DEF Throw
    <2>2. QED
      BY <1>1, <2>1 DEF Puts
  <1>5. QED
    BY <1>2, <1>3, <1>4

\* The same of another packet's payload.
LEMMA WritePacketPuts ==
  ASSUME NEW p, Sound(p), Writable(p), NEW source \in PacketType, NEW enforced,
         NEW r, r = WritePacket(p, source, enforced)
  PROVE  Puts(p, source.body, r) /\ r.ret \in {0, Len(source.body)}
PROOF
  <1> DEFINE d == source.body
             s == IF empty(source) THEN Return(p, 0) ELSE write_data(p, d, TRUE)
  <1>1. d \in Seq(Byte) /\ p \in PacketType
    BY DEF PacketType, Sound
  <1>2. Puts(p, d, s) /\ s.ret \in {0, Len(d)}
    <2>1. CASE empty(source)
      <3>1. s = Return(p, 0)
        BY <2>1
      <3> HIDE DEF s, d
      <3>2. s.pkt = p /\ s.ret = 0 /\ s.out = << >>
        BY <3>1 DEF Return
      <3>3. QED
        BY <1>1, <3>2, PutsNothing
    <2>2. CASE ~empty(source)
      <3>1. s = write_data(p, d, TRUE)
        BY <2>2
      <3> HIDE DEF s, d
      <3>2. QED
        BY <1>1, <3>1, WriteDataPuts
    <2>3. QED
      BY <2>1, <2>2
  <1>3. r = s \/ r = Throw(s.pkt)
    BY DEF WritePacket
  <1>4. CASE r = s
    BY <1>2, <1>4
  <1>5. CASE r = Throw(s.pkt)
    <2> HIDE DEF s
    <2>1. r.pkt = s.pkt /\ r.out = << >> /\ r.threw /\ r.ret = 0
      BY <1>5 DEF Throw
    <2>2. QED
      BY <1>2, <2>1 DEF Puts
  <1>6. QED
    BY <1>3, <1>4, <1>5

\* Bytes behind bytes behind bytes.
LEMMA Associative ==
  ASSUME NEW a \in Seq(Byte), NEW b \in Seq(Byte), NEW c \in Seq(Byte)
  PROVE  (a \o b) \o c = a \o (b \o c)
OBVIOUS

\* What comes behind what was written before keeps both.
LEMMA ExtendsTwice ==
  ASSUME NEW p \in PacketType, NEW q \in PacketType, NEW s,
         Extends(p, q), Extends(q, s), q.write_pos >= p.write_pos
  PROVE  Extends(p, s)
PROOF
  <1>1. /\ work_size(p) \in Nat /\ work_size(q) \in Nat /\ work_size(s) \in Nat
        /\ p.write_pos \in Nat /\ q.write_pos \in Nat
        /\ p.body \in Seq(Byte)
    <2>1. work_size(s) \in Nat
      BY DEF work_size
    <2>2. QED
      BY <2>1, Fields
  <1>2. /\ work_size(s) >= work_size(p) /\ s.read_pos = p.read_pos
        /\ HasData(p) => HasData(s)
    BY <1>1 DEF Extends
  <1>3. ASSUME NEW i \in 1 .. work_size(p), i <= p.write_pos - HeaderSize
        PROVE  s.body[i] = p.body[i]
    <2>1. q.body[i] = p.body[i]
      BY <1>3 DEF Extends
    <2>2. i \in 1 .. work_size(q) /\ i <= q.write_pos - HeaderSize
      <3>1. work_size(q) >= work_size(p)
        BY DEF Extends
      <3>2. QED
        BY <1>1, <1>3, <3>1 DEF HeaderSize
    <2>3. s.body[i] = q.body[i]
      BY <2>2 DEF Extends
    <2>4. QED
      BY <2>1, <2>3
  <1>4. ASSUME WritesLast(p)
        PROVE  WritesLast(s) /\ \E e \in Seq(Byte) : s.body = p.body \o e
    <2>1. PICK e \in Seq(Byte) : q.body = p.body \o e
      BY <1>4 DEF Extends
    <2>2. WritesLast(s)
      BY <1>4 DEF Extends
    <2>3. PICK f \in Seq(Byte) : s.body = q.body \o f
      BY <1>4 DEF Extends
    <2>4. s.body = p.body \o (e \o f)
      <3> DEFINE d == p.body
      <3>1. d \in Seq(Byte) /\ s.body = (d \o e) \o f
        BY <1>1, <2>1, <2>3
      <3> HIDE DEF d
      <3>2. (d \o e) \o f = d \o (e \o f)
        BY <3>1, Associative
      <3>3. QED
        BY <3>1, <3>2 DEF d
    <2>5. e \o f \in Seq(Byte)
      BY Concatenated
    <2>6. QED
      BY <2>2, <2>4, <2>5
  <1>5. QED
    BY <1>2, <1>3, <1>4 DEF Extends

\* Two whole values one behind the other are both of them together.
LEMMA PutsBoth ==
  ASSUME NEW p \in PacketType, NEW a \in Seq(Byte), NEW b \in Seq(Byte),
         NEW x, NEW y, NEW r,
         Puts(p, a, x), x.pkt \in PacketType, ~x.threw, Puts(x.pkt, b, y)
  PROVE  /\ Extends(p, y.pkt)
         /\ /\ ~y.threw /\ x.ret + y.ret = Len(a) + Len(b)
            /\ r.pkt = y.pkt /\ r.ret = Len(a) + Len(b)
            /\ r.out = << >>
            => Puts(p, a \o b, r)
PROOF
  <1> DEFINE q == x.pkt
  <1>1. /\ x.ret \in 0 .. Len(a) /\ q.write_pos = p.write_pos + x.ret
        /\ WritesLast(p) => q.body = p.body \o SubSeq(a, 1, x.ret)
        /\ Extends(p, q)
    BY DEF Puts
  <1>2. /\ p.write_pos \in Nat /\ x.ret \in Nat /\ p.body \in Seq(Byte)
        /\ Len(a) \in Nat /\ Len(b) \in Nat
    BY <1>1 DEF PacketType
  <1>3. q.write_pos >= p.write_pos
    BY <1>1, <1>2
  <1>4. Extends(q, y.pkt)
    BY DEF Puts
  <1>5. Extends(p, y.pkt)
    <2> HIDE DEF q
    <2>1. q \in PacketType
      BY DEF q
    <2>2. QED
      BY <1>1, <1>3, <1>4, <2>1, ExtendsTwice
  <1>6. ASSUME ~y.threw, x.ret + y.ret = Len(a) + Len(b), r.pkt = y.pkt,
               r.ret = Len(a) + Len(b), r.out = << >>
        PROVE  Puts(p, a \o b, r)
    <2>1. /\ y.ret \in 0 .. Len(b) /\ y.pkt.write_pos = q.write_pos + y.ret
          /\ WritesLast(q) => y.pkt.body = q.body \o SubSeq(b, 1, y.ret)
      BY <1>6 DEF Puts
    <2>2. x.ret = Len(a) /\ y.ret = Len(b)
      <3> DEFINE m == Len(a)
                 n == Len(b)
      <3>1. /\ m \in Nat /\ n \in Nat /\ x.ret \in 0 .. m /\ y.ret \in 0 .. n
            /\ x.ret + y.ret = m + n
        BY <1>1, <1>2, <1>6, <2>1
      <3> HIDE DEF m, n
      <3>2. x.ret = m /\ y.ret = n
        BY <3>1
      <3>3. QED
        BY <3>2 DEF m, n
    <2>3. SubSeq(a, 1, Len(a)) = a /\ SubSeq(b, 1, Len(b)) = b
          /\ a \o b \in Seq(Byte) /\ Len(a \o b) = Len(a) + Len(b)
          /\ SubSeq(a \o b, 1, Len(a) + Len(b)) = a \o b
      <3>1. a \o b \in Seq(Byte) /\ Len(a \o b) = Len(a) + Len(b)
        BY Concatenated
      <3> DEFINE c == a \o b
      <3>2. c \in Seq(Byte) /\ Len(c) = Len(a) + Len(b)
        BY <3>1
      <3> HIDE DEF c
      <3>3. SubSeq(c, 1, Len(c)) = c
        BY <3>2
      <3>4. QED
        BY <3>1, <3>2, <3>3 DEF c
    <2>4. r.pkt.write_pos = p.write_pos + r.ret
      <3> DEFINE w == p.write_pos
                 m == Len(a)
                 n == Len(b)
      <3>1. /\ w \in Nat /\ m \in Nat /\ n \in Nat /\ r.ret = m + n
            /\ r.pkt.write_pos = (w + m) + n
        BY <1>1, <1>2, <1>6, <2>1, <2>2
      <3> HIDE DEF w, m, n
      <3>2. r.pkt.write_pos = w + r.ret
        BY <3>1
      <3>3. QED
        BY <3>2 DEF w
    <2>5. ASSUME WritesLast(p)
          PROVE  r.pkt.body = p.body \o SubSeq(a \o b, 1, r.ret)
      <3>1. q.body = p.body \o a
        BY <1>1, <2>2, <2>3, <2>5
      <3>2. WritesLast(q)
        BY <1>1, <2>5 DEF Extends
      <3>3. y.pkt.body = (p.body \o a) \o b
        BY <2>1, <2>2, <2>3, <3>1, <3>2
      <3>4. (p.body \o a) \o b = p.body \o (a \o b)
        <4> DEFINE c == p.body
        <4>1. c \in Seq(Byte)
          BY <1>2
        <4> HIDE DEF c
        <4>2. (c \o a) \o b = c \o (a \o b)
          BY <4>1, Associative
        <4>3. QED
          BY <4>2 DEF c
      <3>5. QED
        BY <1>6, <2>3, <3>3, <3>4
    <2>6. r.ret \in 0 .. Len(a \o b) /\ SubSeq(a \o b, 1, r.ret) \in Seq(Byte)
      BY <1>2, <1>6, <2>3
    <2>7. QED
      BY <1>5, <1>6, <2>4, <2>5, <2>6 DEF Puts
  <1>7. QED
    BY <1>5, <1>6

\* A string is put in with its length, in the order the build writes the two,
\* or the call throws.
LEMMA WriteStringPuts ==
  ASSUME NEW p, Sound(p), Writable(p), NEW s \in Seq(Byte), NEW order \in BOOLEAN,
         NEW r, r = WriteString(p, s, order)
  PROVE  Puts(p, IF order THEN Digits(Len(s)) \o s ELSE s \o Digits(Len(s)), r)
PROOF
  <1> DEFINE a == IF order THEN Digits(Len(s)) ELSE s
             b == IF order THEN s ELSE Digits(Len(s))
             x == write_data(p, a, TRUE)
             y == write_data(x.pkt, b, TRUE)
             g == IF order THEN Digits(Len(s)) \o s ELSE s \o Digits(Len(s))
  <1>1. p \in PacketType
    BY DEF Sound
  <1>2. CASE Len(s) > StringLimit
    <2>1. r = Throw(p)
      BY <1>2 DEF WriteString
    <2>2. r.threw /\ r.pkt = p /\ r.out = << >>
      BY <2>1 DEF Throw
    <2>3. Extends(p, p)
      <3>1. Puts(p, << >>, Return(p, 0))
        <4>1. << >> \in Seq(Byte)
          OBVIOUS
        <4>2. QED
          BY <1>1, <4>1, PutsNothing DEF Return
      <3>2. QED
        BY <3>1 DEF Puts, Return
    <2>4. QED
      BY <2>2, <2>3 DEF Puts
  <1>3. CASE ~(Len(s) > StringLimit)
    <2>1. Digits(Len(s)) \in Seq(Byte) /\ Len(Digits(Len(s))) = 2
      <3>1. Len(s) \in Nat /\ LenMod \div 2 \in Int
        BY Constants
      <3>2. Len(s) < LenMod
        BY <1>3, <3>1, Constants DEF StringLimit
      <3>3. QED
        BY <3>1, <3>2, DigitsBytes
    <2>2. /\ a \in Seq(Byte) /\ b \in Seq(Byte) /\ g = a \o b
          /\ Len(a) + Len(b) = 2 + Len(s)
      <3> DEFINE d == Digits(Len(s))
      <3>1. d \in Seq(Byte) /\ Len(d) = 2
        BY <2>1
      <3>2. /\ a = IF order THEN d ELSE s
            /\ b = IF order THEN s ELSE d
            /\ g = IF order THEN d \o s ELSE s \o d
        OBVIOUS
      <3> HIDE DEF a, b, d, g
      <3>3. CASE order
        <4>1. a = d /\ b = s /\ g = d \o s
          BY <3>2, <3>3
        <4>2. QED
          BY <3>1, <4>1
      <3>4. CASE ~order
        <4>1. a = s /\ b = d /\ g = s \o d
          BY <3>2, <3>4
        <4>2. Len(s) + 2 = 2 + Len(s) /\ Len(b) = 2
          BY <3>1, <4>1
        <4>3. QED
          BY <3>1, <4>1, <4>2
      <3>5. QED
        BY <3>3, <3>4
    <2>3. /\ Puts(p, a, x) /\ Sound(x.pkt) /\ Writable(x.pkt)
      <3> HIDE DEF a, b, g
      <3>1. Puts(p, a, x)
        <4> HIDE DEF x
        <4>1. QED
          BY <2>2, WriteDataPuts DEF x
      <3>2. QED
        BY <2>2, <3>1, WriteDataSound
    <2>4. Puts(x.pkt, b, y)
      <3> DEFINE q == x.pkt
      <3>1. y = write_data(q, b, TRUE) /\ Sound(q) /\ Writable(q)
        BY <2>3
      <3> HIDE DEF a, b, y, q
      <3>2. Puts(q, b, y)
        BY <2>2, <3>1, WriteDataPuts
      <3>3. QED
        BY <3>2 DEF q
    <2>5. r = IF x.threw THEN x
              ELSE IF y.threw THEN y
              ELSE IF x.ret + y.ret # 2 + Len(s) THEN Throw(y.pkt)
              ELSE Return(y.pkt, x.ret + y.ret)
      BY <1>3 DEF WriteString
    <2>6. CASE x.threw
      <3>1. r = x
        BY <2>5, <2>6
      <3> HIDE DEF x, y, a, b
      <3>2. QED
        BY <2>3, <2>6, <3>1 DEF Puts
    <2>7. CASE ~x.threw
      <3>1. x.pkt \in PacketType
        BY <2>3 DEF Sound
      <3> HIDE DEF x, y, a, b
      <3>2. Extends(p, y.pkt)
        BY <1>1, <2>2, <2>3, <2>4, <2>7, <3>1, PutsBoth
      <3>3. CASE y.threw
        <4>1. r = y
          BY <2>5, <2>7, <3>3
        <4>2. QED
          BY <2>4, <3>2, <3>3, <4>1 DEF Puts
      <3>4. CASE ~y.threw /\ x.ret + y.ret # 2 + Len(s)
        <4>1. r.pkt = y.pkt /\ r.threw /\ r.out = << >>
          BY <2>5, <2>7, <3>4 DEF Throw
        <4>2. QED
          BY <3>2, <4>1 DEF Puts
      <3>5. CASE ~y.threw /\ x.ret + y.ret = 2 + Len(s)
        <4>1. r.pkt = y.pkt /\ r.ret = 2 + Len(s) /\ r.out = << >>
          BY <2>5, <2>7, <3>5 DEF Return
        <4>2. Puts(p, a \o b, r)
          BY <1>1, <2>2, <2>3, <2>4, <2>7, <3>1, <3>5, <4>1, PutsBoth
        <4> HIDE DEF g
        <4>3. Puts(p, g, r)
          BY <2>2, <4>2
        <4>4. QED
          BY <4>3 DEF g
      <3>6. QED
        BY <3>3, <3>4, <3>5
    <2>8. QED
      BY <2>6, <2>7
  <1>4. QED
    BY <1>2, <1>3
=============================================================================
