---------------------------- MODULE PacketProofs ----------------------------
(***************************************************************************)
(* What the calls on a packet keep, and that packets used from front to    *)
(* back are byte queues, for every Radix, DatagramSize, set of packets and *)
(* set of arguments.                                                       *)
(***************************************************************************)
EXTENDS PacketApi, PacketLemmas, TLAPS

-----------------------------------------------------------------------------
(* The program.                                                            *)

\* A call that leaves a sound packet behind keeps all packets sound.
LEMMA DoesSound ==
  ASSUME AllSound, NEW op \in Ops, NEW k \in Packets, NEW want, NEW given,
         NEW r, Sound(r.pkt), Does(op, k, want, given, r)
  PROVE  AllSound'
PROOF
  <1>1. r.pkt \in PacketType
    BY DEF Sound
  <1>2. pkts' \in [Packets -> PacketType]
    BY <1>1 DEF Does, AllSound
  <1>3. ASSUME NEW j \in Packets PROVE Sound(pkts'[j])
    BY DEF Does, AllSound
  <1>4. last'.op \in Ops /\ last'.on \in Packets
    BY DEF Does, Call
  <1>5. QED
    BY <1>2, <1>3, <1>4 DEF AllSound, Sound, PacketType, HasData, real_size,
      work_size, full

\* Every packet is sound, at the start and after each call, whether or not it
\* threw.
THEOREM Soundness == Spec => []AllSound
PROOF
  <1>1. Init => AllSound
    <2>1. SUFFICES ASSUME Init PROVE AllSound
      OBVIOUS
    <2>2. NewPacket \in PacketType
      BY NewPacketSound DEF Sound
    <2>3. last.op \in Ops /\ last.on \in Packets
      BY <2>1, PacketApiAssumption DEF Init, Ops
    <2>4. QED
      BY <2>1, <2>2, <2>3, NewPacketSound DEF Init, AllSound
  <1>2. AllSound /\ [Next]_vars => AllSound'
    <2> SUFFICES ASSUME AllSound, [Next]_vars PROVE AllSound'
      OBVIOUS
    <2>1. ASSUME NEW k \in Packets PROVE Sound(pkts[k])
      BY DEF AllSound
    <2>2. ASSUME NEW k \in Packets, Read(k) PROVE AllSound'
      <3>1. PICK n \in ReadSizes, beyond \in Byte :
              Takes("read", k, n, read_data(pkts[k], n, FALSE, beyond))
        BY <2>2 DEF Read
      <3>2. n \in Nat
        BY PacketApiAssumption
      <3>3. Sound(read_data(pkts[k], n, FALSE, beyond).pkt)
        BY <2>1, <3>2, ReadDataSound
      <3>4. QED
        BY <3>1, <3>3, DoesSound DEF Takes, Gives, Acts, Ops
    <2>3. ASSUME NEW k \in Packets, ReadTyped(k) PROVE AllSound'
      <3>1. PICK n \in ReadSizes, enforced \in BOOLEAN, beyond \in Byte :
              Takes("read_value", k, n, ReadValue(pkts[k], n, enforced, beyond))
        BY <2>3 DEF ReadTyped
      <3>2. n \in Nat
        BY PacketApiAssumption
      <3>3. Sound(ReadValue(pkts[k], n, enforced, beyond).pkt)
        BY <2>1, <3>2, ReadValueSound
      <3>4. QED
        BY <3>1, <3>3, DoesSound DEF Takes, Gives, Acts, Ops
    <2>4. ASSUME NEW k \in Packets, ReadABool(k) PROVE AllSound'
      <3>1. PICK beyond \in Byte :
              Takes("read_bool", k, 1, ReadBool(pkts[k], beyond))
        BY <2>4 DEF ReadABool
      <3>2. Sound(ReadBool(pkts[k], beyond).pkt)
        BY <2>1, ReadValueSound
      <3>3. QED
        BY <3>1, <3>2, DoesSound DEF Takes, Gives, Acts, Ops
    <2>5. ASSUME NEW k \in Packets, ReadAString(k) PROVE AllSound'
      <3>1. PICK enforced \in BOOLEAN, beyond \in Byte :
              Takes("read_string", k, 2, ReadString(pkts[k], enforced, beyond))
        BY <2>5 DEF ReadAString
      <3>2. Sound(ReadString(pkts[k], enforced, beyond).pkt)
        BY <2>1, ReadStringSound
      <3>3. QED
        BY <3>1, <3>2, DoesSound DEF Takes, Gives, Acts, Ops
    <2>6. ASSUME NEW k \in Packets, Write(k) PROVE AllSound'
      <3>1. PICK d \in WriteData :
              Gives("write", k, d, write_data(pkts[k], d, FALSE))
        BY <2>6 DEF Write
      <3>2. d \in Seq(Byte) /\ Writable(pkts[k])
        BY <2>6, PacketApiAssumption DEF Write
      <3>3. Sound(write_data(pkts[k], d, FALSE).pkt)
        BY <2>1, <3>2, WriteDataSound
      <3>4. QED
        BY <3>1, <3>3, DoesSound DEF Takes, Gives, Acts, Ops
    <2>7. ASSUME NEW k \in Packets, WriteTyped(k) PROVE AllSound'
      <3>1. PICK d \in WriteData, enforced \in BOOLEAN :
              Gives("write_value", k, d, WriteValue(pkts[k], d, enforced))
        BY <2>7 DEF WriteTyped
      <3>2. d \in Seq(Byte) /\ Writable(pkts[k])
        BY <2>7, PacketApiAssumption DEF WriteTyped
      <3>3. Sound(WriteValue(pkts[k], d, enforced).pkt)
        BY <2>1, <3>2, WriteValueSound
      <3>4. QED
        BY <3>1, <3>3, DoesSound DEF Takes, Gives, Acts, Ops
    <2>8. ASSUME NEW k \in Packets, WriteAString(k) PROVE AllSound'
      <3>1. PICK s \in Strings, order \in LengthFirst :
              Does("write_string", k, 2 + Len(s),
                   IF order THEN <<Digits(Len(s)), s>> ELSE <<s, Digits(Len(s))>>,
                   WriteString(pkts[k], s, order))
        BY <2>8 DEF WriteAString
      <3>2. s \in Seq(Byte) /\ Writable(pkts[k])
        BY <2>8, PacketApiAssumption DEF WriteAString
      <3>3. Sound(WriteString(pkts[k], s, order).pkt)
        BY <2>1, <3>2, WriteStringSound
      <3>4. QED
        BY <3>1, <3>3, DoesSound DEF Takes, Gives, Acts, Ops
    <2>9. ASSUME NEW k \in Packets, NEW j \in Packets, AppendPacket(k, j)
          PROVE  AllSound'
      <3>1. PICK enforced \in BOOLEAN :
              Gives("append", k, pkts[j].body,
                    WritePacket(pkts[k], pkts[j], enforced))
        BY <2>9 DEF AppendPacket
      <3>2. pkts[j] \in PacketType /\ Writable(pkts[k])
        BY <2>1, <2>9 DEF AppendPacket, Sound
      <3>3. Sound(WritePacket(pkts[k], pkts[j], enforced).pkt)
        BY <2>1, <3>2, WritePacketSound
      <3>4. QED
        BY <3>1, <3>3, DoesSound DEF Takes, Gives, Acts, Ops
    <2>10. ASSUME NEW k \in Packets, Clear(k) PROVE AllSound'
      <3>1. Sound(clear(pkts[k]).pkt)
        BY <2>1, ClearSound
      <3>2. QED
        BY <2>10, <3>1, DoesSound DEF Clear, Acts, Ops
    <2>11. ASSUME NEW k \in Packets, Seek(k) PROVE AllSound'
      <3>1. PICK s \in Seeks :
              Acts("seek", k, seek(pkts[k], s[1], s[2], s[3]))
        BY <2>11 DEF Seek
      <3>2. s[1] \in {"read", "write", "both"} /\ s[3] \in Int
        BY PacketApiAssumption
      <3>3. Sound(seek(pkts[k], s[1], s[2], s[3]).pkt)
        BY <2>1, <3>2, SeekSound
      <3>4. QED
        BY <3>1, <3>3, DoesSound DEF Takes, Gives, Acts, Ops
    <2>12. ASSUME NEW k \in Packets, Resize(k) PROVE AllSound'
      <3>1. PICK n \in ResizeSizes : Takes("resize", k, n, resize(pkts[k], n))
        BY <2>12 DEF Resize
      <3>2. n \in Nat
        BY PacketApiAssumption
      <3>3. Sound(resize(pkts[k], n).pkt)
        BY <2>1, <3>2, ResizeSound
      <3>4. QED
        BY <3>1, <3>3, DoesSound DEF Takes, Gives, Acts, Ops
    <2>13. ASSUME NEW k \in Packets, NEW j \in Packets, CopyAssign(k, j)
           PROVE  AllSound'
      <3>1. Sound(Return(pkts[j], 0).pkt)
        BY <2>1 DEF Return
      <3>2. QED
        BY <2>13, <3>1, DoesSound DEF CopyAssign, Acts, Ops
    <2>14. ASSUME NEW k \in Packets, NEW j \in Packets, MoveAssign(k, j)
           PROVE  AllSound'
      <3>1. Sound(pkts[j]) /\ Sound(MovedFrom(pkts[j]))
        BY <2>1, MovedFromSound
      <3>2. pkts[j] \in PacketType /\ MovedFrom(pkts[j]) \in PacketType
        BY <3>1 DEF Sound
      <3>3. pkts' \in [Packets -> PacketType]
        BY <2>14, <3>2 DEF MoveAssign, AllSound
      <3>4. ASSUME NEW i \in Packets PROVE Sound(pkts'[i])
        BY <2>1, <2>14, <3>1 DEF MoveAssign, AllSound
      <3>5. last'.op \in Ops /\ last'.on \in Packets
        BY <2>14 DEF MoveAssign, Call, Ops
      <3>6. QED
        BY <3>3, <3>4, <3>5 DEF AllSound, Sound, PacketType, HasData,
          real_size, work_size, full
    <2>15. CASE UNCHANGED vars
      BY <2>15 DEF vars, AllSound, Sound, PacketType, HasData, real_size,
        work_size, full
    <2>16. QED
      BY <2>2, <2>3, <2>4, <2>5, <2>6, <2>7, <2>8, <2>9, <2>10, <2>11, <2>12,
        <2>13, <2>14, <2>15 DEF Next, Stream, Rearrange
  <1>3. QED
    BY <1>1, <1>2, PTL DEF Spec

\* Type correctness of the packets and of the history, for every program that
\* uses the members of sws::Packet.
THEOREM TypeCorrect == Spec => []TypeOK
PROOF
  <1>1. AllSound => TypeOK
    BY DEF AllSound, TypeOK
  <1>2. QED
    BY <1>1, Soundness, PTL

\* The length in front of the payload is the payload's, unless the packet is
\* full, however many calls failed on the way.
THEOREM HeaderTracks == Spec => []HeaderTracksSize
PROOF
  <1>1. AllSound => HeaderTracksSize
    BY DEF AllSound, Sound, HeaderTracksSize, verify_size, HasData
  <1>2. QED
    BY <1>1, Soundness, PTL

\* No call leaves the write cursor outside the buffer or on the header, but
\* for a full packet, which refuses every write.
THEOREM WriteCursorStays == Spec => []WriteCursorInBuffer
PROOF
  <1>1. AllSound => WriteCursorInBuffer
    BY DEF AllSound, Sound, WriteCursorInBuffer
  <1>2. QED
    BY <1>1, Soundness, PTL

\* clear() recovers a packet from every state that calls can bring it to.
THEOREM ClearAlwaysRecovers == Spec => ClearRecovers
PROOF
  <1> DEFINE Recovered ==
        last'.op = "clear" =>
          LET p == Is(last'.on) IN
            /\ ~last'.threw
            /\ empty(p) /\ verify_size(p)
            /\ p.read_pos = HeaderSize /\ p.write_pos = HeaderSize
  <1>1. AllSound /\ [Next]_vars => [Recovered]_vars
    <2> SUFFICES ASSUME AllSound, Next, last'.op = "clear" PROVE Recovered
      OBVIOUS
    <2>1. PICK k \in Packets : Clear(k)
      <3>1. PICK k \in Packets : Stream(k) \/ Rearrange(k)
        BY DEF Next
      <3>2. ASSUME NEW op, op # "clear", NEW want, NEW given,
                   NEW r
            PROVE  ~Does(op, k, want, given, r)
        BY <3>2 DEF Does, Call
      <3>3. /\ ~Read(k) /\ ~ReadTyped(k) /\ ~ReadABool(k) /\ ~ReadAString(k)
            /\ ~Write(k) /\ ~WriteTyped(k) /\ ~WriteAString(k)
        <4>1. ~Read(k)        BY <3>2 DEF Read, Takes
        <4>2. ~ReadTyped(k)   BY <3>2 DEF ReadTyped, Takes
        <4>3. ~ReadABool(k)   BY <3>2 DEF ReadABool, Takes
        <4>4. ~ReadAString(k) BY <3>2 DEF ReadAString, Takes
        <4>5. ~Write(k)       BY <3>2 DEF Write, Gives
        <4>6. ~WriteTyped(k)  BY <3>2 DEF WriteTyped, Gives
        <4>7. ~WriteAString(k) BY <3>2 DEF WriteAString, Gives
        <4>8. QED
          BY <4>1, <4>2, <4>3, <4>4, <4>5, <4>6, <4>7
      <3>4. ~Seek(k) /\ ~Resize(k)
        BY <3>2 DEF Seek, Resize, Takes, Acts
      <3>5. ASSUME NEW j \in Packets
            PROVE  ~AppendPacket(k, j) /\ ~CopyAssign(k, j) /\ ~MoveAssign(k, j)
        BY <3>2 DEF AppendPacket, CopyAssign, MoveAssign, Gives, Acts, Call
      <3>6. QED
        BY <3>1, <3>3, <3>4, <3>5 DEF Stream, Rearrange
    <2>2. Sound(pkts[k])
      BY DEF AllSound
    <2>3. /\ last'.on = k /\ last'.threw = clear(pkts[k]).threw
          /\ pkts'[k] = clear(pkts[k]).pkt
      BY <2>1 DEF Clear, Acts, Does, Call, AllSound
    <2>4. QED
      BY <2>2, <2>3, ClearResult DEF Is
  <1>2. QED
    BY <1>1, Soundness, PTL DEF Spec, ClearRecovers

-----------------------------------------------------------------------------
(* What each call does with the bytes.                                     *)

ReadOps  == {"read", "read_value", "read_bool", "read_string"}
WriteOps == {"write", "write_value", "write_string", "append"}

\* A call took n bytes out of packet k; it threw, or it says so, or it read
\* the length of a string and not the string.
Taking(k) ==
  \E op \in ReadOps, want \in Nat, n \in Nat : \E r :
    /\ Takes(op, k, want, r)
    /\ TakesOut(pkts[k], n, r)
    /\ \/ r.threw
       \/ r.ret = n
       \/ op = "read_string" /\ r.ret = 0 /\ n = 2
    /\ op = "read_value" => r.ret \in {0, want}

\* A call was given the bytes d for packet k, in parts, and put in those it
\* says, or threw.
Putting(k) ==
  \E op \in WriteOps : \E d, parts, want, r :
    /\ Does(op, k, want, parts, r)
    /\ Puts(pkts[k], d, r)
    /\ op \in {"write_value", "append"} => r.ret \in {0, want}

\* Each read takes bytes out.
LEMMA ReadsTake ==
  ASSUME AllSound, NEW k \in Packets,
         Read(k) \/ ReadTyped(k) \/ ReadABool(k) \/ ReadAString(k)
  PROVE  Taking(k)
PROOF
  <1> DEFINE p == pkts[k]
  <1>1. Sound(p)
    BY DEF AllSound
  <1> HIDE DEF p
  <1>2. CASE Read(k)
    <2>1. PICK n \in ReadSizes, beyond \in Byte :
            Takes("read", k, n, read_data(p, n, FALSE, beyond))
      BY <1>2 DEF Read, p
    <2> DEFINE r == read_data(p, n, FALSE, beyond)
    <2>2. n \in Nat /\ FALSE \in BOOLEAN /\ r = read_data(p, n, FALSE, beyond)
      BY PacketApiAssumption
    <2> HIDE DEF r
    <2>3. r.ret \in 0 .. n /\ TakesOut(p, r.ret, r)
      BY <1>1, <2>2, ReadDataCases
    <2>4. "read" \in ReadOps
      BY DEF ReadOps
    <2>5. r.ret \in Nat
      <3>1. \A m \in 0 .. n : m \in Nat
        BY <2>2
      <3>2. QED
        BY <2>3, <3>1, Zenon
    <2>6. QED
      BY <2>1, <2>2, <2>3, <2>4, <2>5 DEF Taking, p
  <1>3. CASE ReadTyped(k)
    <2>1. PICK n \in ReadSizes, enforced \in BOOLEAN, beyond \in Byte :
            Takes("read_value", k, n, ReadValue(p, n, enforced, beyond))
      BY <1>3 DEF ReadTyped, p
    <2> DEFINE r == ReadValue(p, n, enforced, beyond)
    <2>2. n \in Nat /\ r = ReadValue(p, n, enforced, beyond)
      BY PacketApiAssumption
    <2> HIDE DEF r
    <2>3. r.ret \in {0, n} /\ TakesOut(p, r.ret, r)
      BY <1>1, <2>2, ReadValueCases
    <2>4. "read_value" \in ReadOps /\ r.ret \in Nat
      BY <2>2, <2>3 DEF ReadOps
    <2>5. QED
      BY <2>1, <2>2, <2>3, <2>4 DEF Taking, p
  <1>4. CASE ReadABool(k)
    <2>1. PICK beyond \in Byte : Takes("read_bool", k, 1, ReadBool(p, beyond))
      BY <1>4 DEF ReadABool, p
    <2> DEFINE r == ReadBool(p, beyond)
    <2>2. r = ReadBool(p, beyond)
      OBVIOUS
    <2> HIDE DEF r
    <2>3. PICK n \in {0, 1} : TakesOut(p, n, r) /\ (r.threw \/ r.ret = n)
      BY <1>1, <2>2, ReadBoolCases
    <2>4. "read_bool" \in ReadOps /\ n \in Nat /\ 1 \in Nat
      BY <2>3 DEF ReadOps
    <2>5. QED
      BY <2>1, <2>2, <2>3, <2>4 DEF Taking, p
  <1>5. CASE ReadAString(k)
    <2>1. PICK enforced \in BOOLEAN, beyond \in Byte :
            Takes("read_string", k, 2, ReadString(p, enforced, beyond))
      BY <1>5 DEF ReadAString, p
    <2> DEFINE r == ReadString(p, enforced, beyond)
    <2>2. r = ReadString(p, enforced, beyond)
      OBVIOUS
    <2> HIDE DEF r
    <2>3. PICK n \in Nat : /\ TakesOut(p, n, r)
                           /\ r.ret = n \/ (r.ret = 0 /\ n = 2)
      BY <1>1, <2>2, ReadStringCases
    <2>4. "read_string" \in ReadOps /\ 2 \in Nat
      BY DEF ReadOps
    <2>5. QED
      BY <2>1, <2>2, <2>3, <2>4 DEF Taking, p
  <1>6. QED
    BY <1>2, <1>3, <1>4, <1>5

\* Each write puts bytes in.
LEMMA WritesPut ==
  ASSUME AllSound, NEW k \in Packets,
         \/ Write(k) \/ WriteTyped(k) \/ WriteAString(k)
         \/ \E j \in Packets \ {k} : AppendPacket(k, j)
  PROVE  Putting(k)
PROOF
  <1> DEFINE p == pkts[k]
  <1>1. Sound(p)
    BY DEF AllSound
  <1> HIDE DEF p
  <1>2. CASE Write(k)
    <2>1. PICK d \in WriteData : Gives("write", k, d, write_data(p, d, FALSE))
      BY <1>2 DEF Write, p
    <2> DEFINE r == write_data(p, d, FALSE)
    <2>2. /\ d \in Seq(Byte) /\ Writable(p) /\ FALSE \in BOOLEAN
          /\ r = write_data(p, d, FALSE)
      BY <1>2, PacketApiAssumption DEF Write, p
    <2> HIDE DEF r
    <2>3. Puts(p, d, r)
      BY <1>1, <2>2, WriteDataPuts
    <2>4. "write" \in WriteOps /\ "write" \notin {"write_value", "append"}
      BY DEF WriteOps
    <2>5. Does("write", k, Len(d), <<d>>, r)
      BY <2>1 DEF Gives, r
    <2>6. QED
      BY <2>3, <2>4, <2>5 DEF Putting, p
  <1>3. CASE WriteTyped(k)
    <2>1. PICK d \in WriteData, enforced \in BOOLEAN :
            Gives("write_value", k, d, WriteValue(p, d, enforced))
      BY <1>3 DEF WriteTyped, p
    <2> DEFINE r == WriteValue(p, d, enforced)
    <2>2. d \in Seq(Byte) /\ Writable(p) /\ r = WriteValue(p, d, enforced)
      BY <1>3, PacketApiAssumption DEF WriteTyped, p
    <2> HIDE DEF r
    <2>3. Puts(p, d, r) /\ r.ret \in {0, Len(d)}
      BY <1>1, <2>2, WriteValuePuts
    <2>4. "write_value" \in WriteOps
      BY DEF WriteOps
    <2>5. Does("write_value", k, Len(d), <<d>>, r)
      BY <2>1 DEF Gives, r
    <2>6. QED
      BY <2>3, <2>4, <2>5 DEF Putting, p
  <1>4. CASE WriteAString(k)
    <2>1. PICK s \in Strings, order \in LengthFirst :
            Does("write_string", k, 2 + Len(s),
                 IF order THEN <<Digits(Len(s)), s>> ELSE <<s, Digits(Len(s))>>,
                 WriteString(p, s, order))
      BY <1>4 DEF WriteAString, p
    <2> DEFINE r == WriteString(p, s, order)
               g == IF order THEN Digits(Len(s)) \o s ELSE s \o Digits(Len(s))
               parts == IF order THEN <<Digits(Len(s)), s>>
                                 ELSE <<s, Digits(Len(s))>>
    <2>2. /\ s \in Seq(Byte) /\ order \in BOOLEAN /\ Writable(p)
          /\ r = WriteString(p, s, order)
      BY <1>4, PacketApiAssumption DEF WriteAString, p
    <2> HIDE DEF r
    <2>3. Puts(p, g, r)
      BY <1>1, <2>2, WriteStringPuts
    <2>4. "write_string" \in WriteOps /\ "write_string" \notin {"write_value", "append"}
      BY DEF WriteOps
    <2> HIDE DEF g
    <2>5. Does("write_string", k, 2 + Len(s), parts, r)
      BY <2>1 DEF r
    <2> HIDE DEF parts
    <2>6. QED
      BY <2>3, <2>4, <2>5 DEF Putting, p
  <1>5. ASSUME NEW j \in Packets \ {k}, AppendPacket(k, j) PROVE Putting(k)
    <2> DEFINE d == pkts[j].body
    <2>1. PICK enforced \in BOOLEAN :
            Gives("append", k, d, WritePacket(p, pkts[j], enforced))
      BY <1>5 DEF AppendPacket, p
    <2> DEFINE r == WritePacket(p, pkts[j], enforced)
    <2>2. /\ pkts[j] \in PacketType /\ Writable(p) /\ d \in Seq(Byte)
          /\ r = WritePacket(p, pkts[j], enforced)
      BY <1>5 DEF AppendPacket, p, AllSound, PacketType
    <2>3. Puts(p, d, r) /\ r.ret \in {0, Len(d)}
      <3> DEFINE q == pkts[j]
      <3>1. q \in PacketType /\ r = WritePacket(p, q, enforced)
        BY <2>2
      <3> HIDE DEF r, q
      <3>2. Puts(p, q.body, r) /\ r.ret \in {0, Len(q.body)}
        BY <1>1, <2>2, <3>1, WritePacketPuts
      <3>3. QED
        BY <3>2 DEF q
    <2>4. "append" \in WriteOps
      BY DEF WriteOps
    <2> HIDE DEF r, d
    <2>5. Does("append", k, Len(d), <<d>>, r)
      BY <2>1 DEF Gives, r
    <2>6. QED
      BY <2>2, <2>3, <2>4, <2>5 DEF Putting, p
  <1>6. QED
    BY <1>2, <1>3, <1>4, <1>5

\* A call that is part of a stream takes bytes out, puts bytes in, or clears.
LEMMA StreamCalls ==
  ASSUME AllSound, NEW k \in Packets, Stream(k)
  PROVE  Taking(k) \/ Putting(k) \/ Clear(k)
BY ReadsTake, WritesPut DEF Stream

\* What a call that took bytes out did to the packet and says in the history.
LEMMA TakingMoves ==
  ASSUME AllSound, NEW k \in Packets, Taking(k)
  PROVE  CursorsMove /\ EarlierKept
PROOF
  <1>1. PICK op \in ReadOps, want \in Nat, n \in Nat : \E r :
          /\ Takes(op, k, want, r)
          /\ TakesOut(pkts[k], n, r)
          /\ \/ r.threw
             \/ r.ret = n
             \/ op = "read_string" /\ r.ret = 0 /\ n = 2
          /\ op = "read_value" => r.ret \in {0, want}
    BY DEF Taking
  <1>2. PICK r :
          /\ Takes(op, k, want, r)
          /\ TakesOut(pkts[k], n, r)
          /\ \/ r.threw
             \/ r.ret = n
             \/ op = "read_string" /\ r.ret = 0 /\ n = 2
          /\ op = "read_value" => r.ret \in {0, want}
    BY <1>1
  <1>3. /\ pkts[k] \in PacketType /\ pkts'[k] = r.pkt
        /\ last' = Call(op, k, want, << >>, r)
    BY <1>2 DEF Takes, Does, AllSound
  <1>4. /\ last'.op = op /\ last'.on = k /\ last'.want = want
        /\ last'.ret = r.ret /\ last'.threw = r.threw
    BY <1>3 DEF Call
  <1>5. /\ Is(k).body = Was(k).body /\ Is(k).header = Was(k).header
        /\ Is(k).write_pos = Was(k).write_pos
        /\ Is(k).read_pos = Was(k).read_pos + n
        /\ Was(k).read_pos \in Nat
    BY <1>2, <1>3 DEF TakesOut, PacketType, Is, Was
  <1>6. Is(k).read_pos - Was(k).read_pos = n
    <2> DEFINE c == Was(k).read_pos
    <2>1. c \in Nat /\ Is(k).read_pos = c + n
      BY <1>5
    <2> HIDE DEF c
    <2>2. QED
      BY <2>1 DEF c
  <1>7. op \notin WriteOps
    BY DEF ReadOps, WriteOps
  <1>8. EarlierKept
    BY <1>4, <1>5, <1>7, Zenon DEF EarlierKept, WriteOps
  <1>9. ASSUME ~r.threw PROVE CursorsMove
    <2>1. op # "read_string" => r.ret = n
      BY <1>2, <1>9
    <2>2. op \notin {"write", "write_value", "append"}
      BY <1>7 DEF WriteOps
    <2>3. r.ret = n \/ (n = 2 /\ r.ret = 0)
      BY <1>2, <1>9
    <2>4. op = "read_value" => r.ret \in {0, want}
      BY <1>2
    <2> HIDE DEF Is, Was
    <2>5. op \in {"read", "read_value", "read_bool"} => r.ret = n
      BY <2>1
    <2>6. op \in {"read_value", "write_value", "append"} => op = "read_value"
      BY <2>2
    <2>7. QED
      BY <1>4, <1>5, <1>6, <2>2, <2>3, <2>4, <2>5, <2>6 DEF CursorsMove
  <1>10. QED
    BY <1>4, <1>8, <1>9 DEF CursorsMove

\* The same of a call that put bytes in.
LEMMA PuttingMoves ==
  ASSUME AllSound, NEW k \in Packets, Putting(k)
  PROVE  CursorsMove /\ EarlierKept
PROOF
  <1>1. PICK op \in WriteOps : \E d, parts, want, r :
          /\ Does(op, k, want, parts, r)
          /\ Puts(pkts[k], d, r)
          /\ op \in {"write_value", "append"} => r.ret \in {0, want}
    BY DEF Putting
  <1>2. PICK d, parts, want, r :
          /\ Does(op, k, want, parts, r)
          /\ Puts(pkts[k], d, r)
          /\ op \in {"write_value", "append"} => r.ret \in {0, want}
    BY <1>1
  <1>3. pkts'[k] = r.pkt /\ last' = Call(op, k, want, parts, r)
    BY <1>2 DEF Does, AllSound
  <1>4. /\ last'.op = op /\ last'.on = k /\ last'.want = want
        /\ last'.ret = r.ret /\ last'.threw = r.threw
    BY <1>3 DEF Call
  <1>5. /\ Extends(Was(k), Is(k))
        /\ ~r.threw => Is(k).write_pos = Was(k).write_pos + r.ret
    BY <1>2, <1>3 DEF Puts, Is, Was
  <1>6. op \notin ReadOps /\ op # "seek"
    BY DEF ReadOps, WriteOps
  <1> HIDE DEF Is, Was
  <1>7. EarlierKept
    <2>1. op \notin {"read", "read_value", "read_bool", "read_string", "seek"}
      BY <1>6 DEF ReadOps
    <2>2. QED
      BY <1>4, <1>5, <2>1, Zenon DEF EarlierKept, Extends
  <1>8. CursorsMove
    <2>1. op \notin {"read", "read_value", "read_bool"} /\ op # "read_string"
      BY <1>6 DEF ReadOps
    <2>2. op \in {"read_value", "write_value", "append"} => r.ret \in {0, want}
      BY <1>2, <2>1
    <2>3. Is(k).read_pos = Was(k).read_pos
      BY <1>5 DEF Extends
    <2>4. QED
      BY <1>4, <1>5, <2>1, <2>2, <2>3, Zenon DEF CursorsMove
  <1>9. QED
    BY <1>7, <1>8

\* A seek moves cursors, and no byte.
LEMMA SeekKeeps ==
  ASSUME NEW p, Sound(p), NEW cursor \in {"read", "write", "both"}, NEW type,
         NEW value \in Int
  PROVE  LET q == seek(p, cursor, type, value).pkt
         IN  q.body = p.body /\ q.header = p.header
PROOF
  <1>1. p \in PacketType
    BY DEF Sound
  <1>2. ASSUME NEW q \in PacketType
        PROVE  LET s == SeekWrite(q, type, value).pkt
               IN  s.body = q.body /\ s.header = q.header
    <2> DEFINE s == SeekWrite(q, type, value).pkt
    <2>1. \/ s = q
          \/ \E w \in HeaderSize .. HeaderSize + work_size(q) :
               s = [q EXCEPT !.write_pos = w]
      BY SeekWriteMoves
    <2> HIDE DEF s
    <2>2. s.body = q.body /\ s.header = q.header
      BY <2>1 DEF PacketType
    <2>3. QED
      BY <2>2 DEF s
  <1>3. ASSUME NEW q \in PacketType
        PROVE  LET s == SeekRead(q, type, value).pkt
               IN  s \in PacketType /\ s.body = q.body /\ s.header = q.header
    <2> DEFINE s == SeekRead(q, type, value).pkt
    <2>1. \/ s = q
          \/ \E r \in HeaderSize .. HeaderSize + work_size(q) :
               s = [q EXCEPT !.read_pos = r]
      BY SeekReadMoves
    <2>2. \A r \in HeaderSize .. HeaderSize + work_size(q) : r \in Nat
      BY Fields DEF HeaderSize
    <2> HIDE DEF s
    <2>3. s \in PacketType /\ s.body = q.body /\ s.header = q.header
      BY <2>1, <2>2 DEF PacketType
    <2>4. QED
      BY <2>3 DEF s
  <1> DEFINE first == SeekRead(p, type, value)
  <1>4. CASE cursor = "read"
    BY <1>1, <1>3, <1>4 DEF seek
  <1>5. CASE cursor = "write"
    BY <1>1, <1>2, <1>5 DEF seek
  <1>6. CASE cursor = "both"
    <2>1. seek(p, cursor, type, value)
            = IF first.threw THEN first ELSE SeekWrite(first.pkt, type, value)
      BY <1>6 DEF seek
    <2> HIDE DEF first
    <2>2. QED
      BY <1>1, <1>2, <1>3, <2>1 DEF first
  <1>7. QED
    BY <1>4, <1>5, <1>6

\* The other calls are none of those the two properties speak of, but for the
\* seek, which keeps all bytes.
LEMMA OthersMove ==
  ASSUME AllSound, NEW k \in Packets, Clear(k) \/ Rearrange(k)
  PROVE  CursorsMove /\ EarlierKept
PROOF
  <1> DEFINE quiet == {"clear", "resize", "copy", "move", "seek"}
  <1>1. last'.op \in quiet
    BY DEF Rearrange, Clear, Seek, Resize, CopyAssign, MoveAssign, Acts, Takes,
      Does, Call
  <1>2. CursorsMove
    BY <1>1 DEF CursorsMove
  <1>3. ASSUME last'.op = "seek"
        PROVE  Is(last'.on).body = Was(last'.on).body
               /\ Is(last'.on).header = Was(last'.on).header
    <2>1. Seek(k)
      BY <1>3 DEF Rearrange, Clear, Resize, CopyAssign, MoveAssign, Acts, Takes,
        Does, Call
    <2>2. PICK s \in Seeks : Acts("seek", k, seek(pkts[k], s[1], s[2], s[3]))
      BY <2>1 DEF Seek
    <2>3. s[1] \in {"read", "write", "both"} /\ s[3] \in Int
      BY PacketApiAssumption
    <2>4. last'.on = k /\ pkts'[k] = seek(pkts[k], s[1], s[2], s[3]).pkt
      BY <2>2 DEF Acts, Does, Call, AllSound
    <2>5. Sound(pkts[k])
      BY DEF AllSound
    <2>6. QED
      BY <2>3, <2>4, <2>5, SeekKeeps DEF Is, Was
  <1>4. EarlierKept
    BY <1>1, <1>3 DEF EarlierKept
  <1>5. QED
    BY <1>2, <1>4

\* Every call.
LEMMA EveryCall ==
  ASSUME AllSound, Next
  PROVE  CursorsMove /\ EarlierKept
BY StreamCalls, TakingMoves, PuttingMoves, OthersMove DEF Next

\* Every call that does not throw moves the cursor it is about by what it
\* returns, and only that one, for every program.
THEOREM CursorsMoveAsSaid == Spec => CursorsMoveByReturn
PROOF
  <1>1. AllSound /\ [Next]_vars => [CursorsMove]_vars
    BY EveryCall
  <1>2. QED
    BY <1>1, Soundness, PTL DEF Spec, CursorsMoveByReturn

\* No call on a packet changes what was written in front of the write cursor.
THEOREM EarlierBytesStay == Spec => EarlierBytesKept
PROOF
  <1>1. AllSound /\ [Next]_vars => [EarlierKept]_vars
    BY EveryCall
  <1>2. QED
    BY <1>1, Soundness, PTL DEF Spec, EarlierBytesKept

-----------------------------------------------------------------------------
(* A packet used from front to back.                                       *)

\* It has data, the read cursor is in it, and the write cursor at its end.
Ordered(p) ==
  /\ Sound(p)
  /\ HasData(p)
  /\ p.read_pos <= real_size(p)
  /\ WritesLast(p)

\* Taking n bytes off the front of what is behind the first off ones.
LEMMA UnreadTaken ==
  ASSUME NEW s \in Seq(Byte), NEW off \in Nat, NEW n \in Nat, off + n <= Len(s),
         NEW u, u = SubSeq(s, off + 1, Len(s))
  PROVE  /\ n \in 0 .. Len(u)
         /\ SubSeq(s, off + 1, off + n) = SubSeq(u, 1, n)
         /\ SubSeq(s, off + n + 1, Len(s)) = SubSeq(u, n + 1, Len(u))
PROOF
  <1>1. u \in Seq(Byte) /\ Len(u) = Len(s) - off
    OBVIOUS
  <1>2. \A i \in 1 .. Len(s) - off : u[i] = s[off + i]
    OBVIOUS
  <1>3. n \in 0 .. Len(u)
    BY <1>1
  <1>4. SubSeq(s, off + 1, off + n) = SubSeq(u, 1, n)
    OBVIOUS
  <1>5. SubSeq(s, off + n + 1, Len(s)) = SubSeq(u, n + 1, Len(u))
    OBVIOUS
  <1>6. QED
    BY <1>3, <1>4, <1>5

\* Adding bytes at the back adds them behind the first off ones too.
LEMMA UnreadAdded ==
  ASSUME NEW s \in Seq(Byte), NEW off \in Nat, off <= Len(s), NEW e \in Seq(Byte)
  PROVE  SubSeq(s \o e, off + 1, Len(s \o e)) = SubSeq(s, off + 1, Len(s)) \o e
PROOF
  <1> DEFINE t == s \o e
             u == SubSeq(s, off + 1, Len(s))
             a == SubSeq(t, off + 1, Len(t))
             b == u \o e
             n == Len(s) - off + Len(e)
  <1>1. /\ t \in Seq(Byte) /\ Len(t) = Len(s) + Len(e)
        /\ \A i \in 1 .. Len(t) : t[i] = IF i <= Len(s) THEN s[i] ELSE e[i - Len(s)]
    OBVIOUS
  <1>2. u \in Seq(Byte) /\ Len(u) = Len(s) - off
        /\ \A i \in 1 .. Len(u) : u[i] = s[i + off]
    OBVIOUS
  <1> HIDE DEF t, u
  <1>3. /\ a \in Seq(Byte) /\ Len(a) = n
        /\ \A i \in 1 .. n : a[i] = t[i + off]
    BY <1>1
  <1>4. /\ b \in Seq(Byte) /\ Len(b) = n
        /\ \A i \in 1 .. n : b[i] = IF i <= Len(u) THEN u[i] ELSE e[i - Len(u)]
    <2>1. b \in Seq(Byte) /\ Len(b) = Len(u) + Len(e)
      BY <1>2, Concatenated
    <2>2. \A i \in 1 .. Len(u) + Len(e) :
            b[i] = IF i <= Len(u) THEN u[i] ELSE e[i - Len(u)]
      BY <1>2
    <2>3. Len(u) + Len(e) = n
      BY <1>2
    <2> HIDE DEF b, n
    <2>4. QED
      BY <2>1, <2>2, <2>3
  <1>5. ASSUME NEW i \in 1 .. n PROVE a[i] = b[i]
    <2>1. a[i] = t[i + off]
      BY <1>3
    <2>2. b[i] = IF i <= Len(u) THEN u[i] ELSE e[i - Len(u)]
      BY <1>4
    <2>3. i + off \in 1 .. Len(t) /\ i \in Nat /\ i >= 1
      BY <1>1
    <2>4. t[i + off] = IF i + off <= Len(s) THEN s[i + off]
                       ELSE e[(i + off) - Len(s)]
      BY <1>1, <2>3
    <2>5. i <= Len(u) <=> i + off <= Len(s)
      BY <1>2, <2>3
    <2>6. (i + off) - Len(s) = i - Len(u)
      BY <1>2, <2>3
    <2>7. i <= Len(u) => u[i] = s[i + off]
      BY <1>2, <2>3
    <2> HIDE DEF a, b
    <2>8. QED
      BY <2>1, <2>2, <2>4, <2>5, <2>6, <2>7
  <1> HIDE DEF a, b, n
  <1>6. a = b
    <2>1. n \in Nat
      BY DEF n
    <2>2. a = [i \in 1 .. n |-> a[i]] /\ b = [i \in 1 .. n |-> b[i]]
      BY <1>3, <1>4, <2>1
    <2>3. QED
      BY <1>5, <2>2, Zenon
  <1>7. QED
    BY <1>6 DEF a, b, t, u

\* Its fields.
LEMMA OrderedFields ==
  ASSUME NEW p, Ordered(p)
  PROVE  /\ p \in PacketType /\ p.body \in Seq(Byte) /\ Writable(p)
         /\ p.read_pos \in Nat /\ p.read_pos - HeaderSize \in Nat
         /\ real_size(p) = HeaderSize + Len(p.body)
         /\ p.read_pos - HeaderSize <= Len(p.body)
         /\ Unread(p) = SubSeq(p.body, p.read_pos - HeaderSize + 1, Len(p.body))
         /\ Unread(p) \in Seq(Byte)
         /\ Len(Unread(p)) = real_size(p) - p.read_pos
         /\ Room(p) \in Nat /\ Room(p) + real_size(p) = DatagramSize
PROOF
  <1>1. p \in PacketType /\ p.body \in Seq(Byte) /\ p.read_pos \in Nat
        /\ p.read_pos >= HeaderSize /\ p.read_pos <= real_size(p)
        /\ real_size(p) <= DatagramSize
    BY DEF Ordered, Sound, PacketType
  <1>2. real_size(p) = HeaderSize + Len(p.body) /\ Len(p.body) \in Nat
    BY <1>1 DEF Ordered, real_size, HasData
  <1>3. Writable(p)
    <2>1. p.write_pos = real_size(p) => p.write_pos >= HeaderSize
      BY <1>2 DEF HeaderSize
    <2>2. QED
      BY <2>1 DEF Ordered, WritesLast, Writable
  <1>4. /\ p.read_pos - HeaderSize \in Nat
        /\ p.read_pos - HeaderSize <= Len(p.body)
    BY <1>1, <1>2 DEF HeaderSize
  <1>5. /\ Unread(p) \in Seq(Byte)
        /\ Len(Unread(p)) = Len(p.body) - (p.read_pos - HeaderSize)
    <2> DEFINE off == p.read_pos - HeaderSize
               s   == p.body
    <2>1. off \in Nat /\ s \in Seq(Byte) /\ off <= Len(s)
      BY <1>1, <1>4
    <2> HIDE DEF off, s
    <2>2. /\ SubSeq(s, off + 1, Len(s)) \in Seq(Byte)
          /\ Len(SubSeq(s, off + 1, Len(s))) = Len(s) - off
      BY <2>1
    <2>3. QED
      BY <2>2 DEF Unread, off, s
  <1>6. Len(Unread(p)) = real_size(p) - p.read_pos
    BY <1>1, <1>2, <1>5 DEF HeaderSize
  <1>7. Room(p) \in Nat /\ Room(p) + real_size(p) = DatagramSize
    BY <1>1, <1>2, Constants DEF Room, HeaderSize
  <1>8. QED
    BY <1>1, <1>2, <1>3, <1>4, <1>5, <1>6, <1>7 DEF Unread

\* The bytes e were added at the back of p, which gave q.
Grows(p, e, q) ==
  /\ Ordered(q)
  /\ q.body = p.body \o e
  /\ q.read_pos = p.read_pos
  /\ Room(q) = Room(p) - Len(e)

\* Nothing was.
LEMMA GrowsNot ==
  ASSUME NEW p, Ordered(p) PROVE Grows(p, << >>, p)
PROOF
  <1>1. p.body \in Seq(Byte) /\ Room(p) \in Nat
    BY OrderedFields
  <1>2. p.body \o << >> = p.body
    BY <1>1
  <1>3. Room(p) = Room(p) - Len(<< >>)
    BY <1>1
  <1>4. QED
    BY <1>2, <1>3 DEF Grows

\* How much of d a write adds: all of it if there is room, and if there is not
\* what fits, or nothing of a whole value.
Fits(p, d, whole) ==
  IF Len(d) <= Room(p) THEN Len(d) ELSE IF whole THEN 0 ELSE Room(p)

\* A write adds that much, and throws if that fills the packet.
LEMMA WriteGrows ==
  ASSUME NEW p, Ordered(p), NEW d \in Seq(Byte), NEW whole \in BOOLEAN,
         NEW r, r = write_data(p, d, whole),
         NEW n, n = Fits(p, d, whole)
  PROVE  /\ Grows(p, SubSeq(d, 1, n), r.pkt)
         /\ n \in 0 .. Len(d) /\ n <= Room(p) /\ Len(SubSeq(d, 1, n)) = n
         /\ r.out = << >>
         /\ r.threw <=> Room(p) > 0 /\ n = Room(p)
         /\ ~r.threw => r.ret = n
PROOF
  <1>0. n = IF Len(d) <= Room(p) THEN Len(d) ELSE IF whole THEN 0 ELSE Room(p)
    BY DEF Fits
  <1> USE <1>0
  <1>1. /\ p \in PacketType /\ p.body \in Seq(Byte) /\ Writable(p) /\ Sound(p)
        /\ Room(p) \in Nat /\ Room(p) + real_size(p) = DatagramSize
        /\ real_size(p) = HeaderSize + Len(p.body) /\ WritesLast(p) /\ HasData(p)
    BY OrderedFields DEF Ordered
  <1> DEFINE room == Room(p)
             size == real_size(p)
             l    == Len(p.body)
  <1>a. /\ room \in Nat /\ size = 2 + l /\ l \in Nat /\ room + size = DatagramSize
        /\ DatagramSize \in Nat /\ size \in Nat
    BY <1>1, Constants DEF HeaderSize
  <1>2. n \in 0 .. Len(d) /\ n <= Room(p) /\ n \in Nat /\ Len(d) \in Nat
    BY <1>1
  <1>3. /\ SubSeq(d, 1, n) \in Seq(Byte) /\ Len(SubSeq(d, 1, n)) = n
        /\ n = 0 => SubSeq(d, 1, n) = << >>
    BY <1>2
  <1>4. full(p) <=> Room(p) = 0
    BY <1>1 DEF full, HeaderSize
  <1>5. ~full(p) => p.write_pos = real_size(p)
    BY <1>1 DEF WritesLast
  <1>6. ~full(p) => (Refuses(p, d, whole) <=> whole /\ Len(d) > Room(p))
    BY <1>1, <1>2, <1>5, Constants DEF Refuses, HeaderSize
  <1>7. CASE Refuses(p, d, whole)
    <2>1. n = 0
      BY <1>1, <1>2, <1>4, <1>6, <1>7
    <2>2. r = Return(p, 0)
      BY <1>1, <1>7, WriteDataCases
    <2>3. r.pkt = p /\ r.ret = 0 /\ r.out = << >> /\ ~r.threw
      BY <2>2 DEF Return
    <2>4. Grows(p, SubSeq(d, 1, n), p)
      BY <1>3, <2>1, GrowsNot
    <2>5. ~(Room(p) > 0 /\ n = Room(p))
      BY <1>1, <2>1
    <2>6. QED
      BY <1>2, <1>3, <2>1, <2>3, <2>4, <2>5
  <1>8. CASE ~Refuses(p, d, whole)
    <2>1. PICK m \in 0 .. Len(d), body \in Seq(Byte) :
            /\ Places(p, d, whole, body, m) /\ Stores(p, body, m, r)
            /\ body = p.body \o SubSeq(d, 1, m)
            /\ Len(body) = Len(p.body) + m
            /\ WritesLast(r.pkt)
      BY <1>1, <1>8, WriteEnd
    <2>2. ~full(p) /\ p.write_pos = real_size(p)
      BY <1>5, <1>8 DEF Refuses
    <2>3. m = n
      <3>1. m = Smaller(DatagramSize - p.write_pos, Len(d))
        BY <2>1 DEF Places
      <3>2. DatagramSize - p.write_pos = Room(p)
        <4> HIDE DEF room, size, l
        <4>1. DatagramSize - size = room
          BY <1>a
        <4>2. QED
          BY <2>2, <4>1 DEF room, size
      <3>3. ~(whole /\ Len(d) > Room(p))
        BY <1>6, <1>8, <2>2
      <3>4. QED
        BY <1>1, <1>2, <3>1, <3>2, <3>3 DEF Smaller
    <2>4. Stores(p, body, n, r)
      BY <2>1, <2>3
    <2>5. /\ r.pkt.body = body /\ r.pkt.read_pos = p.read_pos /\ r.out = << >>
          /\ HasData(r.pkt) /\ real_size(r.pkt) = HeaderSize + Len(body)
          /\ r.threw <=> HeaderSize + Len(body) = DatagramSize
          /\ ~r.threw => r.ret = n
      BY <1>1, <1>2, <2>4, StoresFields
    <2>6. /\ body = p.body \o SubSeq(d, 1, n)
          /\ Len(body) = Len(p.body) + n
          /\ WritesLast(r.pkt)
      BY <2>1, <2>3
    <2> DEFINE k == HeaderSize + Len(body)
    <2>7. k = size + n /\ n \in Nat
      <3>1. Len(body) = l + n
        BY <2>6
      <3>2. size = 2 + l /\ l \in Nat /\ n \in Nat
        BY <1>2, <1>a
      <3> HIDE DEF size, l
      <3>3. QED
        BY <3>1, <3>2 DEF HeaderSize
    <2>8. real_size(r.pkt) = k /\ (r.threw <=> k = DatagramSize)
      BY <2>5
    <2>9. /\ r.threw <=> n = Room(p)
          /\ Room(r.pkt) = Room(p) - n
          /\ Room(p) > 0
          /\ r.pkt.read_pos <= real_size(r.pkt)
      <3> DEFINE c == p.read_pos
      <3>1. c \in Nat /\ c <= size
        BY OrderedFields DEF Ordered
      <3>2. room # 0
        BY <1>4, <2>2
      <3>3. Room(r.pkt) = DatagramSize - k
        BY <2>8 DEF Room
      <3> HIDE DEF room, size, l, k, c
      <3>4. /\ k = DatagramSize <=> n = room
            /\ DatagramSize - k = room - n
            /\ room > 0
            /\ c <= k
        BY <1>a, <2>7, <3>1, <3>2
      <3>5. QED
        BY <2>5, <2>8, <3>3, <3>4 DEF room, c
    <2>10. Sound(r.pkt)
      BY <1>1, WriteDataSound
    <2>11. QED
      BY <1>2, <1>3, <2>5, <2>6, <2>9, <2>10 DEF Grows, Ordered
  <1>9. QED
    BY <1>7, <1>8

\* What a read takes out: all it asks for if that is there, and if not what is
\* there, or nothing of a whole value.
LEMMA ReadExact ==
  ASSUME NEW p, Ordered(p), NEW size \in Nat, NEW whole \in BOOLEAN,
         NEW beyond \in Byte, NEW r, r = read_data(p, size, whole, beyond)
  PROVE  /\ ~r.threw /\ TakesOut(p, r.ret, r)
         /\ r.ret = IF size <= Len(Unread(p)) THEN size
                    ELSE IF whole THEN 0 ELSE Len(Unread(p))
PROOF
  <1> DEFINE n == IF p.read_pos <= real_size(p)
                    THEN Smaller(real_size(p) - p.read_pos, size)
                    ELSE size
             l == Len(Unread(p))
  <1>1. /\ p.body \in Seq(Byte) /\ real_size(p) = HeaderSize + Len(p.body)
        /\ p.read_pos - HeaderSize \in Nat /\ p.read_pos \in Nat
        /\ l = real_size(p) - p.read_pos /\ Unread(p) \in Seq(Byte)
        /\ p.read_pos <= real_size(p) /\ Sound(p)
    BY OrderedFields DEF Ordered
  <1>2. l \in Nat
    BY <1>1
  <1>3. n = IF size <= l THEN size ELSE l
    BY <1>1, <1>2 DEF Smaller
  <1>4. empty(p) => l = 0
    BY <1>1, <1>2 DEF empty, work_size, HeaderSize
  <1>5. r.ret = IF empty(p) \/ n = 0 \/ (whole /\ n < size) THEN 0 ELSE n
    BY DEF read_data, Return
  <1>6. ~r.threw /\ TakesOut(p, r.ret, r)
    BY <1>1, ReadDataCases
  <1> HIDE DEF n, l
  <1>7. r.ret = IF size <= l THEN size ELSE IF whole THEN 0 ELSE l
    BY <1>2, <1>3, <1>4, <1>5
  <1>8. QED
    BY <1>6, <1>7 DEF l

\* A whole read takes out all it asks for or nothing.
LEMMA ReadWhole ==
  ASSUME NEW p, Ordered(p), NEW size \in Nat, NEW beyond \in Byte,
         NEW r, r = read_data(p, size, TRUE, beyond)
  PROVE  /\ ~r.threw /\ TakesOut(p, r.ret, r)
         /\ r.ret = IF size <= Len(Unread(p)) THEN size ELSE 0
PROOF
  <1>1. TRUE \in BOOLEAN
    OBVIOUS
  <1>2. /\ ~r.threw /\ TakesOut(p, r.ret, r)
        /\ r.ret = IF size <= Len(Unread(p)) THEN size
                   ELSE IF TRUE THEN 0 ELSE Len(Unread(p))
    BY <1>1, ReadExact
  <1>3. QED
    BY <1>2

\* Every element of a sequence of bytes is one.
LEMMA Elements ==
  ASSUME NEW v \in Seq(Byte) PROVE \A i \in 1 .. Len(v) : v[i] \in Byte
OBVIOUS

\* The first two bytes of a sequence, and what is behind them.
LEMMA FrontTwo ==
  ASSUME NEW u \in Seq(Byte), ~(Len(u) < 2)
  PROVE  /\ SubSeq(u, 1, 2) \in Byte \X Byte
         /\ Len(SubSeq(u, 3, Len(u))) = Len(u) - 2
PROOF
  <1> DEFINE v == SubSeq(u, 1, 2)
  <1>1. Len(u) \in Nat /\ Len(u) >= 2
    OBVIOUS
  <1>2. v \in Seq(Byte) /\ Len(v) = 2
    BY <1>1
  <1> HIDE DEF v
  <1>3. v[1] \in Byte /\ v[2] \in Byte
    <2>1. \A i \in 1 .. Len(v) : v[i] \in Byte
      BY <1>2, Elements
    <2>2. \A i \in 1 .. 2 : v[i] \in Byte
      BY <1>2, <2>1
    <2>3. QED
      BY <2>2
  <1>4. v \in Byte \X Byte
    <2>1. v = [i \in 1 .. 2 |-> v[i]]
      BY <1>2
    <2>2. v = <<v[1], v[2]>>
      BY <2>1
    <2>3. QED
      BY <1>3, <2>2
  <1>5. Len(SubSeq(u, 3, Len(u))) = Len(u) - 2
    <2> DEFINE l == Len(u)
    <2>1. l \in Nat /\ l >= 2 /\ l <= Len(u)
      BY <1>1
    <2> HIDE DEF l
    <2>2. Len(SubSeq(u, 3, l)) = l - 2
      BY <2>1
    <2>3. QED
      BY <2>2 DEF l
  <1>6. QED
    BY <1>4, <1>5 DEF v

\* A value is taken out whole or not at all, and operator>> throws in the
\* latter case.
LEMMA ReadValueExact ==
  ASSUME NEW p, Ordered(p), NEW size \in Nat, NEW enforced \in BOOLEAN,
         NEW beyond \in Byte, NEW r, r = ReadValue(p, size, enforced, beyond)
  PROVE  /\ TakesOut(p, r.ret, r)
         /\ size <= Len(Unread(p)) => ~r.threw /\ r.ret = size
         /\ size > Len(Unread(p))  => r.ret = 0 /\ (enforced => r.threw)
PROOF
  <1> DEFINE s == read_data(p, size, TRUE, beyond)
             l == Len(Unread(p))
  <1>1. ~s.threw /\ s.ret = IF size <= l THEN size ELSE 0
    BY ReadWhole
  <1>2. Sound(p) /\ l \in Nat
    BY OrderedFields DEF Ordered
  <1>3. TakesOut(p, r.ret, r)
    BY <1>2, ReadValueCases
  <1>4. r = IF enforced /\ s.ret # size THEN Throw(s.pkt) ELSE s
    BY DEF ReadValue
  <1> HIDE DEF s, l
  <1>5. size <= l => r = s
    BY <1>1, <1>4
  <1>6. ASSUME size > l PROVE r.ret = 0 /\ (enforced => r.threw)
    <2>1. s.ret = 0 /\ s.ret # size
      BY <1>1, <1>2, <1>6
    <2>2. QED
      BY <1>4, <2>1 DEF Throw
  <1>7. QED
    BY <1>1, <1>3, <1>5, <1>6 DEF l

\* What is behind the bytes that were taken out.
LEMMA TakesFront ==
  ASSUME NEW p, Ordered(p), NEW n \in Nat, NEW r, TakesOut(p, n, r)
  PROVE  /\ Ordered(r.pkt) /\ Room(r.pkt) = Room(p)
         /\ n \in 0 .. Len(Unread(p))
         /\ r.out = SubSeq(Unread(p), 1, n)
         /\ Unread(r.pkt) = SubSeq(Unread(p), n + 1, Len(Unread(p)))
PROOF
  <1> DEFINE s   == p.body
             off == p.read_pos - HeaderSize
             q   == r.pkt
             u   == Unread(p)
  <1>1. /\ p \in PacketType /\ s \in Seq(Byte) /\ p.read_pos \in Nat
        /\ off \in Nat /\ u = SubSeq(s, off + 1, Len(s))
        /\ real_size(p) = HeaderSize + Len(s)
        /\ p.read_pos <= real_size(p) /\ Sound(p)
        /\ HasData(p) /\ WritesLast(p)
    BY OrderedFields DEF Ordered
  <1>2. /\ q = [p EXCEPT !.read_pos = @ + n]
        /\ p.read_pos + n <= real_size(p)
        /\ r.out = SubSeq(s, off + 1, off + n)
    BY <1>1 DEF TakesOut
  <1>3. /\ q.body = s /\ q.header = p.header /\ q.write_pos = p.write_pos
        /\ q.read_pos = p.read_pos + n /\ q \in PacketType
    <2> DEFINE c == p.read_pos + n
    <2>1. p \in PacketType /\ c \in Nat /\ q = [p EXCEPT !.read_pos = c]
      BY <1>1, <1>2
    <2> HIDE DEF c, q
    <2>2. /\ q.body = p.body /\ q.header = p.header /\ q.write_pos = p.write_pos
          /\ q.read_pos = c /\ q \in PacketType
      BY <2>1 DEF PacketType
    <2>3. QED
      BY <2>2 DEF c
  <1>4. /\ real_size(q) = real_size(p) /\ HasData(q) /\ WritesLast(q)
        /\ Room(q) = Room(p) /\ full(q) = full(p) /\ work_size(q) = work_size(p)
    BY <1>1, <1>3 DEF real_size, HasData, WritesLast, full, Room, work_size
  <1>5. q.read_pos >= HeaderSize /\ q.read_pos <= real_size(q)
    <2> DEFINE c == p.read_pos
               m == real_size(p)
    <2>1. c >= 2 /\ c \in Nat /\ c + n <= m
      BY <1>1, <1>2 DEF Sound, HeaderSize
    <2>2. q.read_pos = c + n /\ real_size(q) = m
      BY <1>3, <1>4
    <2> HIDE DEF c, m
    <2>3. QED
      BY <2>1, <2>2 DEF HeaderSize
  <1>6. Sound(q)
    BY <1>1, <1>3, <1>4, <1>5 DEF Sound, HasData
  <1>7. Ordered(q)
    BY <1>4, <1>5, <1>6 DEF Ordered
  <1>8. off + n <= Len(s)
    <2> DEFINE c == p.read_pos
               l == Len(s)
               m == real_size(p)
    <2>0. c \in Nat /\ l \in Nat /\ c + n <= m /\ m = HeaderSize + l
      BY <1>1, <1>2
    <2>1. c \in Nat /\ l \in Nat /\ c + n <= 2 + l
      BY <2>0 DEF HeaderSize
    <2> HIDE DEF c, l
    <2>2. (c - 2) + n <= l
      BY <2>1
    <2>3. QED
      BY <2>2 DEF c, l, HeaderSize
  <1>9. Unread(q) = SubSeq(s, off + n + 1, Len(s))
    <2>1. q.read_pos - HeaderSize + 1 = off + n + 1
      BY <1>1, <1>3 DEF HeaderSize
    <2> HIDE DEF q, s, off
    <2>2. QED
      BY <1>3, <2>1 DEF Unread
  <1> HIDE DEF s, off, u, q
  <1>10. /\ n \in 0 .. Len(u)
         /\ SubSeq(s, off + 1, off + n) = SubSeq(u, 1, n)
         /\ SubSeq(s, off + n + 1, Len(s)) = SubSeq(u, n + 1, Len(u))
    BY <1>1, <1>8, UnreadTaken
  <1>11. QED
    BY <1>2, <1>4, <1>7, <1>9, <1>10 DEF u, q

-----------------------------------------------------------------------------
(* A packet used from front to back is a queue.                            *)

\* What was added at the back of the packet entered the queue.
LEMMA GrowsEnters ==
  ASSUME NEW p, Ordered(p), NEW e \in Seq(Byte), Len(e) <= Room(p),
         NEW q, Grows(p, e, q)
  PROVE  AsQueue(q) = Queue!Enter(AsQueue(p), e)
PROOF
  <1> DEFINE s   == p.body
             off == p.read_pos - HeaderSize
             t   == s \o e
  <1>1. /\ s \in Seq(Byte) /\ off \in Nat /\ off <= Len(s)
        /\ Unread(p) = SubSeq(s, off + 1, Len(s))
    BY OrderedFields
  <1>2. Unread(q) = SubSeq(t, off + 1, Len(t))
    BY DEF Grows, Unread
  <1> HIDE DEF s, off
  <1>3. Unread(q) = Unread(p) \o e
    BY <1>1, <1>2, UnreadAdded
  <1>4. Room(q) = Room(p) - Len(e)
    BY DEF Grows
  <1>5. QED
    BY <1>3, <1>4, Zenon DEF AsQueue, Queue!Enter

\* What is given whole enters if there is room, and the answer says so, unless
\* that filled the packet.
Whole(p, d, r) ==
  /\ Ordered(r.pkt) /\ r.out = << >>
  /\ AsQueue(r.pkt) = Queue!Enter(AsQueue(p), d)
  /\ Len(d) <= Room(p) =>
       /\ Room(r.pkt) = Room(p) - Len(d)
       /\ r.threw <=> Room(p) > 0 /\ Room(r.pkt) = 0
       /\ ~r.threw => r.ret = Len(d)
  /\ Len(d) > Room(p) => r.threw \/ r.ret = 0

\* A whole write of d, before anything is made of its result.
LEMMA WholeWrite ==
  ASSUME NEW p, Ordered(p), NEW d \in Seq(Byte),
         NEW r, r = write_data(p, d, TRUE)
  PROVE  Whole(p, d, r) /\ (Len(d) > Room(p) => ~r.threw /\ r.ret = 0)
PROOF
  <1> DEFINE room == Room(p)
             n    == Len(d)
             m    == IF n <= room THEN n ELSE 0
             e    == SubSeq(d, 1, m)
  <1>1. room \in Nat /\ n \in Nat
    BY OrderedFields
  <1>2. /\ Grows(p, e, r.pkt) /\ Len(e) = m
        /\ r.out = << >>
        /\ r.threw <=> room > 0 /\ m = room
        /\ ~r.threw => r.ret = m
    <2>1. m = Fits(p, d, TRUE) /\ TRUE \in BOOLEAN
      BY DEF Fits
    <2> HIDE DEF m
    <2>2. QED
      BY <2>1, WriteGrows
  <1>3. n <= room => m = n /\ e = d
    OBVIOUS
  <1>4. ~(n <= room) => m = 0 /\ e = << >>
    OBVIOUS
  <1>5. m \in Nat /\ m <= room /\ e \in Seq(Byte)
    <2>1. m \in 0 .. n /\ m <= room
      BY <1>1
    <2> HIDE DEF m
    <2>2. QED
      BY <2>1
  <1>6. Ordered(r.pkt) /\ Room(r.pkt) = room - m
    BY <1>2 DEF Grows
  <1>7. AsQueue(r.pkt) = Queue!Enter(AsQueue(p), e)
    <2> HIDE DEF e, m
    <2>1. Len(e) <= Room(p)
      BY <1>2, <1>5
    <2>2. QED
      BY <1>2, <1>5, <2>1, GrowsEnters
  <1>8. AsQueue(r.pkt) = Queue!Enter(AsQueue(p), d)
    <2>1. CASE n <= room
      BY <1>3, <1>7, <2>1
    <2>2. CASE ~(n <= room)
      <3>1. AsQueue(p).room = room /\ AsQueue(p).bytes = Unread(p)
        BY DEF AsQueue
      <3>2. Queue!Enter(AsQueue(p), d) = AsQueue(p)
        BY <2>2, <3>1 DEF Queue!Enter
      <3>3. Unread(p) \in Seq(Byte)
        BY OrderedFields
      <3>4. Unread(p) \o << >> = Unread(p) /\ Len(<< >>) = 0
        BY <3>3
      <3>5. room - 0 = room /\ 0 <= room
        BY <1>1
      <3>6. Queue!Enter(AsQueue(p), << >>)
              = [bytes |-> Unread(p) \o << >>, room |-> room - 0]
        <4> HIDE DEF room
        <4>1. QED
          BY <3>1, <3>4, <3>5 DEF Queue!Enter
      <3> HIDE DEF room, e, m
      <3>7. Queue!Enter(AsQueue(p), << >>) = AsQueue(p)
        BY <3>4, <3>5, <3>6 DEF AsQueue, room
      <3>8. QED
        BY <1>4, <1>7, <2>2, <3>2, <3>7
    <2>3. QED
      BY <2>1, <2>2
  <1> HIDE DEF room, n, e, m
  <1>9. /\ n <= room => /\ Room(r.pkt) = room - n
                        /\ r.threw <=> room > 0 /\ Room(r.pkt) = 0
                        /\ ~r.threw => r.ret = n
        /\ n > room => ~r.threw /\ r.ret = 0
    <2>1. n <= room => m = n
      BY <1>3
    <2>2. n > room => m = 0 /\ ~(n <= room)
      BY <1>1, <1>4
    <2>3. n <= room \/ n > room
      BY <1>1
    <2>4. r.threw <=> room > 0 /\ m = room
      BY <1>2
    <2>5. ~r.threw => r.ret = m
      BY <1>2
    <2>6. Room(r.pkt) = room - m
      BY <1>6
    <2>7. Room(r.pkt) = 0 <=> m = room
      <3>1. room - m = 0 <=> m = room
        BY <1>1, <1>5
      <3>2. QED
        BY <2>6, <3>1, Zenon
    <2>8. r.threw <=> room > 0 /\ Room(r.pkt) = 0
      BY <2>4, <2>7
    <2>9. n <= room => Room(r.pkt) = room - n /\ (~r.threw => r.ret = n)
      BY <2>1, <2>5, <2>6
    <2>10. m = 0 => ~r.threw /\ r.ret = 0
      <3>1. ~(room > 0 /\ 0 = room)
        BY <1>1
      <3>2. QED
        BY <2>4, <2>5, <3>1, Zenon
    <2>11. QED
      BY <2>2, <2>8, <2>9, <2>10
  <1>10. QED
    BY <1>2, <1>6, <1>8, <1>9 DEF Whole, room, n

\* operator<< throws where write returns 0.
LEMMA WholeThrown ==
  ASSUME NEW p, NEW d, NEW s, Whole(p, d, s), NEW r,
         r = s \/ (r = Throw(s.pkt) /\ s.ret # Len(d))
  PROVE  Whole(p, d, r)
PROOF
  <1>1. CASE r = s
    BY <1>1
  <1>2. CASE r = Throw(s.pkt) /\ s.ret # Len(d)
    <2>1. r.pkt = s.pkt /\ r.threw /\ r.out = << >>
      BY <1>2 DEF Throw
    <2>2. Len(d) <= Room(p) => s.threw
      BY <1>2 DEF Whole
    <2>3. QED
      BY <2>1, <2>2 DEF Whole
  <1>3. QED
    BY <1>1, <1>2

-----------------------------------------------------------------------------
(* Packets are byte queues, call by call.                                  *)

\* While packets are used from front to back.
InOrder == \A k \in Packets : Ordered(pkts[k])

\* A call that keeps one packet in order keeps all.
LEMMA KeepsOrder ==
  ASSUME AllSound, InOrder, NEW k \in Packets, NEW op, NEW want, NEW parts, NEW r,
         Does(op, k, want, parts, r), Ordered(r.pkt)
  PROVE  InOrder'
PROOF
  <1>1. pkts' = [pkts EXCEPT ![k] = r.pkt] /\ pkts \in [Packets -> PacketType]
    BY DEF Does, AllSound
  <1>2. \A j \in Packets : Ordered(pkts'[j])
    BY <1>1 DEF InOrder
  <1>3. QED
    BY <1>2 DEF InOrder, Ordered, Sound, PacketType, HasData, real_size,
      work_size, WritesLast, full

\* A call that changes one packet changes that packet's queue alone.
LEMMA OneQueue ==
  ASSUME AllSound, NEW k \in Packets, NEW op, NEW want, NEW parts, NEW r,
         Does(op, k, want, parts, r)
  PROVE  /\ [j \in Packets |-> AsQueue(pkts[j])]'
              = [[j \in Packets |-> AsQueue(pkts[j])] EXCEPT ![k] = AsQueue(r.pkt)]
         /\ last'.op = op /\ last'.want = want
         /\ last'.given = parts /\ last'.out = r.out
         /\ (IF last'.threw THEN -1 ELSE last'.ret)
              = IF r.threw THEN -1 ELSE r.ret
PROOF
  <1>1. pkts' = [pkts EXCEPT ![k] = r.pkt] /\ last' = Call(op, k, want, parts, r)
    BY DEF Does
  <1>2. pkts \in [Packets -> PacketType]
    BY DEF AllSound
  <1>3. ASSUME NEW j \in Packets
        PROVE  pkts'[j] = IF j = k THEN r.pkt ELSE pkts[j]
    BY <1>1, <1>2
  <1>4. [j \in Packets |-> AsQueue(pkts'[j])]
          = [[j \in Packets |-> AsQueue(pkts[j])] EXCEPT ![k] = AsQueue(r.pkt)]
    BY <1>3
  <1>5. /\ last'.op = op /\ last'.want = want
        /\ last'.given = parts /\ last'.out = r.out /\ last'.threw = r.threw
        /\ last'.ret = r.ret
    BY <1>1 DEF Call
  <1>6. QED
    BY <1>4, <1>5

\* A call that put something in.
LEMMA EntersQueue ==
  ASSUME AllSound, NEW k \in Packets, NEW op, NEW want, NEW parts, NEW r, NEW n,
         Does(op, k, want, parts, r),
         r.threw <=> \/ Room(pkts[k]) > 0 /\ Room(r.pkt) = 0
                     \/ n = -1,
         ~r.threw => r.ret = n
  PROVE  Queue!Entered(k, AsQueue(r.pkt), n)
PROOF
  <1> DEFINE queues == [j \in Packets |-> AsQueue(pkts[j])]
             answer == IF last'.threw THEN -1 ELSE last'.ret
  <1>1. /\ queues' = [queues EXCEPT ![k] = AsQueue(r.pkt)]
        /\ answer = IF r.threw THEN -1 ELSE r.ret
    BY OneQueue
  <1>2. queues[k].room = Room(pkts[k]) /\ AsQueue(r.pkt).room = Room(r.pkt)
    BY DEF AsQueue
  <1>3. answer = IF queues[k].room > 0 /\ AsQueue(r.pkt).room = 0 THEN -1 ELSE n
    <2> HIDE DEF queues, answer
    <2>1. QED
      BY <1>1, <1>2
  <1>4. QED
    BY <1>1, <1>3, Zenon DEF Queue!Entered, Queue!Failed

\* A call that took n bytes out.
LEMMA LeavesQueue ==
  ASSUME AllSound, InOrder, NEW k \in Packets, NEW op, NEW want, NEW parts, NEW r,
         NEW n \in Nat, Does(op, k, want, parts, r), TakesOut(pkts[k], n, r)
  PROVE  Queue!Leave(k, n) /\ InOrder'
PROOF
  <1> DEFINE queues == [j \in Packets |-> AsQueue(pkts[j])]
             p == pkts[k]
             u == Unread(p)
             v == SubSeq(u, n + 1, Len(u))
  <1>1. Ordered(p)
    BY DEF InOrder
  <1>2. /\ Ordered(r.pkt) /\ Room(r.pkt) = Room(p)
        /\ r.out = SubSeq(u, 1, n) /\ Unread(r.pkt) = v
    <2> HIDE DEF p
    <2>1. TakesOut(p, n, r)
      BY DEF p
    <2>2. QED
      BY <1>1, <2>1, TakesFront
  <1>3. queues' = [queues EXCEPT ![k] = AsQueue(r.pkt)] /\ last'.out = r.out
    BY OneQueue
  <1>4. queues[k] = [bytes |-> u, room |-> Room(p)]
    BY DEF AsQueue
  <1>5. AsQueue(r.pkt) = [bytes |-> v, room |-> Room(p)]
    BY <1>2 DEF AsQueue
  <1> HIDE DEF p, u, queues
  <1> HIDE DEF v
  <1>6. /\ queues[k].bytes = u
        /\ [queues[k] EXCEPT !.bytes = v] = AsQueue(r.pkt)
    BY <1>4, <1>5
  <1>7. queues' = [queues EXCEPT ![k].bytes = SubSeq(@, n + 1, Len(@))]
    BY <1>3, <1>6 DEF v
  <1>8. last'.out = SubSeq(queues[k].bytes, 1, n)
    BY <1>2, <1>3, <1>6
  <1>9. Queue!Leave(k, n)
    BY <1>7, <1>8, Zenon DEF Queue!Leave, queues
  <1>10. InOrder'
    BY <1>2, KeepsOrder
  <1>11. QED
    BY <1>9, <1>10

\* The raw read.
LEMMA ReadGets ==
  ASSUME AllSound, InOrder, NEW k \in Packets, Read(k)
  PROVE  Queue!Get(k) /\ InOrder'
PROOF
  <1> DEFINE p      == pkts[k]
             l      == Len(Unread(p))
             queues == [j \in Packets |-> AsQueue(pkts[j])]
             answer == IF last'.threw THEN -1 ELSE last'.ret
  <1>1. Ordered(p) /\ l \in Nat
    BY OrderedFields DEF InOrder
  <1>2. PICK n \in ReadSizes, beyond \in Byte :
          Takes("read", k, n, read_data(p, n, FALSE, beyond))
    BY DEF Read
  <1> DEFINE r == read_data(p, n, FALSE, beyond)
  <1>3. n \in Nat /\ FALSE \in BOOLEAN /\ r = read_data(p, n, FALSE, beyond)
    BY PacketApiAssumption
  <1>4. Does("read", k, n, << >>, r)
    BY <1>2 DEF Takes
  <1>5. ~r.threw /\ TakesOut(p, r.ret, r) /\ r.ret = IF n <= l THEN n ELSE l
    <2> HIDE DEF r, p
    <2>1. QED
      BY <1>1, <1>3, ReadExact
  <1> HIDE DEF r
  <1>6. r.ret \in Nat
    <2> HIDE DEF l
    <2>1. QED
      BY <1>1, <1>3, <1>5
  <1>7. Queue!Leave(k, r.ret) /\ InOrder'
    BY <1>4, <1>5, <1>6, LeavesQueue
  <1>8. last'.op = "read" /\ last'.want = n /\ last'.given = << >> /\ answer = r.ret
    BY <1>4, <1>5, OneQueue
  <1>9. Len(queues[k].bytes) = l
    BY DEF AsQueue
  <1>10. Queue!GetBytes(k)
    <2> HIDE DEF l, answer, queues
    <2>1. r.ret = IF last'.want <= Len(queues[k].bytes) THEN last'.want
                  ELSE Len(queues[k].bytes)
      BY <1>5, <1>8, <1>9
    <2>2. QED
      BY <1>7, <1>8, <2>1, Zenon DEF Queue!GetBytes, queues, answer
  <1>11. QED
    BY <1>7, <1>8, <1>10 DEF Queue!Get

\* A read of a value.
LEMMA ReadTypedGets ==
  ASSUME AllSound, InOrder, NEW k \in Packets, ReadTyped(k)
  PROVE  Queue!Get(k) /\ InOrder'
PROOF
  <1> DEFINE p      == pkts[k]
             l      == Len(Unread(p))
             queues == [j \in Packets |-> AsQueue(pkts[j])]
             answer == IF last'.threw THEN -1 ELSE last'.ret
  <1>1. Ordered(p) /\ l \in Nat
    BY OrderedFields DEF InOrder
  <1>2. PICK n \in ReadSizes, enforced \in BOOLEAN, beyond \in Byte :
          Takes("read_value", k, n, ReadValue(p, n, enforced, beyond))
    BY DEF ReadTyped
  <1> DEFINE r == ReadValue(p, n, enforced, beyond)
  <1>3. n \in Nat /\ r = ReadValue(p, n, enforced, beyond)
    BY PacketApiAssumption
  <1>4. Does("read_value", k, n, << >>, r)
    BY <1>2 DEF Takes
  <1>5. /\ TakesOut(p, r.ret, r)
        /\ n <= l => ~r.threw /\ r.ret = n
        /\ n > l => r.ret = 0
    <2> HIDE DEF r, p
    <2>1. QED
      BY <1>1, <1>3, ReadValueExact
  <1> HIDE DEF r, l
  <1>6. r.ret \in Nat /\ (~(n <= l) => r.ret = 0)
    BY <1>1, <1>3, <1>5
  <1>7. Queue!Leave(k, r.ret) /\ InOrder'
    BY <1>4, <1>5, <1>6, LeavesQueue
  <1>8. /\ last'.op = "read_value" /\ last'.want = n /\ last'.given = << >>
        /\ answer = IF r.threw THEN -1 ELSE r.ret
    BY <1>4, OneQueue
  <1>9. Len(queues[k].bytes) = l
    BY DEF AsQueue, l
  <1> HIDE DEF answer, queues
  <1>10. Queue!GetWhole(k)
    <2>1. CASE n <= l
      <3>1. last'.want <= Len(queues[k].bytes) /\ r.ret = last'.want /\ answer = n
        BY <1>5, <1>8, <1>9, <2>1
      <3>2. QED
        BY <1>7, <1>8, <3>1, Zenon DEF Queue!GetWhole, queues, answer
    <2>2. CASE ~(n <= l)
      <3>1. ~(last'.want <= Len(queues[k].bytes)) /\ r.ret = 0
        BY <1>6, <1>8, <1>9, <2>2
      <3>2. answer \in {0, -1}
        BY <1>8, <3>1
      <3>3. QED
        BY <1>7, <3>1, <3>2, Zenon DEF Queue!GetWhole, Queue!Failed, queues, answer
    <2>3. QED
      BY <2>1, <2>2
  <1>11. QED
    BY <1>7, <1>8, <1>10 DEF Queue!Get

\* A read of a bool.
LEMMA ReadBoolGets ==
  ASSUME AllSound, InOrder, NEW k \in Packets, ReadABool(k)
  PROVE  Queue!Get(k) /\ InOrder'
PROOF
  <1> DEFINE p      == pkts[k]
             u      == Unread(p)
             queues == [j \in Packets |-> AsQueue(pkts[j])]
             answer == IF last'.threw THEN -1 ELSE last'.ret
  <1>1. Ordered(p) /\ u \in Seq(Byte) /\ Len(u) \in Nat
    BY OrderedFields DEF InOrder
  <1>2. PICK beyond \in Byte : Takes("read_bool", k, 1, ReadBool(p, beyond))
    BY DEF ReadABool
  <1> DEFINE r == ReadBool(p, beyond)
             v == ReadValue(p, 1, TRUE, beyond)
  <1>3. Does("read_bool", k, 1, << >>, r)
    BY <1>2 DEF Takes
  <1>4. r = IF ~v.threw /\ v.out[1] > 1 THEN [Throw(v.pkt) EXCEPT !.out = v.out]
            ELSE v
    BY DEF ReadBool
  <1>5. /\ TakesOut(p, v.ret, v)
        /\ 1 <= Len(u) => ~v.threw /\ v.ret = 1
        /\ 1 > Len(u) => v.ret = 0 /\ v.threw
    <2> DEFINE one == 1
    <2>1. PICK w \in BOOLEAN : v = ReadValue(p, one, w, beyond)
      OBVIOUS
    <2>2. v.ret # 1 => v.threw
      BY DEF ReadValue, Throw
    <2> HIDE DEF v, p
    <2>3. one \in Nat /\ (1 > Len(u) => one > Len(u))
          /\ (1 <= Len(u) => one <= Len(u))
      OBVIOUS
    <2> HIDE DEF one
    <2>4. /\ TakesOut(p, v.ret, v)
          /\ one <= Len(u) => ~v.threw /\ v.ret = one
          /\ one > Len(u) => v.ret = 0
      BY <1>1, <2>1, <2>3, ReadValueExact
    <2>5. v.ret = one => v.ret = 1
      BY DEF one
    <2>6. QED
      BY <2>2, <2>3, <2>4, <2>5
  <1>6. /\ last'.op = "read_bool" /\ last'.given = << >>
        /\ answer = IF r.threw THEN -1 ELSE r.ret
    BY <1>3, OneQueue
  <1>7. queues[k].bytes = u
    BY DEF AsQueue
  <1> HIDE DEF r, v, queues, answer
  <1>8. Queue!GetBool(k) /\ InOrder'
    <2>1. CASE u = << >>
      <3>1. v.ret = 0 /\ v.threw /\ r = v
        BY <1>4, <1>5, <2>1
      <3>2. TakesOut(p, 0, r) /\ 0 \in Nat /\ answer = -1
        BY <1>5, <1>6, <3>1
      <3>3. Queue!Leave(k, 0) /\ InOrder'
        BY <1>3, <3>2, LeavesQueue
      <3>4. queues[k].bytes = << >>
        BY <1>7, <2>1
      <3>5. QED
        BY <3>2, <3>3, <3>4, Zenon DEF Queue!GetBool, Queue!Failed, queues, answer
    <2>2. CASE u # << >>
      <3>1. 1 <= Len(u)
        <4> HIDE DEF u
        <4>1. QED
          BY <1>1, <2>2
      <3>2. ~v.threw /\ v.ret = 1 /\ TakesOut(p, 1, v)
        BY <1>5, <3>1
      <3>3. v.out = SubSeq(u, 1, 1)
        <4> HIDE DEF p
        <4>1. QED
          BY <1>1, <3>2, TakesFront DEF u
      <3>4. v.out[1] = u[1]
        <4> HIDE DEF u
        <4>1. QED
          BY <1>1, <3>1, <3>3
      <3>5. /\ r.pkt = v.pkt /\ r.out = v.out
            /\ r.threw <=> u[1] > 1
            /\ ~r.threw => r.ret = 1
        <4> HIDE DEF u
        <4>1. CASE u[1] > 1
          BY <1>4, <3>2, <3>4, <4>1 DEF Throw
        <4>2. CASE ~(u[1] > 1)
          BY <1>4, <3>2, <3>4, <4>2
        <4>3. QED
          BY <4>1, <4>2
      <3>6. TakesOut(p, 1, r)
        BY <3>2, <3>5 DEF TakesOut
      <3>7. Queue!Leave(k, 1) /\ InOrder'
        <4>1. 1 \in Nat
          OBVIOUS
        <4>2. QED
          BY <1>3, <3>6, <4>1, LeavesQueue
      <3>8. answer = IF queues[k].bytes[1] > 1 THEN -1 ELSE 1
        <4> HIDE DEF u
        <4>1. QED
          BY <1>6, <1>7, <3>5
      <3>9. queues[k].bytes # << >>
        BY <1>7, <2>2
      <3>10. QED
        BY <3>7, <3>8, <3>9, Zenon DEF Queue!GetBool, Queue!Failed, queues, answer
    <2>3. QED
      BY <2>1, <2>2
  <1>9. QED
    BY <1>6, <1>8 DEF Queue!Get

\* A read of a string.
LEMMA ReadStringGets ==
  ASSUME AllSound, InOrder, NEW k \in Packets, ReadAString(k)
  PROVE  Queue!Get(k) /\ InOrder'
PROOF
  <1> DEFINE p      == pkts[k]
             u      == Unread(p)
             l      == Len(u)
             queues == [j \in Packets |-> AsQueue(pkts[j])]
             answer == IF last'.threw THEN -1 ELSE last'.ret
  <1>1. Ordered(p) /\ u \in Seq(Byte) /\ l \in Nat
    BY OrderedFields DEF InOrder
  <1>2. PICK enforced \in BOOLEAN, beyond \in Byte :
          Takes("read_string", k, 2, ReadString(p, enforced, beyond))
    BY DEF ReadAString
  <1> DEFINE r      == ReadString(p, enforced, beyond)
             length == read_data(p, 2, TRUE, beyond)
             size   == Signed(Number(length.out))
             chars  == read_data(length.pkt, size, TRUE, beyond)
             short  == [length EXCEPT !.ret = 0, !.threw = enforced]
             wrong  == [length EXCEPT !.ret = 0, !.threw = TRUE]
             whole  == [chars EXCEPT !.ret = @ + 2, !.out = length.out \o @]
             lengths == [b \in Byte \X Byte |-> Signed(Number(b))]
  <1>3. Does("read_string", k, 2, << >>, r)
    BY <1>2 DEF Takes
  <1>4. r = IF length.ret = 0 THEN short ELSE IF size < 0 THEN wrong
            ELSE IF chars.ret = 0 THEN short ELSE whole
    BY DEF ReadString
  <1>5. /\ short.pkt = length.pkt /\ short.out = length.out /\ short.ret = 0
        /\ wrong.pkt = length.pkt /\ wrong.out = length.out /\ wrong.threw
    BY DEF read_data, Return
  <1>6. /\ whole.pkt = chars.pkt /\ whole.out = length.out \o chars.out
        /\ whole.ret = chars.ret + 2 /\ whole.threw = chars.threw
    <2> HIDE DEF length, size
    <2>1. QED
      BY DEF read_data, Return
  <1>7. /\ TakesOut(p, length.ret, length)
        /\ length.ret = IF 2 <= l THEN 2 ELSE 0
    <2> DEFINE two == 2
    <2>1. two \in Nat /\ length = read_data(p, two, TRUE, beyond)
      OBVIOUS
    <2> HIDE DEF length, p, two
    <2>2. /\ TakesOut(p, length.ret, length)
          /\ length.ret = IF two <= Len(Unread(p)) THEN two ELSE 0
      BY <1>1, <2>1, ReadWhole
    <2>3. QED
      BY <2>2 DEF two
  <1>8. /\ last'.op = "read_string" /\ last'.given = << >>
        /\ answer = IF r.threw THEN -1 ELSE r.ret
    BY <1>3, OneQueue
  <1>9. queues[k].bytes = u
    BY DEF AsQueue
  <1> HIDE DEF r, short, wrong, whole, queues, answer
  <1>10. ASSUME NEW n \in Nat, TakesOut(p, n, length),
                r.pkt = length.pkt, r.out = length.out
         PROVE  Queue!Leave(k, n) /\ InOrder'
    <2> HIDE DEF length
    <2>1. TakesOut(p, n, r)
      BY <1>10 DEF TakesOut
    <2>2. QED
      BY <1>3, <2>1, LeavesQueue
  <1>11. CASE l < 2
    <2>1. length.ret = 0 /\ Len(queues[k].bytes) < 2
      <3> HIDE DEF length, u
      <3>1. QED
        BY <1>1, <1>7, <1>9, <1>11
    <2>2. r = short
      BY <1>4, <2>1
    <2>3. Queue!Leave(k, 0) /\ InOrder'
      <3>1. TakesOut(p, 0, length) /\ 0 \in Nat
        BY <1>7, <2>1
      <3>2. r.pkt = length.pkt /\ r.out = length.out
        BY <1>5, <2>2
      <3> HIDE DEF length
      <3>3. QED
        BY <1>10, <3>1, <3>2
    <2>4. answer \in {0, -1}
      <3> HIDE DEF length
      <3>1. QED
        BY <1>5, <1>8, <2>2
    <2>5. Queue!GetText(k)
      BY <2>1, <2>3, <2>4, Zenon DEF Queue!GetText, Queue!Failed, queues, answer
    <2>6. QED
      BY <1>8, <2>3, <2>5 DEF Queue!Get
  <1>12. CASE ~(l < 2)
    <2>1. length.ret = 2 /\ TakesOut(p, 2, length) /\ ~(Len(queues[k].bytes) < 2)
      <3> HIDE DEF length, u
      <3>1. QED
        BY <1>1, <1>7, <1>9, <1>12
    <2>2. /\ Ordered(length.pkt) /\ length.out = SubSeq(u, 1, 2)
          /\ Unread(length.pkt) = SubSeq(u, 3, l)
      <3> HIDE DEF length, p
      <3>1. /\ Ordered(length.pkt) /\ length.out = SubSeq(u, 1, 2)
            /\ Unread(length.pkt) = SubSeq(u, 2 + 1, Len(u))
        BY <1>1, <2>1, TakesFront
      <3>2. QED
        BY <3>1
    <2>3. /\ Len(Unread(length.pkt)) = l - 2 /\ length.out \in Byte \X Byte
      <3> HIDE DEF length, u
      <3>1. /\ SubSeq(u, 1, 2) \in Byte \X Byte
            /\ Len(SubSeq(u, 3, Len(u))) = Len(u) - 2
        BY <1>1, <1>12, FrontTwo
      <3>2. QED
        BY <2>2, <3>1
    <2>4. size \in Int
      <3> HIDE DEF length
      <3>1. length.out[1] \in Byte /\ length.out[2] \in Byte
        BY <2>3
      <3>2. Number(length.out) \in Int
        BY <3>1, Constants DEF Number, Byte
      <3>3. QED
        BY <3>2, Constants DEF Signed
    <2>5. size = lengths[SubSeq(queues[k].bytes, 1, 2)]
      <3> HIDE DEF length, u
      <3>1. lengths[length.out] = size
        BY <2>3
      <3> HIDE DEF lengths, size
      <3>2. QED
        BY <1>9, <2>2, <3>1
    <2>6. size >= 0 => chars.ret = IF size <= l - 2 THEN size ELSE 0
      <3> DEFINE q == length.pkt
      <3>1. chars = read_data(q, size, TRUE, beyond)
        OBVIOUS
      <3> HIDE DEF q, size, chars, u
      <3>2. ASSUME size >= 0
            PROVE  chars.ret = IF size <= Len(Unread(q)) THEN size ELSE 0
        <4>1. size \in Nat
          BY <2>4, <3>2
        <4>2. Ordered(q)
          BY <2>2 DEF q
        <4>3. QED
          BY <3>1, <4>1, <4>2, ReadWhole
      <3>3. QED
        BY <2>3, <3>2 DEF q
    <2>7. ASSUME size \in 1 .. l - 2
          PROVE  Queue!GetText(k) /\ InOrder'
      <3>1. size \in Nat /\ size # 0 /\ ~(size < 0) /\ chars.ret = size
        <4> HIDE DEF size, chars, u
        <4>1. QED
          BY <1>1, <2>4, <2>6, <2>7
      <3>2. r = whole
        <4> HIDE DEF size, chars, length
        <4>1. QED
          BY <1>4, <2>1, <3>1
      <3>3. ~chars.threw /\ TakesOut(length.pkt, size, chars)
        <4> DEFINE q == length.pkt
        <4>1. chars = read_data(q, size, TRUE, beyond)
          OBVIOUS
        <4>2. Ordered(q)
          BY <2>2
        <4> HIDE DEF q, size, chars
        <4>3. ~chars.threw /\ TakesOut(q, chars.ret, chars)
          BY <3>1, <4>1, <4>2, ReadWhole
        <4>4. QED
          BY <3>1, <4>3 DEF q
      <3>4. TakesOut(p, 2 + size, r)
        <4>1. Sound(p) /\ 2 \in Nat
          BY <1>1 DEF Ordered
        <4>2. r.pkt = chars.pkt /\ r.out = length.out \o chars.out
          BY <1>6, <3>2
        <4> HIDE DEF size, chars, length, p
        <4>3. QED
          BY <2>1, <3>1, <3>3, <4>1, <4>2, TakesJoined
      <3> HIDE DEF size, chars, length, u, lengths
      <3>5. 2 + size \in Nat /\ answer = 2 + size
        BY <1>6, <1>8, <3>1, <3>2, <3>3
      <3>6. Queue!Leave(k, 2 + size) /\ InOrder'
        BY <1>3, <3>4, <3>5, LeavesQueue
      <3>7. size \in 1 .. Len(queues[k].bytes) - 2
        BY <1>9, <2>7
      <3>8. QED
        BY <2>1, <2>5, <3>5, <3>6, <3>7, Zenon
        DEF Queue!GetText, queues, answer, lengths
    <2>8. ASSUME size \notin 1 .. l - 2
          PROVE  Queue!GetText(k) /\ InOrder'
      <3>1. ~(size < 0) => chars.ret = 0
        <4> HIDE DEF size, chars, u
        <4>1. QED
          BY <1>1, <2>4, <2>6, <2>8
      <3>2. r = IF size < 0 THEN wrong ELSE short
        <4> HIDE DEF size, chars, length
        <4>1. QED
          BY <1>4, <2>1, <3>1
      <3>3. Queue!Leave(k, 2) /\ InOrder'
        <4>1. r.pkt = length.pkt /\ r.out = length.out /\ 2 \in Nat
          BY <1>5, <3>2
        <4> HIDE DEF length
        <4>2. QED
          BY <1>10, <2>1, <4>1
      <3>4. answer \in IF size < 0 THEN {-1} ELSE {0, -1}
        <4> HIDE DEF size, length
        <4>1. QED
          BY <1>5, <1>8, <3>2
      <3> HIDE DEF size, chars, length, u, lengths
      <3>5. size \notin 1 .. Len(queues[k].bytes) - 2
        BY <1>9, <2>8
      <3>6. QED
        BY <2>1, <2>5, <3>3, <3>4, <3>5, Zenon
        DEF Queue!GetText, Queue!Failed, queues, answer, lengths
    <2>9. QED
      BY <1>8, <2>7, <2>8 DEF Queue!Get
  <1>13. QED
    BY <1>11, <1>12

\* The raw write.
LEMMA WritePuts ==
  ASSUME AllSound, InOrder, NEW k \in Packets, Write(k)
  PROVE  Queue!Put(k) /\ InOrder'
PROOF
  <1> DEFINE p      == pkts[k]
             queues == [j \in Packets |-> AsQueue(pkts[j])]
  <1>1. Ordered(p) /\ Room(p) \in Nat
    BY OrderedFields DEF InOrder
  <1>2. PICK d \in WriteData : Gives("write", k, d, write_data(p, d, FALSE))
    BY DEF Write
  <1> DEFINE r == write_data(p, d, FALSE)
             n == IF Len(d) <= Room(p) THEN Len(d) ELSE Room(p)
             e == SubSeq(d, 1, n)
  <1>3. d \in Seq(Byte) /\ Len(d) \in Nat
    BY PacketApiAssumption
  <1>4. Does("write", k, Len(d), <<d>>, r)
    BY <1>2 DEF Gives
  <1>5. /\ Grows(p, e, r.pkt) /\ n \in 0 .. Len(d) /\ n <= Room(p) /\ Len(e) = n
        /\ r.out = << >>
        /\ r.threw <=> Room(p) > 0 /\ n = Room(p)
        /\ ~r.threw => r.ret = n
    <2>1. PICK w \in BOOLEAN : r = write_data(p, d, w) /\ n = Fits(p, d, w)
      BY DEF Fits
    <2> HIDE DEF r, n, p
    <2>2. QED
      BY <1>1, <1>3, <2>1, WriteGrows
  <1> HIDE DEF r
  <1>6. e \in Seq(Byte) /\ n \in Nat
    <2> HIDE DEF n, p
    <2>1. QED
      BY <1>3, <1>5
  <1>7. Ordered(r.pkt) /\ Room(r.pkt) = Room(p) - n
    <2> HIDE DEF n, e, p
    <2>1. QED
      BY <1>5 DEF Grows
  <1>8. AsQueue(r.pkt) = Queue!Enter(AsQueue(p), e)
    <2> HIDE DEF n, e, p
    <2>1. QED
      BY <1>1, <1>5, <1>6, GrowsEnters
  <1>9. r.threw <=> (Room(p) > 0 /\ Room(r.pkt) = 0) \/ n = -1
    <2> HIDE DEF n, e
    <2>1. n # -1
      BY <1>6
    <2>2. Room(r.pkt) = 0 <=> n = Room(p)
      BY <1>1, <1>6, <1>7
    <2>3. QED
      BY <1>5, <2>1, <2>2
  <1>10. Queue!Entered(k, AsQueue(r.pkt), n)
    <2> HIDE DEF n
    <2>1. QED
      BY <1>4, <1>5, <1>9, EntersQueue
  <1>11. /\ last'.op = "write" /\ last'.want = Len(d)
         /\ last'.given[1] = d /\ last'.out = << >>
    <2>1. /\ last'.op = "write" /\ last'.want = Len(d)
          /\ last'.given = <<d>> /\ last'.out = r.out
      BY <1>4, OneQueue
    <2>2. r.out = << >>
      BY <1>5
    <2>3. QED
      BY <2>1, <2>2
  <1>12. queues[k] = AsQueue(p) /\ queues[k].room = Room(p)
    BY DEF AsQueue
  <1>13. Queue!PutBytes(k, last'.given[1])
    <2>1. Queue!Entered(k, Queue!Enter(queues[k], SubSeq(d, 1, n)), n)
      <3> HIDE DEF n
      <3>1. QED
        BY <1>8, <1>10, <1>12
    <2>2. n = IF Len(d) <= queues[k].room THEN Len(d) ELSE queues[k].room
      BY <1>12
    <2> HIDE DEF n, queues
    <2>3. QED
      BY <1>11, <2>1, <2>2, Zenon DEF Queue!PutBytes, queues
  <1>14. InOrder'
    BY <1>4, <1>7, KeepsOrder
  <1>15. QED
    BY <1>11, <1>13, <1>14 DEF Queue!Put

\* What is put in whole.
LEMMA WholePuts ==
  ASSUME AllSound, InOrder, NEW k \in Packets,
         NEW op \in {"write_value", "append"}, NEW d \in Seq(Byte),
         NEW r, Does(op, k, Len(d), <<d>>, r), Whole(pkts[k], d, r)
  PROVE  Queue!Put(k) /\ InOrder'
PROOF
  <1> DEFINE p      == pkts[k]
             queues == [j \in Packets |-> AsQueue(pkts[j])]
             answer == IF last'.threw THEN -1 ELSE last'.ret
  <1>1. Ordered(p) /\ Room(p) \in Nat /\ Len(d) \in Nat
    BY OrderedFields DEF InOrder
  <1>2. /\ Ordered(r.pkt) /\ r.out = << >>
        /\ AsQueue(r.pkt) = Queue!Enter(AsQueue(p), d)
        /\ Len(d) <= Room(p) =>
             /\ r.threw <=> Room(p) > 0 /\ Room(r.pkt) = 0
             /\ ~r.threw => r.ret = Len(d)
        /\ Len(d) > Room(p) => r.threw \/ r.ret = 0
    BY DEF Whole
  <1>3. /\ queues' = [queues EXCEPT ![k] = AsQueue(r.pkt)]
        /\ last'.op = op /\ last'.want = Len(d)
        /\ last'.given = <<d>> /\ last'.out = << >>
        /\ answer = IF r.threw THEN -1 ELSE r.ret
    BY <1>2, OneQueue
  <1>4. queues[k] = AsQueue(p) /\ queues[k].room = Room(p)
    BY DEF AsQueue
  <1>5. Queue!PutWhole(k, d)
    <2>1. CASE Len(d) <= Room(p)
      <3>1. Queue!Entered(k, AsQueue(r.pkt), Len(d))
        <4>1. Len(d) # -1
          BY <1>1
        <4>2. r.threw <=> (Room(p) > 0 /\ Room(r.pkt) = 0) \/ Len(d) = -1
          BY <1>2, <2>1, <4>1
        <4>3. QED
          BY <1>2, <2>1, <4>2, EntersQueue
      <3> HIDE DEF queues, p
      <3>2. Queue!Entered(k, Queue!Enter(queues[k], d), Len(d))
        BY <1>2, <1>4, <3>1
      <3>3. Len(d) <= queues[k].room
        BY <1>4, <2>1
      <3>4. QED
        BY <1>3, <3>2, <3>3, Zenon DEF Queue!PutWhole, queues
    <2>2. CASE ~(Len(d) <= Room(p))
      <3>1. AsQueue(r.pkt) = queues[k]
        <4>1. ~(Len(d) <= AsQueue(p).room)
          BY <2>2 DEF AsQueue
        <4> HIDE DEF queues, p
        <4>2. Queue!Enter(AsQueue(p), d) = AsQueue(p)
          BY <4>1, Zenon DEF Queue!Enter
        <4>3. QED
          BY <1>2, <1>4, <4>2
      <3>2. queues' = queues
        BY <1>3, <3>1
      <3>3. answer \in {0, -1}
        <4>1. Len(d) > Room(p)
          BY <1>1, <2>2
        <4> HIDE DEF answer
        <4>2. QED
          BY <1>2, <1>3, <4>1
      <3>4. ~(Len(d) <= queues[k].room)
        BY <1>4, <2>2
      <3> HIDE DEF queues, p, answer
      <3>5. QED
        BY <1>3, <3>2, <3>3, <3>4, Zenon
        DEF Queue!PutWhole, Queue!Failed, queues, answer
    <2>3. QED
      BY <2>1, <2>2
  <1>6. last'.given[1] = d
    BY <1>3
  <1>7. InOrder'
    BY <1>2, KeepsOrder
  <1>8. QED
    BY <1>3, <1>5, <1>6, <1>7 DEF Queue!Put

\* The write of a value.
LEMMA WriteTypedPuts ==
  ASSUME AllSound, InOrder, NEW k \in Packets, WriteTyped(k)
  PROVE  Queue!Put(k) /\ InOrder'
PROOF
  <1> DEFINE p == pkts[k]
  <1>1. Ordered(p)
    BY DEF InOrder
  <1>2. PICK d \in WriteData, enforced \in BOOLEAN :
          Gives("write_value", k, d, WriteValue(p, d, enforced))
    BY DEF WriteTyped
  <1> DEFINE s == write_data(p, d, TRUE)
             r == WriteValue(p, d, enforced)
  <1>3. d \in Seq(Byte)
    BY PacketApiAssumption
  <1>4. Whole(p, d, s)
    BY <1>1, <1>3, WholeWrite
  <1>5. r = s \/ (r = Throw(s.pkt) /\ s.ret # Len(d))
    BY DEF WriteValue
  <1>6. Does("write_value", k, Len(d), <<d>>, r)
    BY <1>2 DEF Gives
  <1> HIDE DEF r, s
  <1>7. Whole(p, d, r)
    BY <1>4, <1>5, WholeThrown
  <1>8. QED
    BY <1>3, <1>6, <1>7, WholePuts

\* The payload of another packet.
LEMMA AppendPuts ==
  ASSUME AllSound, InOrder, NEW k \in Packets, NEW j \in Packets \ {k},
         AppendPacket(k, j)
  PROVE  Queue!Put(k) /\ InOrder'
PROOF
  <1> DEFINE p == pkts[k]
             d == pkts[j].body
  <1>1. Ordered(p) /\ Room(p) \in Nat
    BY OrderedFields DEF InOrder
  <1>2. PICK enforced \in BOOLEAN :
          Gives("append", k, d, WritePacket(p, pkts[j], enforced))
    BY DEF AppendPacket
  <1> DEFINE s == IF empty(pkts[j]) THEN Return(p, 0) ELSE write_data(p, d, TRUE)
             r == WritePacket(p, pkts[j], enforced)
  <1>3. d \in Seq(Byte)
    BY DEF AllSound, PacketType
  <1>4. Whole(p, d, s)
    <2>1. CASE empty(pkts[j])
      <3>1. d = << >>
        <4>1. Len(d) = 0
          BY <2>1 DEF empty, work_size
        <4> HIDE DEF d
        <4>2. QED
          BY <1>3, <4>1
      <3>2. s.pkt = p /\ s.out = << >> /\ ~s.threw /\ s.ret = 0
        BY <2>1 DEF Return
      <3> HIDE DEF s, d, p
      <3>3. Grows(p, << >>, p)
        BY <1>1, GrowsNot
      <3>4. << >> \in Seq(Byte) /\ Len(<< >>) <= Room(p) /\ Len(<< >>) = 0
        BY <1>1
      <3>5. AsQueue(p) = Queue!Enter(AsQueue(p), << >>)
        BY <1>1, <3>3, <3>4, GrowsEnters
      <3>6. /\ Room(p) = Room(p) - Len(<< >>)
            /\ ~(Room(p) > 0 /\ Room(p) = 0)
            /\ ~(Len(<< >>) > Room(p))
        BY <1>1, <3>4
      <3>7. QED
        BY <1>1, <3>1, <3>2, <3>4, <3>5, <3>6 DEF Whole
    <2>2. CASE ~empty(pkts[j])
      <3>1. s = write_data(p, d, TRUE)
        BY <2>2
      <3> HIDE DEF s, d, p
      <3>2. QED
        BY <1>1, <1>3, <3>1, WholeWrite
    <2>3. QED
      BY <2>1, <2>2
  <1>5. r = s \/ (r = Throw(s.pkt) /\ s.ret # Len(d))
    BY DEF WritePacket, work_size
  <1>6. Does("append", k, Len(d), <<d>>, r)
    BY <1>2 DEF Gives
  <1> HIDE DEF r, s, d
  <1>7. Whole(p, d, r)
    BY <1>4, <1>5, WholeThrown
  <1>8. QED
    BY <1>3, <1>6, <1>7, WholePuts

\* Two parts of a and b bytes, for which there is room at first, room1 behind
\* the first part and room2 behind the second: what their two writes return and
\* throw tells whether both are in.
LEMMA TwoParts ==
  ASSUME NEW room \in Nat, NEW a \in Nat, NEW b \in Nat,
         NEW room1 \in Nat, NEW room2 \in Nat, NEW first, NEW second,
         room1 = IF a <= room THEN room - a ELSE room,
         room2 = IF b <= room1 THEN room1 - b ELSE room1,
         first = IF a <= room THEN a ELSE 0,
         second = IF b <= room1 THEN b ELSE 0,
         ~(room > 0 /\ room1 = 0), ~(room1 > 0 /\ room2 = 0)
  PROVE  /\ first + second = a + b <=> a + b <= room
         /\ ~(room > 0 /\ room2 = 0)
PROOF
  <1>1. CASE a <= room /\ b <= room1
    BY <1>1
  <1>2. CASE a <= room /\ ~(b <= room1)
    BY <1>2
  <1>3. CASE ~(a <= room) /\ b <= room1
    BY <1>3
  <1>4. CASE ~(a <= room) /\ ~(b <= room1)
    BY <1>4
  <1>5. QED
    BY <1>1, <1>2, <1>3, <1>4

\* What a whole write returns and leaves room for.
LEMMA WholeRoom ==
  ASSUME NEW p, Ordered(p), NEW d \in Seq(Byte),
         NEW r, r = write_data(p, d, TRUE)
  PROVE  /\ Room(r.pkt) = IF Len(d) <= Room(p) THEN Room(p) - Len(d) ELSE Room(p)
         /\ Room(r.pkt) \in Nat /\ Room(r.pkt) <= Room(p)
         /\ r.threw <=> Room(p) > 0 /\ Room(r.pkt) = 0
         /\ ~r.threw => r.ret = IF Len(d) <= Room(p) THEN Len(d) ELSE 0
PROOF
  <1> DEFINE room == Room(p)
             n    == Len(d)
             room1 == Room(r.pkt)
  <1>1. room \in Nat /\ n \in Nat
    BY OrderedFields
  <1>2. /\ AsQueue(r.pkt) = Queue!Enter(AsQueue(p), d)
        /\ n <= room => /\ room1 = room - n
                        /\ r.threw <=> room > 0 /\ room1 = 0
                        /\ ~r.threw => r.ret = n
        /\ n > room => ~r.threw /\ r.ret = 0
    BY WholeWrite DEF Whole
  <1>3. n > room => room1 = room
    <2>1. n > room => ~(n <= room)
      BY <1>1
    <2>2. AsQueue(p).room = room /\ AsQueue(r.pkt).room = room1
      BY DEF AsQueue
    <2> HIDE DEF room, n, room1
    <2>3. n > room => Queue!Enter(AsQueue(p), d) = AsQueue(p)
      BY <2>1, <2>2, Zenon DEF Queue!Enter, n
    <2>4. QED
      BY <1>2, <2>2, <2>3
  <1> HIDE DEF room, n, room1
  <1>4. CASE n <= room
    <2>1. room1 = room - n /\ room1 \in Nat /\ room1 <= room
      BY <1>1, <1>2, <1>4
    <2>2. (r.threw <=> room > 0 /\ room1 = 0) /\ (~r.threw => r.ret = n)
      BY <1>2, <1>4
    <2>3. room1 = (IF n <= room THEN room - n ELSE room)
          /\ n = (IF n <= room THEN n ELSE 0)
      BY <1>4, <2>1
    <2>4. QED
      BY <2>1, <2>2, <2>3, Zenon DEF room, n, room1
  <1>5. CASE ~(n <= room)
    <2>1. n > room /\ room1 = room /\ ~(room > 0 /\ room = 0) /\ room <= room
      BY <1>1, <1>3, <1>5
    <2>2. QED
      BY <1>1, <1>2, <1>5, <2>1 DEF room, n, room1
  <1>6. QED
    BY <1>4, <1>5

\* The two parts of a string, in the order they are written.
StringParts(s, order) ==
  IF order THEN <<Digits(Len(s)), s>> ELSE <<s, Digits(Len(s))>>

\* The write of a string, whichever of its two parts is written first.
LEMMA WriteStringEnters ==
  ASSUME NEW p, Ordered(p), NEW s \in Seq(Byte), NEW order \in BOOLEAN,
         NEW a \in Seq(Byte), NEW b \in Seq(Byte),
         <<a, b>> = StringParts(s, order),
         Len(a) + Len(b) = 2 + Len(s),
         NEW r, r = WriteString(p, s, order)
  PROVE  /\ Ordered(r.pkt) /\ r.out = << >>
         /\ Len(s) > StringLimit => r.threw /\ r.pkt = p
         /\ ~(Len(s) > StringLimit) =>
              /\ AsQueue(r.pkt) = Queue!Enter(Queue!Enter(AsQueue(p), a), b)
              /\ r.threw <=> \/ Room(p) > 0 /\ Room(r.pkt) = 0
                             \/ ~(Len(a) + Len(b) <= Room(p))
              /\ ~r.threw => r.ret = Len(a) + Len(b)
PROOF
  <1> DEFINE x == write_data(p, a, TRUE)
             y == write_data(x.pkt, b, TRUE)
             room  == Room(p)
             room1 == Room(x.pkt)
             room2 == Room(y.pkt)
             la    == Len(a)
             lb    == Len(b)
             size  == la + lb
             given == StringParts(s, order)
  <1>1. /\ room \in Nat /\ la \in Nat /\ lb \in Nat
        /\ size = 2 + Len(s)
    BY OrderedFields
  <1>2. /\ Ordered(x.pkt) /\ x.out = << >>
        /\ AsQueue(x.pkt) = Queue!Enter(AsQueue(p), a)
    BY WholeWrite DEF Whole
  <1>3. /\ Ordered(y.pkt) /\ y.out = << >>
        /\ AsQueue(y.pkt) = Queue!Enter(AsQueue(x.pkt), b)
    <2> DEFINE q == x.pkt
    <2>1. Ordered(q) /\ y = write_data(q, b, TRUE)
      BY <1>2
    <2> HIDE DEF q, y
    <2>2. Whole(q, b, y)
      BY <2>1, WholeWrite
    <2>3. QED
      BY <2>2 DEF Whole, q
  <1>4. /\ room1 = IF la <= room THEN room - la ELSE room
        /\ room1 \in Nat /\ room1 <= room
        /\ x.threw <=> room > 0 /\ room1 = 0
        /\ ~x.threw => x.ret = IF la <= room THEN la ELSE 0
    <2> HIDE DEF x
    <2>1. x = write_data(p, a, TRUE)
      BY DEF x
    <2>2. QED
      BY <2>1, WholeRoom
  <1>5. /\ room2 = IF lb <= room1 THEN room1 - lb ELSE room1
        /\ room2 \in Nat /\ room2 <= room1
        /\ y.threw <=> room1 > 0 /\ room2 = 0
        /\ ~y.threw => y.ret = IF lb <= room1 THEN lb ELSE 0
    <2> DEFINE q == x.pkt
    <2>1. Ordered(q) /\ y = write_data(q, b, TRUE)
      BY <1>2
    <2> HIDE DEF q, y
    <2>2. /\ Room(y.pkt) = IF Len(b) <= Room(q) THEN Room(q) - Len(b) ELSE Room(q)
          /\ Room(y.pkt) \in Nat /\ Room(y.pkt) <= Room(q)
          /\ y.threw <=> Room(q) > 0 /\ Room(y.pkt) = 0
          /\ ~y.threw => y.ret = IF Len(b) <= Room(q) THEN Len(b) ELSE 0
      BY <2>1, WholeRoom
    <2>3. QED
      BY <2>2 DEF q
  <1>6. r = IF Len(s) > StringLimit THEN Throw(p)
            ELSE IF x.threw THEN x
            ELSE IF y.threw THEN y
            ELSE IF x.ret + y.ret # 2 + Len(s) THEN Throw(y.pkt)
            ELSE Return(y.pkt, x.ret + y.ret)
    <2>1. given[1] = a /\ given[2] = b
      <3>1. given = <<a, b>>
        OBVIOUS
      <3> HIDE DEF given
      <3>2. QED
        BY <3>1
    <2>2. r = LET first  == write_data(p, given[1], TRUE)
                  second == write_data(first.pkt, given[2], TRUE)
                  result == first.ret + second.ret
              IN  IF Len(s) > StringLimit THEN Throw(p)
                  ELSE IF first.threw THEN first
                  ELSE IF second.threw THEN second
                  ELSE IF result # 2 + Len(s) THEN Throw(second.pkt)
                  ELSE Return(second.pkt, result)
      BY Zenon DEF WriteString, StringParts
    <2> HIDE DEF given
    <2>3. QED
      BY <2>1, <2>2, Zenon
  <1> HIDE DEF x, y, room, room1, room2, la, lb, size, given
  <1>7. CASE Len(s) > StringLimit
    <2>1. r = Throw(p)
      BY <1>6, <1>7
    <2>2. QED
      BY <1>7, <2>1 DEF Throw
  <1>8. CASE ~(Len(s) > StringLimit) /\ x.threw
    <2>1. r = x
      BY <1>6, <1>8
    <2>2. room > 0 /\ room1 = 0
      BY <1>4, <1>8
    <2>3. AsQueue(x.pkt) = Queue!Enter(AsQueue(x.pkt), b)
      <3>1. AsQueue(x.pkt) = [bytes |-> Unread(x.pkt), room |-> 0]
        BY <2>2 DEF AsQueue, room1
      <3>2. CASE lb = 0
        <4>1. b = << >>
          BY <3>2 DEF lb
        <4>2. Unread(x.pkt) \in Seq(Byte)
          BY <1>2, OrderedFields
        <4>3. Unread(x.pkt) \o << >> = Unread(x.pkt) /\ Len(<< >>) = 0 /\ 0 - 0 = 0
          BY <4>2
        <4> DEFINE v == Unread(x.pkt)
        <4> HIDE DEF v
        <4>4. Queue!Enter([bytes |-> v, room |-> 0], << >>)
                = [bytes |-> v \o << >>, room |-> 0 - 0]
          BY <4>3 DEF Queue!Enter
        <4>5. QED
          BY <3>1, <4>1, <4>3, <4>4 DEF v
      <3>3. CASE lb # 0
        <4>1. ~(lb <= 0)
          BY <1>1, <3>3
        <4>2. ~(Len(b) <= AsQueue(x.pkt).room)
          BY <3>1, <4>1 DEF lb
        <4>3. QED
          BY <4>2, Zenon DEF Queue!Enter
      <3>4. QED
        BY <3>2, <3>3
    <2>4. AsQueue(r.pkt) = Queue!Enter(Queue!Enter(AsQueue(p), a), b)
      BY <1>2, <2>1, <2>3
    <2>5. Room(p) > 0 /\ Room(r.pkt) = 0
      BY <2>1, <2>2 DEF room, room1
    <2>6. QED
      BY <1>2, <1>8, <2>1, <2>4, <2>5
  <1>9. CASE ~(Len(s) > StringLimit) /\ ~x.threw
    <2>1. r.pkt = y.pkt /\ r.out = << >>
      BY <1>3, <1>6, <1>9 DEF Throw, Return
    <2>2. AsQueue(r.pkt) = Queue!Enter(Queue!Enter(AsQueue(p), a), b)
      BY <1>2, <1>3, <2>1
    <2>3. CASE y.threw
      <3>1. r.threw
        BY <1>6, <1>9, <2>3
      <3>2. room > 0 /\ room2 = 0
        BY <1>1, <1>4, <1>5, <2>3
      <3>3. Room(p) > 0 /\ Room(r.pkt) = 0
        BY <2>1, <3>2 DEF room, room2
      <3>4. QED
        BY <1>3, <1>9, <2>1, <2>2, <3>1, <3>3
    <2>4. CASE ~y.threw
      <3> DEFINE first  == x.ret
                 second == y.ret
      <3>1. /\ first = IF la <= room THEN la ELSE 0
            /\ second = IF lb <= room1 THEN lb ELSE 0
            /\ ~(room > 0 /\ room1 = 0) /\ ~(room1 > 0 /\ room2 = 0)
        BY <1>4, <1>5, <1>9, <2>4
      <3> HIDE DEF first, second
      <3>2. /\ first + second = la + lb <=> la + lb <= room
            /\ ~(room > 0 /\ room2 = 0)
        <4>1. room1 = IF la <= room THEN room - la ELSE room
          BY <1>4
        <4>2. room2 = IF lb <= room1 THEN room1 - lb ELSE room1
          BY <1>5
        <4>3. room1 \in Nat /\ room2 \in Nat
          BY <1>4, <1>5
        <4>4. QED
          BY <1>1, <3>1, <4>1, <4>2, <4>3, TwoParts
      <3>3. r = IF first + second # size THEN Throw(y.pkt)
                ELSE Return(y.pkt, first + second)
        BY <1>1, <1>6, <1>9, <2>4 DEF first, second
      <3>4. /\ r.threw <=> ~(size <= room)
            /\ ~r.threw => r.ret = size
        <4>1. first + second = size <=> size <= room
          BY <3>2 DEF size
        <4>2. CASE size <= room
          BY <3>3, <4>1, <4>2 DEF Return
        <4>3. CASE ~(size <= room)
          BY <3>3, <4>1, <4>3 DEF Throw
        <4>4. QED
          BY <4>2, <4>3
      <3>5. ~(Room(p) > 0 /\ Room(r.pkt) = 0)
        BY <2>1, <3>2 DEF room, room2
      <3>6. QED
        BY <1>3, <1>9, <2>1, <2>2, <3>4, <3>5 DEF size, la, lb, room
    <2>5. QED
      BY <2>3, <2>4
  <1>10. QED
    BY <1>7, <1>8, <1>9

\* The write of a string puts in its two parts.
LEMMA WriteStringPutsText ==
  ASSUME AllSound, InOrder, NEW k \in Packets, WriteAString(k)
  PROVE  Queue!Put(k) /\ InOrder'
PROOF
  <1> DEFINE p      == pkts[k]
             queues == [j \in Packets |-> AsQueue(pkts[j])]
             answer == IF last'.threw THEN -1 ELSE last'.ret
  <1>1. Ordered(p) /\ Room(p) \in Nat
    BY OrderedFields DEF InOrder
  <1>2. PICK s \in Strings, order \in LengthFirst :
          Does("write_string", k, 2 + Len(s),
               IF order THEN <<Digits(Len(s)), s>> ELSE <<s, Digits(Len(s))>>,
               WriteString(p, s, order))
    BY DEF WriteAString
  <1>3. s \in Seq(Byte) /\ Len(s) \in Nat /\ order \in BOOLEAN
    BY PacketApiAssumption
  <1> DEFINE r     == WriteString(p, s, order)
             parts == IF order THEN <<Digits(Len(s)), s>>
                               ELSE <<s, Digits(Len(s))>>
             a     == IF order THEN Digits(Len(s)) ELSE s
             b     == IF order THEN s ELSE Digits(Len(s))
             size  == Len(a) + Len(b)
             n     == IF size <= Room(p) THEN size ELSE -1
  <1>4. Does("write_string", k, 2 + Len(s), parts, r)
    BY <1>2
  <1>5. ASSUME Len(Digits(Len(s))) = 2 PROVE size = 2 + Len(s)
    <2> DEFINE l == Len(s)
               d == Len(Digits(l))
    <2>1. size = IF order THEN d + l ELSE l + d
      OBVIOUS
    <2>2. l \in Nat /\ d = 2
      BY <1>3, <1>5
    <2> HIDE DEF l, d, size
    <2>3. size = 2 + l
      BY <2>1, <2>2
    <2>4. QED
      BY <2>3 DEF l
  <1>6. CASE Len(s) > StringLimit
    <2>1. r = Throw(p)
      BY <1>6 DEF WriteString
    <2>2. r.pkt = p /\ r.out = << >> /\ r.threw
      BY <2>1 DEF Throw
    <2> HIDE DEF r
    <2>3. /\ queues' = [queues EXCEPT ![k] = AsQueue(p)]
          /\ last'.op = "write_string" /\ last'.want = 2 + Len(s)
          /\ last'.given = parts /\ last'.out = << >>
          /\ answer = -1
      BY <1>4, <2>2, OneQueue
    <2>4. queues' = queues
      <3>1. [queues EXCEPT ![k] = AsQueue(p)] = queues
        OBVIOUS
      <3> HIDE DEF queues, p
      <3>2. QED
        BY <2>3, <3>1
    <2>5. parts = <<a, b>> /\ parts[1] = a /\ parts[2] = b
      OBVIOUS
    <2>6. Len(Digits(Len(s))) = 2
      BY DEF Digits
    <2>7. size = 2 + Len(s)
      BY <1>3, <1>5, <2>6
    <2>8. size - 2 > StringLimit
      <3> DEFINE l == Len(s)
      <3>1. l \in Nat /\ l > StringLimit
        BY <1>3, <1>6
      <3> HIDE DEF l, size
      <3>2. size - 2 = l
        BY <2>7, <3>1 DEF l
      <3>3. QED
        BY <3>1, <3>2
    <2> HIDE DEF a, b, parts, queues, answer
    <2>9. Queue!PutText(k, a, b)
      BY <2>3, <2>4, <2>7, <2>8, Zenon
      DEF Queue!PutText, Queue!Failed, queues, answer
    <2>10. InOrder'
      BY <1>1, <1>4, <2>2, KeepsOrder
    <2>11. QED
      BY <2>3, <2>5, <2>9, <2>10 DEF Queue!Put
  <1>7. CASE ~(Len(s) > StringLimit)
    <2>1. Digits(Len(s)) \in Seq(Byte) /\ Len(Digits(Len(s))) = 2
      <3> DEFINE l == Len(s)
      <3>1. l \in 0 .. LenMod - 1
        <4>1. LenMod \div 2 <= LenMod /\ LenMod \div 2 \in Nat
          BY Constants
        <4>2. l \in Nat /\ ~(l > StringLimit)
          BY <1>3, <1>7
        <4> HIDE DEF l
        <4>3. QED
          BY <4>1, <4>2, Constants DEF StringLimit
      <3> HIDE DEF l
      <3>2. l \in Nat /\ l < LenMod
        BY <3>1, Constants
      <3>3. Digits(l) \in Seq(Byte) /\ Len(Digits(l)) = 2
        BY <3>2, DigitsBytes
      <3>4. QED
        BY <3>3 DEF l
    <2>2. parts = <<a, b>> /\ parts[1] = a /\ parts[2] = b
      OBVIOUS
    <2>3. size = 2 + Len(s)
      BY <1>3, <1>5, <2>1
    <2>4. a \in Seq(Byte) /\ b \in Seq(Byte)
      BY <1>3, <2>1
    <2>5. r = WriteString(p, s, order)
      OBVIOUS
    <2>6. /\ Ordered(r.pkt) /\ r.out = << >>
          /\ AsQueue(r.pkt) = Queue!Enter(Queue!Enter(AsQueue(p), a), b)
          /\ r.threw <=> (Room(p) > 0 /\ Room(r.pkt) = 0) \/ ~(size <= Room(p))
          /\ ~r.threw => r.ret = size
      <3>1. <<a, b>> = StringParts(s, order)
        BY <2>2 DEF StringParts
      <3>2. Len(a) + Len(b) = 2 + Len(s)
        BY <2>3
      <3> HIDE DEF r, p, a, b
      <3>3. QED
        BY <1>1, <1>3, <1>7, <2>4, <2>5, <3>1, <3>2, WriteStringEnters
    <2> HIDE DEF r
    <2>7. Queue!Entered(k, AsQueue(r.pkt), n)
      <3>1. n = -1 <=> ~(size <= Room(p))
        <4>1. size \in Nat
          BY <1>3, <2>3
        <4> HIDE DEF size
        <4>2. size # -1
          BY <4>1
        <4>3. QED
          BY <4>2
      <3>2. r.threw <=> (Room(pkts[k]) > 0 /\ Room(r.pkt) = 0) \/ n = -1
        <4> HIDE DEF n, size
        <4>1. QED
          BY <2>6, <3>1
      <3>3. ~r.threw => r.ret = n
        <4>1. ~r.threw => size <= Room(p) /\ r.ret = size
          BY <2>6
        <4> HIDE DEF size
        <4>2. QED
          BY <4>1
      <3> HIDE DEF n, parts
      <3>4. QED
        BY <1>4, <3>2, <3>3, EntersQueue
    <2>8. /\ last'.op = "write_string" /\ last'.want = 2 + Len(s)
          /\ last'.given = parts /\ last'.out = << >>
      <3> HIDE DEF parts
      <3>1. /\ last'.op = "write_string" /\ last'.want = 2 + Len(s)
            /\ last'.given = parts /\ last'.out = r.out
        BY <1>4, OneQueue
      <3>2. QED
        BY <2>6, <3>1
    <2>9. queues[k] = AsQueue(p) /\ queues[k].room = Room(p)
      BY DEF AsQueue
    <2>10. ~(size - 2 > StringLimit)
      <3> DEFINE l == Len(s)
      <3>1. l \in Nat /\ ~(l > StringLimit)
        BY <1>3, <1>7
      <3> HIDE DEF l, size
      <3>2. size - 2 = l
        BY <2>3, <3>1 DEF l
      <3>3. QED
        BY <3>1, <3>2
    <2> HIDE DEF a, b, parts, queues, p
    <2>11. Queue!PutText(k, a, b)
      <3>1. n = IF size <= queues[k].room THEN size ELSE -1
        BY <2>9
      <3> HIDE DEF n
      <3>2. Queue!Entered(k, Queue!Enter(Queue!Enter(queues[k], a), b), n)
        BY <2>6, <2>7, <2>9
      <3>3. QED
        BY <2>3, <2>8, <2>10, <3>1, <3>2, Zenon
        DEF Queue!PutText, Queue!Failed, queues
    <2>12. InOrder'
      BY <1>4, <2>6, KeepsOrder
    <2>13. QED
      BY <2>2, <2>8, <2>11, <2>12 DEF Queue!Put
  <1>8. QED
    BY <1>6, <1>7

\* A clear empties the queue.
LEMMA ClearEmpties ==
  ASSUME AllSound, NEW k \in Packets, Clear(k), InOrder
  PROVE  Queue!Empty(k) /\ InOrder'
PROOF
  <1> DEFINE r == clear(pkts[k])
             q == r.pkt
             queues == [j \in Packets |-> AsQueue(pkts[j])]
  <1>1. /\ ~r.threw /\ empty(q) /\ verify_size(q)
        /\ q.read_pos = HeaderSize /\ q.write_pos = HeaderSize
    <2>1. Sound(pkts[k])
      BY DEF AllSound
    <2>2. QED
      BY <2>1, ClearResult
  <1>2. r.ret = 0 /\ r.out = << >>
    BY DEF clear, resize, update_size, SeekWrite, Return, Throw
  <1>3. Does("clear", k, 0, << >>, r)
    BY DEF Clear, Acts
  <1>4. Sound(q)
    <2>1. Sound(pkts[k])
      BY DEF AllSound
    <2>2. QED
      BY <2>1, ClearSound
  <1> HIDE DEF r
  <1>5. q.body = << >> /\ HasData(q) /\ real_size(q) = HeaderSize
    <2>1. q.body \in Seq(Byte) /\ Len(q.body) = 0
      BY <1>1, <1>4 DEF Sound, PacketType, empty, work_size
    <2>2. q.body = << >>
      BY <2>1
    <2>3. QED
      BY <1>1, <2>2 DEF verify_size, HasData, real_size, HeaderSize
  <1>6. AsQueue(q) = Queue!New
    <2>1. Unread(q) = << >> /\ Room(q) = DatagramSize - HeaderSize
      BY <1>5 DEF Unread, Room
    <2>2. QED
      BY <2>1 DEF AsQueue, Queue!New
  <1>7. /\ queues' = [queues EXCEPT ![k] = AsQueue(q)]
        /\ last'.op = "clear" /\ last'.want = 0
        /\ last'.given = << >> /\ last'.out = r.out
        /\ (IF last'.threw THEN -1 ELSE last'.ret)
             = IF r.threw THEN -1 ELSE r.ret
    BY <1>3, OneQueue
  <1>8. Queue!Empty(k)
    BY <1>1, <1>2, <1>6, <1>7 DEF Queue!Empty
  <1>9. Ordered(q)
    BY <1>1, <1>4, <1>5 DEF Ordered, WritesLast, HeaderSize
  <1>10. InOrder'
    BY <1>3, <1>9, KeepsOrder
  <1>11. QED
    BY <1>8, <1>10

-----------------------------------------------------------------------------

\* Each call is a step of its packet's queue.
LEMMA StreamSteps ==
  ASSUME AllSound, InOrder, NEW k \in Packets, Stream(k)
  PROVE  (Queue!Put(k) \/ Queue!Get(k) \/ Queue!Empty(k)) /\ InOrder'
PROOF
  <1>1. CASE Read(k)
    BY <1>1, ReadGets
  <1>2. CASE ReadTyped(k)
    BY <1>2, ReadTypedGets
  <1>3. CASE ReadABool(k)
    BY <1>3, ReadBoolGets
  <1>4. CASE ReadAString(k)
    BY <1>4, ReadStringGets
  <1>5. CASE Write(k)
    BY <1>5, WritePuts
  <1>6. CASE WriteTyped(k)
    BY <1>6, WriteTypedPuts
  <1>7. CASE WriteAString(k)
    BY <1>7, WriteStringPutsText
  <1>8. CASE \E j \in Packets \ {k} : AppendPacket(k, j)
    BY <1>8, AppendPuts
  <1>9. CASE Clear(k)
    BY <1>9, ClearEmpties
  <1>10. QED
    BY <1>1, <1>2, <1>3, <1>4, <1>5, <1>6, <1>7, <1>8, <1>9 DEF Stream

\* A program that reads, writes and clears is one that makes any calls.
LEMMA StreamIsProgram == StreamSpec => Spec
PROOF
  <1>1. [\E k \in Packets : Stream(k)]_vars => [Next]_vars
    BY DEF Next
  <1>2. QED
    BY <1>1, PTL DEF StreamSpec, Spec

\* In a program that only reads, writes and clears, the cursors stay in order.
THEOREM StaysInOrder == StreamSpec => []InOrder
PROOF
  <1>1. Init => InOrder
    <2>1. Ordered(NewPacket)
      <3>1. HasData(NewPacket) /\ NewPacket.read_pos <= real_size(NewPacket)
            /\ WritesLast(NewPacket)
        BY DEF NewPacket, HasData, real_size, WritesLast, NoHeader, HeaderSize
      <3>2. QED
        BY <3>1, NewPacketSound DEF Ordered
    <2>2. QED
      BY <2>1 DEF Init, InOrder
  <1>2. AllSound /\ InOrder /\ [\E k \in Packets : Stream(k)]_vars => InOrder'
    <2> SUFFICES ASSUME AllSound, InOrder, [\E k \in Packets : Stream(k)]_vars
                 PROVE  InOrder'
      OBVIOUS
    <2>1. ASSUME NEW k \in Packets, Stream(k) PROVE InOrder'
      BY <2>1, StreamSteps
    <2>2. CASE UNCHANGED vars
      BY <2>2 DEF vars, InOrder, Ordered, Sound, PacketType, HasData, real_size,
        work_size, WritesLast, full
    <2>3. QED
      BY <2>1, <2>2
  <1>3. StreamSpec => []AllSound
    BY StreamIsProgram, Soundness, PTL
  <1>4. QED
    BY <1>1, <1>2, <1>3, PTL DEF StreamSpec

\* Used from front to back, packets implement byte queues: for every size of a
\* packet and all arguments, what is read is what was written, in order, and
\* every call that fails leaves the bytes that the queue says it leaves.
THEOREM PacketsAreQueues == StreamSpec => IsByteQueue
PROOF
  <1>1. Init => Queue!Start
    <2>1. SUFFICES ASSUME Init PROVE Queue!Start
      OBVIOUS
    <2>2. AsQueue(NewPacket) = Queue!New
      <3>1. NewPacket.body = << >> /\ real_size(NewPacket) = HeaderSize
        BY DEF NewPacket, real_size, NoHeader, HeaderSize
      <3>2. Unread(NewPacket) = << >> /\ Room(NewPacket) = DatagramSize - HeaderSize
        BY <3>1 DEF Unread, Room
      <3>3. QED
        BY <3>2 DEF AsQueue, Queue!New
    <2>3. \A k \in Packets : AsQueue(pkts[k]) = Queue!New
      BY <2>1, <2>2 DEF Init
    <2>4. QED
      BY <2>1, <2>3 DEF Init, Queue!Start
  <1>2. AllSound /\ InOrder /\ [\E k \in Packets : Stream(k)]_vars
        => [Queue!Step]_(Queue!qvars)
    <2> SUFFICES ASSUME AllSound, InOrder, [\E k \in Packets : Stream(k)]_vars
                 PROVE  [Queue!Step]_(Queue!qvars)
      OBVIOUS
    <2>1. ASSUME NEW k \in Packets, Stream(k) PROVE Queue!Step
      <3>1. Queue!Put(k) \/ Queue!Get(k) \/ Queue!Empty(k)
        BY <2>1, StreamSteps
      <3>2. QED
        BY <3>1 DEF Queue!Step
    <2>2. CASE UNCHANGED vars
      BY <2>2 DEF vars, Queue!qvars, AsQueue, Unread, Room, real_size
    <2>3. QED
      BY <2>1, <2>2
  <1>3. StreamSpec => []AllSound
    BY StreamIsProgram, Soundness, PTL
  <1>4. QED
    BY <1>1, <1>2, <1>3, StaysInOrder, PTL
    DEF StreamSpec, IsByteQueue, Queue!QueueSpec
=============================================================================
