------------------------------- MODULE Packet -------------------------------
(***************************************************************************)
(* The buffer of sws::Packet as a record, and every member function as an  *)
(* operator on it.                                                         *)
(*                                                                         *)
(* The first HeaderSize bytes of data_ hold the payload's length; they are *)
(* the field header, a number, and the bytes behind them the sequence      *)
(* body.  A packet whose vector was moved away has no bytes at all: its    *)
(* header is NoHeader.  The two cursors keep the code's positions, counted *)
(* from the start of data_, so the first payload byte is at HeaderSize.    *)
(*                                                                         *)
(* An operator that models a call yields an outcome: the packet after the  *)
(* call, the value returned, whether enforce() threw, and the bytes the    *)
(* call took out of the packet.                                            *)
(***************************************************************************)
EXTENDS Integers, Sequences

CONSTANTS
  Radix,         \* values of one byte; 256 in the code
  DatagramSize   \* Socket::datagram_size; 65536 in the code

HeaderSize == 2
LenMod     == Radix * Radix   \* values of packetlen_t, of int16_t too

ASSUME PacketAssumption ==
  /\ Radix \in Nat
  /\ Radix >= 2
  /\ DatagramSize \in Nat
  /\ HeaderSize < DatagramSize
  /\ DatagramSize <= LenMod

Byte     == 0 .. Radix - 1
NoHeader == -1

PacketType ==
  [header      : 0 .. LenMod - 1 \cup {NoHeader},
   body        : Seq(Byte),
   read_pos    : Nat,
   write_pos   : Nat,
   send_pos    : Int,
   recv_pos    : Int,
   recv_target : Int]

Smaller(a, b) == IF a <= b THEN a ELSE b
Larger(a, b)  == IF a <= b THEN b ELSE a

\* A 16-bit number as its two bytes, and back; Signed reads it as int16_t.
Digits(n)    == <<n % Radix, n \div Radix>>
Number(b)    == b[1] + Radix * b[2]
StringLimit  == (LenMod \div 2) - 1
Signed(n)    == IF n > StringLimit THEN n - LenMod ELSE n

-----------------------------------------------------------------------------
(* Queries.                                                                *)

HasData(p)   == p.header # NoHeader
real_size(p) == IF p.header = NoHeader THEN 0 ELSE HeaderSize + Len(p.body)
work_size(p) == Len(p.body)
full(p)      == real_size(p) = DatagramSize
empty(p)     == work_size(p) = 0
verify_size(p) == p.header # NoHeader /\ p.header = work_size(p)

\* The bytes of data_ as they are put on the wire.
Flat(p) == Digits(p.header) \o p.body

get_send_remainder(p) ==
  IF p.send_pos < 1 THEN 0 ELSE real_size(p) - p.send_pos

get_recv_remainder(p) ==
  IF p.recv_target < 0 \/ p.recv_pos < HeaderSize
    THEN 0
    ELSE p.recv_target - (p.recv_pos - HeaderSize)

-----------------------------------------------------------------------------
(* Outcomes, and the bytes of the vector.                                  *)

Return(p, n) == [pkt |-> p, ret |-> n, threw |-> FALSE, out |-> << >>]
Throw(p)     == [pkt |-> p, ret |-> 0, threw |-> TRUE,  out |-> << >>]

\* vector::resize to n payload bytes: cut, or filled with zeros.
Resized(body, n) ==
  [i \in 1 .. n |-> IF i <= Len(body) THEN body[i] ELSE 0]

\* Mutant: the vector always ends where the copy ends.
CutToCopy(body, off, d) ==
  [i \in 1 .. off + Len(d) |->
     IF i > off THEN d[i - off] ELSE IF i <= Len(body) THEN body[i] ELSE 0]

\* memcpy of d behind the first off payload bytes, the vector grown to fit.
Overwritten(body, off, d) ==
  [i \in 1 .. Larger(Len(body), off + Len(d)) |->
     IF i > off /\ i <= off + Len(d) THEN d[i - off]
     ELSE IF i <= Len(body) THEN body[i] ELSE 0]

\* A vector grown from nothing starts with a zero header.
Grown(header) == IF header = NoHeader THEN 0 ELSE header

\* Mutants: a position, or a length, is not reset.
SendNotReset(p)  == p
RecvPosOnly(p)   == [p EXCEPT !.recv_pos = -1]
RecvTargetOnly(p) == [p EXCEPT !.recv_target = -1]

send_reset(p) == [p EXCEPT !.send_pos = -1]
recv_reset(p) == [p EXCEPT !.recv_pos = -1, !.recv_target = -1]

-----------------------------------------------------------------------------
(* Cursors.                                                                *)

\* Where a seek asks the cursor at pos to go, counted from the payload.
SeekPosition(p, type, pos, value) ==
  CASE type = "from_start" -> value
    [] type = "relative"   -> pos - HeaderSize + value
    [] type = "from_end"   -> work_size(p) - value

SeekAllowed(p, type, pos, value) ==
  /\ type # "relative" => value >= 0
  /\ SeekPosition(p, type, pos, value) \in 0 .. work_size(p)

SeekRead(p, type, value) ==
  IF SeekAllowed(p, type, p.read_pos, value)
    THEN Return([p EXCEPT !.read_pos =
                   HeaderSize + SeekPosition(p, type, @, value)], 0)
    ELSE Throw(p)

SeekWrite(p, type, value) ==
  IF SeekAllowed(p, type, p.write_pos, value)
    THEN Return([p EXCEPT !.write_pos =
                   HeaderSize + SeekPosition(p, type, @, value)], 0)
    ELSE Throw(p)

\* SeekCursor::both moves the read cursor even if the write cursor throws.
seek(p, cursor, type, value) ==
  LET first == SeekRead(p, type, value)
  IN  CASE cursor = "read"  -> first
        [] cursor = "write" -> SeekWrite(p, type, value)
        [] cursor = "both"  -> IF first.threw
                                 THEN first
                                 ELSE SeekWrite(first.pkt, type, value)

-----------------------------------------------------------------------------
(* Size and header.                                                        *)

\* Mutant: the header's own bytes are taken off the length once more.
HeaderCountedTwice(p) ==
  LET written == [p EXCEPT !.header    = work_size(p) - HeaderSize,
                           !.write_pos = HeaderSize]
  IN  IF full(p)
        THEN Throw([p EXCEPT !.write_pos = 0])
        ELSE SeekWrite(written, "from_start", p.write_pos - HeaderSize)

\* Mutant: the cursor is not put back behind the header.
CursorNotRestored(p) ==
  IF full(p)
    THEN Throw([p EXCEPT !.write_pos = 0])
    ELSE Return([p EXCEPT !.header = work_size(p) % LenMod, !.write_pos = 0], 0)

\* Mutant: the cursor is put at the end of the data.
CursorToEnd(p) ==
  LET written == [p EXCEPT !.header    = work_size(p) % LenMod,
                           !.write_pos = HeaderSize]
  IN  IF full(p)
        THEN Throw([p EXCEPT !.write_pos = 0])
        ELSE SeekWrite(written, "from_end", 0)

\* The header is written through operator<< with the write cursor at 0, then
\* the cursor is put back by a seek.  operator<< throws on a full packet and
\* leaves the cursor at 0; the seek throws on a cursor that is out of range
\* and leaves it behind the header.
update_size(p) ==
  LET written == [p EXCEPT !.header    = work_size(p) % LenMod,
                           !.write_pos = HeaderSize]
      last_write == p.write_pos - HeaderSize
  IN  IF full(p)
        THEN Throw([p EXCEPT !.write_pos = 0])
        ELSE SeekWrite(written, "from_start", last_write)

\* Mutant: resize forgets the header.
ResizeOnly(p, size) ==
  LET n == Larger(HeaderSize, Smaller(DatagramSize, size))
  IN  Return([p EXCEPT !.header = Grown(@),
                       !.body   = Resized(@, n - HeaderSize)], 0)

resize(p, size) ==
  LET n == Larger(HeaderSize, Smaller(DatagramSize, size))
  IN  update_size([p EXCEPT !.header = Grown(@),
                            !.body   = Resized(@, n - HeaderSize)])

\* Mutants: clear keeps the read cursor, or the payload, or does nothing to an
\* empty packet.
ClearKeepsRead(p) ==
  resize([p EXCEPT !.write_pos = HeaderSize], HeaderSize)

ClearCursors(p) ==
  Return([p EXCEPT !.read_pos = HeaderSize, !.write_pos = HeaderSize], 0)

ClearUnlessEmpty(p) ==
  IF empty(p) THEN Return(p, 0)
  ELSE resize([p EXCEPT !.read_pos = HeaderSize, !.write_pos = HeaderSize],
              HeaderSize)

clear(p) ==
  resize([p EXCEPT !.read_pos = HeaderSize, !.write_pos = HeaderSize],
         HeaderSize)

\* A packet as its constructors leave it.
NewPacket ==
  [header |-> 0, body |-> << >>,
   read_pos |-> HeaderSize, write_pos |-> HeaderSize,
   send_pos |-> -1, recv_pos |-> -1, recv_target |-> -1]

\* Mutant: a move takes the payload and leaves the header.
MovedButHeader(p) == recv_reset(send_reset([p EXCEPT !.body = << >>]))

\* What the source of a move constructor or assignment is left with.
MovedFrom(p) ==
  recv_reset(send_reset([p EXCEPT !.header = NoHeader, !.body = << >>]))

-----------------------------------------------------------------------------
(* Reading.                                                                *)

\* Mutant: the cursor moves by what was asked for, not by what was there.
ReadMovesBySize(p, size, whole, beyond) ==
  LET off  == p.read_pos - HeaderSize
      n    == IF p.read_pos <= real_size(p)
                THEN Smaller(real_size(p) - p.read_pos, size)
                ELSE size
  IN  IF empty(p) \/ n = 0 \/ (whole /\ n < size)
        THEN Return(p, 0)
        ELSE [Return([p EXCEPT !.read_pos = @ + size], n) EXCEPT
                !.out = [i \in 1 .. n |-> IF off + i <= Len(p.body)
                                            THEN p.body[off + i]
                                            ELSE beyond]]

\* real_size() - read_pos_ is unsigned: with the cursor past the end it wraps
\* to a huge number, the request is granted whole, and the bytes copied come
\* from behind the buffer; each of them is taken to be the byte beyond.
read_data(p, size, whole, beyond) ==
  LET off  == p.read_pos - HeaderSize
      n    == IF p.read_pos <= real_size(p)
                THEN Smaller(real_size(p) - p.read_pos, size)
                ELSE size
  IN  IF empty(p) \/ n = 0 \/ (whole /\ n < size)
        THEN Return(p, 0)
        ELSE [Return([p EXCEPT !.read_pos = @ + n], n) EXCEPT
                !.out = [i \in 1 .. n |-> IF off + i <= Len(p.body)
                                            THEN p.body[off + i]
                                            ELSE beyond]]

\* read(T&), and operator>>(T&), which throws where read returns 0.
ReadValue(p, size, enforced, beyond) ==
  LET r == read_data(p, size, TRUE, beyond)
  IN  IF enforced /\ r.ret # size THEN Throw(r.pkt) ELSE r

\* operator>>(bool&): a byte that must be 0 or 1.
ReadBool(p, beyond) ==
  LET r == ReadValue(p, 1, TRUE, beyond)
  IN  IF ~r.threw /\ r.out[1] > 1 THEN [Throw(r.pkt) EXCEPT !.out = r.out] ELSE r

\* read(std::string&), and operator>>(std::string&): the length is consumed
\* even if the characters behind it cannot be read.
ReadString(p, enforced, beyond) ==
  LET length == read_data(p, 2, TRUE, beyond)
      size   == Signed(Number(length.out))
      chars  == read_data(length.pkt, size, TRUE, beyond)
      short  == [length EXCEPT !.ret = 0, !.threw = enforced]
  IN  IF length.ret = 0 THEN short
      ELSE IF size < 0 THEN [length EXCEPT !.ret = 0, !.threw = TRUE]
      ELSE IF chars.ret = 0 THEN short
      ELSE [chars EXCEPT !.ret = @ + 2, !.out = length.out \o @]

-----------------------------------------------------------------------------
(* Writing.                                                                *)

\* memcpy of d to the start of data_: its first bytes become the header.
AtFront(p, d) ==
  LET bytes == Overwritten(IF HasData(p) THEN Flat(p) ELSE << >>, 0, d)
  IN  [p EXCEPT !.header    = Number(bytes),
                !.body      = SubSeq(bytes, HeaderSize + 1, Len(bytes)),
                !.write_pos = Len(d)]

\* memcpy of d to the write cursor, behind the header.
AtCursor(p, d) ==
  [p EXCEPT !.header    = Grown(@),
            !.body      = Overwritten(@, p.write_pos - HeaderSize, d),
            !.write_pos = @ + Len(d)]

\* Mutant: the size is not cut to the room that is left.
WriteUncut(p, d, whole) ==
  LET r == IF p.write_pos = 0 THEN Return(AtFront(p, d), 0)
                              ELSE update_size(AtCursor(p, d))
  IN  IF full(p) \/ (whole /\ p.write_pos + Len(d) > DatagramSize)
        THEN Return(p, 0)
        ELSE IF r.threw THEN r ELSE Return(r.pkt, Len(d))

\* At position 0 it is the header that is written, so its size is not updated.
write_data(p, d, whole) ==
  LET n    == Smaller(DatagramSize - p.write_pos, Len(d))
      part == SubSeq(d, 1, n)
      r    == IF p.write_pos = 0 THEN Return(AtFront(p, part), 0)
                                 ELSE update_size(AtCursor(p, part))
  IN  IF full(p) \/ (whole /\ p.write_pos + Len(d) > DatagramSize)
        THEN Return(p, 0)
        ELSE IF r.threw THEN r ELSE Return(r.pkt, n)

\* write(const T&), and operator<<(const T&), which throws on a short write.
WriteValue(p, d, enforced) ==
  LET r == write_data(p, d, TRUE)
  IN  IF enforced /\ r.ret # Len(d) THEN Throw(r.pkt) ELSE r

\* write(const std::string&): the two operands of the + that writes the length
\* and the characters are unsequenced, so a compiler may run either first.
WriteString(p, s, lengthFirst) ==
  LET parts  == IF lengthFirst THEN <<Digits(Len(s)), s>>
                               ELSE <<s, Digits(Len(s))>>
      first  == write_data(p, parts[1], TRUE)
      second == write_data(first.pkt, parts[2], TRUE)
      result == first.ret + second.ret
  IN  IF Len(s) > StringLimit THEN Throw(p)
      ELSE IF first.threw THEN first
      ELSE IF second.threw THEN second
      ELSE IF result # 2 + Len(s) THEN Throw(second.pkt)
      ELSE Return(second.pkt, result)

\* write(const Packet&), and operator<<(const Packet&).
WritePacket(p, source, enforced) ==
  LET r == IF empty(source) THEN Return(p, 0)
           ELSE write_data(p, source.body, TRUE)
  IN  IF enforced /\ r.ret # work_size(source) THEN Throw(r.pkt) ELSE r

-----------------------------------------------------------------------------
(* What calls keep.                                                        *)

\* Programs do not write at position 0, but for a packet that is full, which
\* refuses them, and one moved away after an overflow; that one is not written
\* to before a clear or a resize.
Writable(p) == p.write_pos >= HeaderSize \/ full(p)

\* What a single packet keeps, call by call, for the invariants to hold: it
\* never outgrows datagram_size, a moved-away one has no payload, and the
\* cursors stay where the code can use them as offsets.
Sound(p) ==
  /\ p \in PacketType
  /\ real_size(p) <= DatagramSize
  /\ ~HasData(p) => p.body = << >>
  /\ HasData(p) => p.header = work_size(p) \/ full(p)
  /\ p.read_pos >= HeaderSize
  /\ p.write_pos <= DatagramSize
  /\ HasData(p) =>
       \/ p.write_pos \in HeaderSize .. real_size(p)
       \/ p.write_pos = 0 /\ full(p)
=============================================================================
