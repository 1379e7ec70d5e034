------------------------------ MODULE PacketApi -----------------------------
(***************************************************************************)
(* Programs that call the public member functions of sws::Packet.  A       *)
(* packet belongs to one thread, so a call is one step.  Errors are caught *)
(* by the caller, who goes on using the packet.                            *)
(***************************************************************************)
EXTENDS Packet, FiniteSets

CONSTANTS
  Packets,       \* the packet objects of the program
  WriteData,     \* byte strings written raw or as values
  Strings,       \* the std::string arguments
  ReadSizes,     \* sizes asked of a read
  Seeks,         \* <<cursor, type, value>> arguments of seek
  ResizeSizes,   \* arguments of resize
  LengthFirst,   \* the orders in which a build may write a string's two parts
  MaxReadPos     \* bound: no read is modelled with the cursor behind this

ASSUME PacketApiAssumption ==
  /\ Packets # {}
  /\ WriteData \subseteq Seq(Byte)
  /\ Strings \subseteq Seq(Byte)
  /\ ReadSizes \subseteq Nat
  /\ Seeks \subseteq {"read", "write", "both"}
                       \X {"from_start", "relative", "from_end"} \X Int
  /\ ResizeSizes \subseteq Nat
  /\ LengthFirst \subseteq BOOLEAN
  /\ MaxReadPos \in Nat

VARIABLES
  pkts,   \* the packets
  last    \* history: the latest call, with what it was asked and answered

vars == <<pkts, last>>

Call(op, k, want, given, r) ==
  [op |-> op, on |-> k, want |-> want, given |-> given,
   ret |-> r.ret, threw |-> r.threw, out |-> r.out]

\* The call op on packet k, asked for want bytes or given parts of so many,
\* ends with outcome r.
Does(op, k, want, given, r) ==
  /\ pkts' = [pkts EXCEPT ![k] = r.pkt]
  /\ last' = Call(op, k, want, given, r)

Takes(op, k, want, r)  == Does(op, k, want, << >>, r)
Gives(op, k, part, r)  == Does(op, k, Len(part), <<part>>, r)
Acts(op, k, r)         == Does(op, k, 0, << >>, r)

Readable(p) == p.read_pos <= MaxReadPos

-----------------------------------------------------------------------------

Read(k) ==
  /\ Readable(pkts[k])
  /\ \E n \in ReadSizes, beyond \in Byte :
       Takes("read", k, n, read_data(pkts[k], n, FALSE, beyond))

ReadTyped(k) ==
  /\ Readable(pkts[k])
  /\ \E n \in ReadSizes, enforced \in BOOLEAN, beyond \in Byte :
       Takes("read_value", k, n, ReadValue(pkts[k], n, enforced, beyond))

ReadABool(k) ==
  /\ Readable(pkts[k])
  /\ \E beyond \in Byte : Takes("read_bool", k, 1, ReadBool(pkts[k], beyond))

ReadAString(k) ==
  /\ Readable(pkts[k])
  /\ \E enforced \in BOOLEAN, beyond \in Byte :
       Takes("read_string", k, 2, ReadString(pkts[k], enforced, beyond))

Write(k) ==
  /\ Writable(pkts[k])
  /\ \E d \in WriteData :
       Gives("write", k, d, write_data(pkts[k], d, FALSE))

WriteTyped(k) ==
  /\ Writable(pkts[k])
  /\ \E d \in WriteData, enforced \in BOOLEAN :
       Gives("write_value", k, d, WriteValue(pkts[k], d, enforced))

WriteAString(k) ==
  /\ Writable(pkts[k])
  /\ \E s \in Strings, order \in LengthFirst :
       Does("write_string", k, 2 + Len(s),
            IF order THEN <<Digits(Len(s)), s>> ELSE <<s, Digits(Len(s))>>,
            WriteString(pkts[k], s, order))

\* Mutant: source and destination swapped.
AppendSwapped(k, j) ==
  /\ Writable(pkts[k])
  /\ \E enforced \in BOOLEAN :
       Gives("append", k, pkts[j].body,
             WritePacket(pkts[j], pkts[k], enforced))

AppendPacket(k, j) ==
  /\ Writable(pkts[k])
  /\ \E enforced \in BOOLEAN :
       Gives("append", k, pkts[j].body,
             WritePacket(pkts[k], pkts[j], enforced))

Seek(k) ==
  \E s \in Seeks : Acts("seek", k, seek(pkts[k], s[1], s[2], s[3]))

Clear(k) == Acts("clear", k, clear(pkts[k]))

Resize(k) == \E n \in ResizeSizes : Takes("resize", k, n, resize(pkts[k], n))

CopyAssign(k, j) == Acts("copy", k, Return(pkts[j], 0))

MoveAssign(k, j) ==
  /\ pkts' = [pkts EXCEPT ![k] = pkts[j], ![j] = MovedFrom(pkts[j])]
  /\ last' = Call("move", k, 0, << >>, Return(pkts[j], 0))

-----------------------------------------------------------------------------

Init ==
  /\ pkts = [k \in Packets |-> NewPacket]
  /\ last = [op |-> "construct", on |-> CHOOSE k \in Packets : TRUE,
             want |-> 0, given |-> << >>, ret |-> 0, threw |-> FALSE, out |-> << >>]

\* Writing and reading from front to back.
Stream(k) ==
  \/ Read(k) \/ ReadTyped(k) \/ ReadABool(k) \/ ReadAString(k)
  \/ Write(k) \/ WriteTyped(k) \/ WriteAString(k)
  \/ \E j \in Packets \ {k} : AppendPacket(k, j)
  \/ Clear(k)

Rearrange(k) ==
  \/ Seek(k)
  \/ Resize(k)
  \/ \E j \in Packets \ {k} : CopyAssign(k, j) \/ MoveAssign(k, j)

Next == \E k \in Packets : Stream(k) \/ Rearrange(k)

Spec == Init /\ [][Next]_vars

StreamSpec == Init /\ [][\E k \in Packets : Stream(k)]_vars

-----------------------------------------------------------------------------
(* Invariants.                                                             *)

Ops == {"construct", "read", "read_value", "read_bool", "read_string",
        "write", "write_value", "write_string", "append",
        "seek", "clear", "resize", "copy", "move"}

\* The packets are packet records, and the history one of the calls.
TypeOK ==
  /\ pkts \in [Packets -> PacketType]
  /\ last.op \in Ops
  /\ last.on \in Packets

\* Whatever calls were made and whichever of them threw, the length that
\* data_ starts with is the payload's length.  The one exception is a packet
\* filled to datagram_size, whose header update_size can no longer write.
HeaderTracksSize ==
  \A k \in Packets :
    HasData(pkts[k]) => verify_size(pkts[k]) \/ full(pkts[k])

\* The write cursor of a packet that has data is behind the header and not
\* beyond the data, even after update_size moved it to 0 and then threw; only
\* a full packet, which refuses every write, may keep it at 0.
WriteCursorInBuffer ==
  \A k \in Packets :
    HasData(pkts[k]) =>
      \/ pkts[k].write_pos \in HeaderSize .. real_size(pkts[k])
      \/ pkts[k].write_pos = 0 /\ full(pkts[k])

\* Every packet is sound at all times, whatever calls were made and whichever
\* of them threw: the inductive invariant.
AllSound ==
  /\ pkts \in [Packets -> PacketType]
  /\ \A k \in Packets : Sound(pkts[k])
  /\ last.op \in Ops
  /\ last.on \in Packets

-----------------------------------------------------------------------------
(* Action properties.                                                      *)

Was(k) == pkts[k]
Is(k)  == pkts'[k]

\* A raw, typed or appending call moves its own cursor by exactly what it
\* returns and leaves the other cursor alone, although the write cursor is
\* taken to 0 and back on the way; a call on a whole value is all or nothing.
\* A string that cannot be read whole may still have cost its length.
CursorsMove ==
  LET k == last'.on IN
  ~last'.threw =>
    /\ last'.op \in {"read", "read_value", "read_bool"} =>
         /\ Is(k).read_pos = Was(k).read_pos + last'.ret
         /\ Is(k).write_pos = Was(k).write_pos
    /\ last'.op \in {"write", "write_value", "append"} =>
         /\ Is(k).write_pos = Was(k).write_pos + last'.ret
         /\ Is(k).read_pos = Was(k).read_pos
    /\ last'.op \in {"read_value", "write_value", "append"} =>
         last'.ret \in {0, last'.want}
    /\ last'.op = "read_string" =>
         LET moved == Is(k).read_pos - Was(k).read_pos
         IN  moved = last'.ret \/ (moved = 2 /\ last'.ret = 0)

CursorsMoveByReturn == [][CursorsMove]_vars

\* No read changes the payload, no write shortens it or changes a byte in
\* front of the write cursor: not even a write that ends in an exception.
EarlierKept ==
  LET k == last'.on IN
  /\ last'.op \in {"read", "read_value", "read_bool", "read_string", "seek"}
       => Is(k).body = Was(k).body /\ Is(k).header = Was(k).header
  /\ last'.op \in {"write", "write_value", "write_string", "append"}
       => /\ work_size(Is(k)) >= work_size(Was(k))
          /\ \A i \in 1 .. work_size(Was(k)) :
               i <= Was(k).write_pos - HeaderSize
                 => Is(k).body[i] = Was(k).body[i]

EarlierBytesKept == [][EarlierKept]_vars

\* clear() makes a usable empty packet out of every state calls can leave a
\* packet in: overflowed, moved away, or with cursors beyond its end.
ClearRecovers ==
  [][last'.op = "clear" =>
       LET p == Is(last'.on) IN
         /\ ~last'.threw
         /\ empty(p) /\ verify_size(p)
         /\ p.read_pos = HeaderSize /\ p.write_pos = HeaderSize
    ]_vars

-----------------------------------------------------------------------------
(* What a packet promises.                                                 *)

\* The unread bytes of a packet are the abstract queue.
Unread(p) == SubSeq(p.body, p.read_pos - HeaderSize + 1, Len(p.body))

\* The bytes that still go in.
Room(p) == DatagramSize - real_size(p)

AsQueue(p) == [bytes |-> Unread(p), room |-> Room(p)]

Queue == INSTANCE ByteQueue WITH
           Owners     <- Packets,
           Capacity   <- DatagramSize - HeaderSize,
           Longest    <- StringLimit,
           TextLength <- [b \in Byte \X Byte |-> Signed(Number(b))],
           queues     <- [k \in Packets |-> AsQueue(pkts[k])],
           call       <- last.op,
           asked      <- last.want,
           given      <- last.given,
           answer     <- IF last.threw THEN -1 ELSE last.ret,
           got        <- last.out

\* Used from front to back, packets are first-in first-out byte queues that
\* say what they did.  What is read is what was written, in order.  A raw write
\* puts in what there is room for, a value all or nothing; a string that fails
\* leaves the one of its two parts that fitted, or none; the write that fills
\* the packet throws with its bytes stored.  A read that fails takes nothing,
\* but for the two bytes of a string's length and the byte of a bool.
IsByteQueue == Queue!QueueSpec

-----------------------------------------------------------------------------
(* Statements of the documentation.                                        *)

\* Packet.h:232-234, for every write(const T&): "\return 0 on failure, data's
\* size on success".  The value fits, the packet is not full: it is a success.
FittingWriteReported ==
  [][LET k == last'.on IN
       /\ last'.op = "write_value"
       /\ ~full(Was(k))
       /\ Was(k).write_pos + last'.want <= DatagramSize
       => ~last'.threw /\ last'.ret = last'.want
    ]_vars
=============================================================================
