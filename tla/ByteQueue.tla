------------------------------ MODULE ByteQueue -----------------------------
(***************************************************************************)
(* What a packet promises a program that only writes, reads and clears: a  *)
(* first-in first-out queue of bytes.  Capacity of them go in between two  *)
(* emptyings, whether or not some are taken out meanwhile.                 *)
(*                                                                         *)
(* Every call says which bytes went in or came out, also the calls that    *)
(* fail, and those that fail although their bytes are in the queue: the    *)
(* ones that fill it.                                                      *)
(***************************************************************************)
EXTENDS Integers, Sequences

CONSTANTS
  Owners,      \* one queue each
  Capacity,    \* bytes that go in before the queue is emptied
  Longest,     \* the length of the longest text
  TextLength   \* function: the length that two bytes announce

VARIABLES
  queues,   \* the bytes in the queue, and the room for more
  call,     \* the latest call
  asked,    \* how many bytes it was to put in or to take out
  given,    \* the parts it was to put in
  answer,   \* how many bytes it says it put in or took out; Failed if it failed
  got       \* the bytes it took out

qvars == <<queues, call, asked, given, answer, got>>

Failed == -1
New    == [bytes |-> << >>, room |-> Capacity]

Start ==
  /\ queues = [o \in Owners |-> New]
  /\ call = "construct" /\ asked = 0 /\ given = << >>
  /\ answer = 0 /\ got = << >>

-----------------------------------------------------------------------------
(* Putting in.                                                             *)

\* A part enters at the back, whole if there is room for it and not at all if
\* there is not.
Enter(q, part) ==
  IF Len(part) <= q.room
    THEN [bytes |-> q.bytes \o part, room |-> q.room - Len(part)]
    ELSE q

\* The queue becomes q, and the answer is n unless that fills it.
Entered(o, q, n) ==
  /\ queues' = [queues EXCEPT ![o] = q]
  /\ answer' = IF queues[o].room > 0 /\ q.room = 0 THEN Failed ELSE n

\* Of raw bytes, as many enter as there is room for.
PutBytes(o, bytes) ==
  LET room == queues[o].room
      n    == IF Len(bytes) <= room THEN Len(bytes) ELSE room
  IN  /\ asked' = Len(bytes)
      /\ Entered(o, Enter(queues[o], SubSeq(bytes, 1, n)), n)

\* A value, or the payload of another packet, enters whole or not at all.
PutWhole(o, part) ==
  /\ asked' = Len(part)
  /\ IF Len(part) <= queues[o].room
       THEN Entered(o, Enter(queues[o], part), Len(part))
       ELSE answer' \in {0, Failed} /\ UNCHANGED queues

\* A text and its length are two parts, in either order.  The call fails if one
\* of them did not enter, and the other may then be in the queue.  A text that
\* is too long is refused.
PutText(o, first, second) ==
  LET size == Len(first) + Len(second)
  IN  /\ asked' = size
      /\ IF size - 2 > Longest
           THEN answer' = Failed /\ UNCHANGED queues
           ELSE Entered(o, Enter(Enter(queues[o], first), second),
                        IF size <= queues[o].room THEN size ELSE Failed)

Put(o) ==
  /\ \/ call' = "write"                     /\ PutBytes(o, given'[1])
     \/ call' \in {"write_value", "append"} /\ PutWhole(o, given'[1])
     \/ call' = "write_string"              /\ PutText(o, given'[1], given'[2])
  /\ got' = << >>

-----------------------------------------------------------------------------
(* Taking out.                                                             *)

\* The first n bytes leave, in the order they entered.
Leave(o, n) ==
  /\ got' = SubSeq(queues[o].bytes, 1, n)
  /\ queues' = [queues EXCEPT ![o].bytes = SubSeq(@, n + 1, Len(@))]

\* As many bytes as are asked for and there are.
GetBytes(o) ==
  LET n == IF asked' <= Len(queues[o].bytes) THEN asked' ELSE Len(queues[o].bytes)
  IN  Leave(o, n) /\ answer' = n

\* All that are asked for, or none.
GetWhole(o) ==
  IF asked' <= Len(queues[o].bytes)
    THEN Leave(o, asked') /\ answer' = asked'
    ELSE Leave(o, 0) /\ answer' \in {0, Failed}

\* A byte that is neither 0 nor 1 leaves too.
GetBool(o) ==
  IF queues[o].bytes = << >>
    THEN Leave(o, 0) /\ answer' = Failed
    ELSE Leave(o, 1) /\ answer' = IF queues[o].bytes[1] > 1 THEN Failed ELSE 1

\* A text leaves with its length.  If it is not there whole, or is empty, the
\* length alone does.
GetText(o) ==
  LET bytes == queues[o].bytes
      size  == TextLength[SubSeq(bytes, 1, 2)]
  IN  IF Len(bytes) < 2 THEN Leave(o, 0) /\ answer' \in {0, Failed}
      ELSE IF size \in 1 .. Len(bytes) - 2
        THEN Leave(o, 2 + size) /\ answer' = 2 + size
      ELSE Leave(o, 2) /\ answer' \in IF size < 0 THEN {Failed} ELSE {0, Failed}

Get(o) ==
  /\ \/ call' = "read"        /\ GetBytes(o)
     \/ call' = "read_value"  /\ GetWhole(o)
     \/ call' = "read_bool"   /\ GetBool(o)
     \/ call' = "read_string" /\ GetText(o)
  /\ given' = << >>

Empty(o) ==
  /\ queues' = [queues EXCEPT ![o] = New]
  /\ call' = "clear" /\ asked' = 0 /\ given' = << >> /\ answer' = 0
  /\ got' = << >>

-----------------------------------------------------------------------------

Step == \E o \in Owners : Put(o) \/ Get(o) \/ Empty(o)

QueueSpec == Start /\ [][Step]_qvars
=============================================================================
