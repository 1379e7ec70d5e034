--------------------------- MODULE SendAllProofs ----------------------------
(***************************************************************************)
(* Theorems about SendAll, for every pair of programs, all messages and    *)
(* every capacity of the connection.                                       *)
(***************************************************************************)
EXTENDS SendAll, SequenceTheorems, TLAPS

Calls == {"send", "receive"}

Typed ==
  /\ message \in [Ends -> Messages] /\ script \in [Ends -> Scripts]
  /\ blocking \in [Ends -> BOOLEAN]
  /\ answers \in [Ends -> Seq(BOOLEAN)]
  /\ total \in [Ends -> Nat] /\ taken \in [Ends -> Nat]
  /\ stream \in [Ends -> Seq(Nat)] /\ buf \in [Ends -> Seq(Nat)]
  /\ native \in [Ends -> {"none", "would_block", "connection_reset"}]
  /\ broken \in BOOLEAN

\* A running call has not counted more than there is.
Counted(e) ==
  /\ Len(answers[e]) <= Len(script[e])
  /\ Len(stream[e]) <= Cap
  /\ \A op \in Calls : InCall(e, op) => total[e] + taken[e] <= length(e, op)
  /\ ~InCall(e, "send") => taken[e] = 0

Counts == Typed /\ \A e \in Ends : Counted(e)

-----------------------------------------------------------------------------
(* The two ends, and the calls that they are in.                           *)

\* There are two ends, and each is the other's other end.
LEMMA OtherEnd ==
  ASSUME NEW e \in Ends
  PROVE  /\ Other(e) \in Ends /\ Other(e) # e /\ Other(Other(e)) = e
         /\ \A f \in Ends : f = e \/ f = Other(e)
<1>1. PICK x \in Ends, y \in Ends : x # y /\ Ends = {x, y}
  BY SendAllAssumption DEF SendAllAssumption
<1>2. \A d \in Ends : Other(d) \in Ends /\ Other(d) # d
  <2> TAKE d \in Ends
  <2>1. \E f \in Ends : f # d
    BY <1>1
  <2> QED BY <2>1 DEF Other
<1> QED BY <1>1, <1>2

\* A message is a sequence of numbers, and a script one or two calls.
LEMMA Chosen ==
  ASSUME Typed, NEW e \in Ends
  PROVE  /\ message[e] \in Seq(Nat) /\ Len(message[e]) \in Nat
         /\ script[e] \in {<<"send">>, <<"receive">>, <<"send", "receive">>,
                           <<"receive", "send">>}
         /\ \A op \in Calls : length(e, op) \in Nat
<1>1. \A d \in Ends : message[d] \in Seq(Nat) /\ Len(message[d]) \in Nat
  BY SendAllAssumption, LenProperties DEF SendAllAssumption, Typed
<1>2. script[e] \in {<<"send">>, <<"receive">>, <<"send", "receive">>,
                     <<"receive", "send">>}
  BY SendAllAssumption DEF SendAllAssumption, Typed
<1> QED BY <1>1, <1>2, OtherEnd DEF length, Calls

\* No end makes the same call twice.
LEMMA TwoCalls ==
  ASSUME Typed, NEW e \in Ends, NEW x, NEW y, script[e] = <<x, y>>
  PROVE  x # y
<1>1. <<x, y>> \in {<<"send">>, <<"receive">>, <<"send", "receive">>,
                    <<"receive", "send">>}
  BY Chosen
<1> QED BY <1>1

\* A call that runs is the first that has not been answered.
LEMMA Running ==
  ASSUME Typed, NEW e \in Ends, Len(answers[e]) <= Len(script[e]),
         NEW op, InCall(e, op)
  PROVE  /\ Len(answers[e]) \in {0, 1} /\ Len(answers[e]) < Len(script[e])
         /\ script[e][Len(answers[e]) + 1] = op /\ op \in Calls
         /\ \A i \in DOMAIN answers[e] : answers[e][i] = TRUE
         /\ \A other : InCall(e, other) => other = op
<1>1. answers[e] \in Seq(BOOLEAN) /\ Len(answers[e]) \in Nat
  BY LenProperties DEF Typed
<1>2. Len(answers[e]) # Len(script[e])
  BY DEF InCall, Stopped
<1>3. script[e][Len(answers[e]) + 1] = op
  BY DEF InCall
<1>4. \A other : InCall(e, other) => other = op
  BY <1>3 DEF InCall
<1>5. /\ Len(script[e]) \in {1, 2}
      /\ script[e][1] \in Calls
      /\ Len(script[e]) = 2 => script[e][2] \in Calls
  BY Chosen DEF Calls
<1>6. Len(answers[e]) \in {0, 1} /\ Len(answers[e]) < Len(script[e])
  <2>1. \A n \in Nat : \A m \in {1, 2} : n <= m /\ n # m => n \in {0, 1} /\ n < m
    OBVIOUS
  <2> QED BY <1>1, <1>2, <1>5, <2>1
<1>7. \A i \in DOMAIN answers[e] : answers[e][i] = TRUE
  <2>1. \A i \in DOMAIN answers[e] : answers[e][i]
    BY DEF InCall, Stopped
  <2>2. \A i \in DOMAIN answers[e] : answers[e][i] \in BOOLEAN
    BY <1>1, ElementOfSeq, LenProperties
  <2> QED BY <2>1, <2>2
<1> QED BY <1>3, <1>4, <1>5, <1>6, <1>7

\* What an append adds.
LEMMA Appended ==
  ASSUME NEW s \in Seq(BOOLEAN), NEW x \in BOOLEAN
  PROVE  Len(Append(s, x)) = Len(s) + 1 /\ Append(s, x)[Len(s) + 1] = x
BY AppendProperties, Zenon

\* What an append keeps.
LEMMA AppendKeeps ==
  ASSUME NEW s \in Seq(BOOLEAN), NEW x \in BOOLEAN
  PROVE  Append(s, x) \in Seq(BOOLEAN) /\ \A i \in 1 .. Len(s) : Append(s, x)[i] = s[i]
<1>1. Append(s, x) \in Seq(BOOLEAN)
  BY AppendProperties, Zenon
<1>2. \A i \in 1 .. Len(s) : Append(s, x)[i] = s[i]
  OBVIOUS
<1> QED BY <1>1, <1>2

\* Once it is answered, the next call runs, if there is one and the answer
\* was true.
LEMMA Answered ==
  ASSUME Typed, NEW e \in Ends, Len(answers[e]) <= Len(script[e]),
         NEW op, InCall(e, op), NEW true \in BOOLEAN, UNCHANGED script,
         answers' = [answers EXCEPT ![e] = Append(@, true)]
  PROVE  /\ answers' \in [Ends -> Seq(BOOLEAN)]
         /\ Len(answers'[e]) = Len(answers[e]) + 1
         /\ Len(answers'[e]) <= Len(script[e])
         /\ \A o : InCall(e, o)' =>
              true /\ Len(answers[e]) = 0 /\ script[e] = <<op, o>>
         /\ \A f \in Ends \ {e} : \A o : InCall(f, o)' <=> InCall(f, o)
<1>1. answers[e] \in Seq(BOOLEAN) /\ Len(answers[e]) \in Nat
  BY LenProperties DEF Typed
<1>2. answers'[e] = Append(answers[e], true)
  BY DEF Typed
<1>3. answers' \in [Ends -> Seq(BOOLEAN)]
  BY <1>1, AppendProperties DEF Typed
<1>4. Len(answers'[e]) = Len(answers[e]) + 1 /\ answers'[e][Len(answers[e]) + 1] = true
  BY <1>1, <1>2, Appended, Zenon
<1>5. Len(answers'[e]) <= Len(script[e])
  BY <1>1, <1>4, Running, Chosen
<1>6. ASSUME NEW o, InCall(e, o)'
      PROVE  true /\ Len(answers[e]) = 0 /\ script[e] = <<op, o>>
  <2>1. /\ Len(answers'[e]) # Len(script[e])
        /\ \A i \in DOMAIN answers'[e] : answers'[e][i]
        /\ script[e][Len(answers'[e]) + 1] = o
    BY <1>6 DEF InCall, Stopped
  <2>2. Len(answers[e]) + 1 \in DOMAIN answers'[e]
    BY <1>1, <1>3, <1>4, LenProperties
  <2>3. Len(answers[e]) = 0 /\ Len(script[e]) = 2
    BY <1>1, <1>4, <1>5, <2>1, Running, Chosen
  <2> QED BY <1>4, <2>1, <2>2, <2>3, Running, Chosen
<1>7. ASSUME NEW f \in Ends \ {e}, NEW o PROVE InCall(f, o)' <=> InCall(f, o)
  <2>1. answers'[f] = answers[f]
    BY DEF Typed
  <2> QED BY <2>1 DEF InCall, Stopped
<1> QED BY <1>3, <1>4, <1>5, <1>6, <1>7

-----------------------------------------------------------------------------
(* The loops count within the messages.                                    *)

\* What is typed gives the parts of one end's state.
LEMMA Parts ==
  ASSUME Typed, NEW e \in Ends
  PROVE  /\ total[e] \in Nat /\ taken[e] \in Nat
         /\ stream[e] \in Seq(Nat) /\ Len(stream[e]) \in Nat
         /\ buf[e] \in Seq(Nat) /\ Len(buf[e]) \in Nat
         /\ Cap \in Nat /\ Cap > 0
<1>1. stream[e] \in Seq(Nat) /\ buf[e] \in Seq(Nat)
  BY DEF Typed
<1>2. Len(stream[e]) \in Nat /\ Len(buf[e]) \in Nat
  BY <1>1, LenProperties
<1> QED BY <1>1, <1>2, SendAllAssumption DEF SendAllAssumption, Typed

\* A step in which one end's call is answered, with nothing half-done.
LEMMA AnswerCounts ==
  ASSUME Counts, NEW e \in Ends, NEW op, InCall(e, op), NEW true \in BOOLEAN,
         Answer(e, true), UNCHANGED <<fixed, stream>>,
         taken' \in [Ends -> Nat], taken'[e] = 0,
         \A f \in Ends \ {e} : taken'[f] = taken[f]
  PROVE  /\ answers' \in [Ends -> Seq(BOOLEAN)] /\ total' \in [Ends -> Nat]
         /\ \A f \in Ends : Counted(f)'
<1>1. Typed /\ \A f \in Ends : Counted(f)
  BY DEF Counts
<1>2. Len(answers[e]) <= Len(script[e])
  BY <1>1 DEF Counted
<1>3. /\ answers' \in [Ends -> Seq(BOOLEAN)]
      /\ Len(answers'[e]) <= Len(script[e])
      /\ \A f \in Ends \ {e} : \A o : InCall(f, o)' <=> InCall(f, o)
  BY <1>1, <1>2, Answered DEF Answer, fixed
<1>4. total' \in [Ends -> Nat] /\ total'[e] = 0
  BY <1>1 DEF Answer, Typed
<1>5. \A f \in Ends : \A o : length(f, o)' = length(f, o)
  BY DEF length, fixed, Other
<1>6. ASSUME NEW f \in Ends PROVE Counted(f)'
  <2>1. CASE f = e
    <3>1. \A o \in Calls : total'[e] + taken'[e] <= length(e, o)'
      BY <1>1, <1>4, <1>5, Chosen
    <3> QED BY <1>1, <1>3, <2>1, <3>1 DEF Counted, fixed
  <2>2. CASE f # e
    <3>1. /\ answers'[f] = answers[f] /\ total'[f] = total[f]
          /\ taken'[f] = taken[f] /\ \A o : InCall(f, o)' <=> InCall(f, o)
      BY <1>1, <1>3, <2>2 DEF Answer, Typed
    <3> QED BY <1>1, <1>5, <3>1 DEF Counted, fixed
  <2> QED BY <2>1, <2>2
<1> QED BY <1>3, <1>4, <1>6

\* When a call is complete, nothing of it is half-done.
LEMMA CompleteCall ==
  ASSUME Counts, NEW e \in Ends, NEW op \in Calls, AllDone(e, op)
  PROVE  InCall(e, op) /\ taken[e] = 0 /\ total[e] = length(e, op)
<1>1. Typed /\ Counted(e)
  BY DEF Counts
<1>2. InCall(e, op) /\ length(e, op) - total[e] <= 0
  BY DEF AllDone, left
<1>3. total[e] + taken[e] <= length(e, op)
  BY <1>1, <1>2 DEF Counted
<1> QED BY <1>1, <1>2, <1>3, Parts, Chosen

\* The initial states count nothing.
LEMMA CountsInit ==
  ASSUME Init PROVE Counts
<1>1. Typed
  BY SendAllAssumption, EmptySeq DEF Init, Typed, SendAllAssumption
<1>2. ASSUME NEW e \in Ends PROVE Counted(e)
  <2>1. Len(answers[e]) = 0 /\ Len(stream[e]) = 0 /\ total[e] = 0 /\ taken[e] = 0
    BY EmptySeq DEF Init
  <2>2. Len(script[e]) \in Nat
    BY <1>1, Chosen
  <2> QED BY <1>1, <2>1, <2>2, Chosen, Parts DEF Counted, Calls
<1> QED BY <1>1, <1>2 DEF Counts

\* A call that is complete keeps the counts.
LEMMA CompleteCounts ==
  ASSUME Counts, NEW e \in Ends, Complete(e) PROVE Counts'
<1>1. PICK op \in Calls : AllDone(e, op)
  BY DEF Complete, Calls
<1>2. InCall(e, op) /\ taken[e] = 0
  BY <1>1, CompleteCall
<1>3. /\ answers' \in [Ends -> Seq(BOOLEAN)] /\ total' \in [Ends -> Nat]
      /\ \A f \in Ends : Counted(f)'
  BY <1>2, AnswerCounts DEF Complete, Counts, Typed
<1> QED BY <1>3 DEF Counts, Typed, Complete, fixed

\* So does the end of the stream.
LEMMA ReceiveNothingCounts ==
  ASSUME Counts, NEW e \in Ends, ReceiveNothing(e) PROVE Counts'
<1>1. taken[e] = 0
  <2>1. ~InCall(e, "send")
    BY DEF ReceiveNothing, InCall
  <2> QED BY <2>1 DEF Counts, Counted
<1>2. /\ answers' \in [Ends -> Seq(BOOLEAN)] /\ total' \in [Ends -> Nat]
      /\ \A f \in Ends : Counted(f)'
  BY <1>1, AnswerCounts DEF ReceiveNothing, Counts, Typed
<1> QED BY <1>2 DEF Counts, Typed, ReceiveNothing, fixed

\* So does a call that fails.
LEMMA FailCounts ==
  ASSUME Counts, NEW e \in Ends, Fail(e) PROVE Counts'
<1>1. PICK op \in Calls : InCall(e, op)
  BY DEF Fail, Calls
<1>2. /\ taken' \in [Ends -> Nat] /\ taken'[e] = 0
      /\ \A f \in Ends \ {e} : taken'[f] = taken[f]
  BY DEF Fail, Counts, Typed
<1>3. /\ answers' \in [Ends -> Seq(BOOLEAN)] /\ total' \in [Ends -> Nat]
      /\ \A f \in Ends : Counted(f)'
  BY <1>1, <1>2, AnswerCounts DEF Fail
<1>4. native' \in [Ends -> {"none", "would_block", "connection_reset"}]
  BY DEF Fail, Counts, Typed
<1> QED BY <1>2, <1>3, <1>4 DEF Counts, Typed, Fail, fixed

\* What does not depend on the streams and the counts of a call.
LEMMA CallsStay ==
  ASSUME UNCHANGED <<message, script, answers>>, NEW f, NEW o
  PROVE  InCall(f, o)' = InCall(f, o) /\ length(f, o)' = length(f, o)
BY DEF InCall, Stopped, length, Other

\* What a native call may transfer.
LEMMA LeastBounds ==
  ASSUME NEW n \in Int, NEW m \in Int, NEW k \in 1 .. Least(n, m)
  PROVE  k \in Nat /\ k > 0 /\ k <= n /\ k <= m
BY DEF Least

\* A piece of a sequence, from behind its first a elements up to the b-th.
LEMMA Piece ==
  ASSUME NEW s \in Seq(Nat), NEW a \in Nat, NEW b \in Nat, a <= b, b <= Len(s)
  PROVE  /\ SubSeq(s, a + 1, b) \in Seq(Nat) /\ Len(SubSeq(s, a + 1, b)) = b - a
         /\ SubSeq(s, 1, a) \o SubSeq(s, a + 1, b) = SubSeq(s, 1, b)
<1>1. Len(s) \in Nat /\ \A i \in a + 1 .. b : s[i] \in Nat
  BY ElementOfSeq, LenProperties
<1>2. /\ SubSeq(s, a + 1, b) \in Seq(Nat)
      /\ Len(SubSeq(s, a + 1, b)) = IF a + 1 <= b THEN b - (a + 1) + 1 ELSE 0
  BY <1>1, SubSeqProperties
<1>3. SubSeq(s, 1, a) \o SubSeq(s, a + 1, b) = SubSeq(s, 1, b)
  BY <1>1, ConcatAdjacentSubSeq
<1> QED BY <1>2, <1>3

\* ::send takes no more than is left and than there is room for.
LEMMA SendTakes ==
  ASSUME Counts, NEW e \in Ends, InCall(e, "send"),
         NEW k \in 1 .. Least(Room(e), left(e, "send") - taken[e])
  PROVE  /\ k \in Nat /\ k > 0
         /\ Len(stream[e]) + k <= Cap
         /\ total[e] + taken[e] + k <= length(e, "send")
<1>1. Typed /\ Counted(e)
  BY DEF Counts
<1>2. total[e] + taken[e] <= length(e, "send") /\ Len(stream[e]) <= Cap
  BY <1>1 DEF Counted, Calls
<1>3. length(e, "send") \in Nat
  BY <1>1, Chosen DEF Calls
<1>4. Room(e) \in Int /\ left(e, "send") - taken[e] \in Int
  BY <1>1, <1>3, Parts DEF Room, left
<1>5. k \in Nat /\ k > 0 /\ k <= Room(e) /\ k <= left(e, "send") - taken[e]
  BY <1>4, LeastBounds
<1> QED BY <1>1, <1>3, <1>5, Parts DEF Room, left

\* What it takes is a piece of the message.
LEMMA SendPiece ==
  ASSUME Typed, NEW e \in Ends, NEW k \in Nat,
         total[e] + taken[e] + k <= length(e, "send")
  PROVE  /\ SubSeq(message[e], Place(e) + 1, Place(e) + k) \in Seq(Nat)
         /\ Len(SubSeq(message[e], Place(e) + 1, Place(e) + k)) = k
         /\ SubSeq(message[e], 1, Place(e))
              \o SubSeq(message[e], Place(e) + 1, Place(e) + k)
              = SubSeq(message[e], 1, Place(e) + k)
<1>1. /\ message[e] \in Seq(Nat) /\ Place(e) \in Nat /\ Place(e) + k \in Nat
      /\ Place(e) + k <= Len(message[e]) /\ Place(e) <= Place(e) + k
  BY Parts, Chosen DEF Place, length
<1>2. (Place(e) + k) - Place(e) = k
  BY <1>1
<1> DEFINE there == Place(e) + k
<1>3. /\ SubSeq(message[e], Place(e) + 1, there) \in Seq(Nat)
      /\ Len(SubSeq(message[e], Place(e) + 1, there)) = there - Place(e)
      /\ SubSeq(message[e], 1, Place(e)) \o SubSeq(message[e], Place(e) + 1, there)
           = SubSeq(message[e], 1, there)
  BY <1>1, Piece, Zenon
<1> QED BY <1>2, <1>3

\* A turn of send_all counts at most what is left, into a stream with room.
LEMMA send_allCounts ==
  ASSUME Counts, NEW e \in Ends, send_all(e) PROVE Counts'
<1>1. PICK k \in 1 .. Least(Room(e), left(e, "send") - taken[e]) :
        LET sent == Sent(e, left(e, "send"), k)
        IN /\ stream' = [stream EXCEPT ![e] =
                          @ \o SubSeq(message[e], Place(e) + 1, Place(e) + k)]
           /\ total' = [total EXCEPT ![e] = @ + sent]
           /\ taken' = [taken EXCEPT ![e] = IF sent > 0 THEN 0 ELSE @ + k]
  BY DEF send_all
<1>2. Typed /\ \A f \in Ends : Counted(f)
  BY DEF Counts
<1>3. /\ k \in Nat /\ k > 0 /\ Len(stream[e]) + k <= Cap
      /\ total[e] + taken[e] + k <= length(e, "send")
  BY SendTakes DEF send_all
<1> DEFINE sent == Sent(e, left(e, "send"), k)
           more == SubSeq(message[e], Place(e) + 1, Place(e) + k)
<1>4. sent \in Nat /\ (sent = 0 \/ sent = taken[e] + k)
  BY <1>2, <1>3, Parts DEF Sent
<1>5. more \in Seq(Nat) /\ Len(more) = k
  BY <1>2, <1>3, SendPiece
<1>6. /\ stream[e] \o more \in Seq(Nat)
      /\ Len(stream[e] \o more) = Len(stream[e]) + k
  BY <1>2, <1>5, Parts, ConcatProperties
<1> HIDE DEF sent, more
<1>7. /\ stream' = [stream EXCEPT ![e] = @ \o more]
      /\ total' = [total EXCEPT ![e] = @ + sent]
      /\ taken' = [taken EXCEPT ![e] = IF sent > 0 THEN 0 ELSE @ + k]
  BY <1>1 DEF sent, more
<1>8. /\ stream'[e] = stream[e] \o more
      /\ total'[e] = total[e] + sent
      /\ taken'[e] = (IF sent > 0 THEN 0 ELSE taken[e] + k)
      /\ \A f \in Ends \ {e} : /\ stream'[f] = stream[f] /\ total'[f] = total[f]
                               /\ taken'[f] = taken[f]
  BY <1>2, <1>7 DEF Typed
<1>9. Typed'
  <2>1. total[e] + sent \in Nat /\ (IF sent > 0 THEN 0 ELSE taken[e] + k) \in Nat
    BY <1>2, <1>3, <1>4, Parts
  <2> QED BY <1>2, <1>6, <1>7, <2>1 DEF Typed, send_all, fixed
<1>10. ASSUME NEW f \in Ends PROVE Counted(f)'
  <2>1. \A o : InCall(f, o)' = InCall(f, o) /\ length(f, o)' = length(f, o)
    BY CallsStay DEF send_all, fixed
  <2>2. CASE f = e
    <3>1. total'[e] + taken'[e] <= length(e, "send")
      BY <1>2, <1>3, <1>4, <1>8, Parts
    <3>2. InCall(e, "send") /\ \A o : InCall(e, o) => o = "send"
      BY DEF send_all, InCall
    <3> QED BY <1>2, <1>3, <1>6, <1>8, <2>1, <2>2, <3>1, <3>2
            DEF Counted, send_all, fixed
  <2>3. CASE f # e
    BY <1>2, <1>8, <2>1, <2>3 DEF Counted, send_all, fixed
  <2> QED BY <2>2, <2>3
<1> QED BY <1>9, <1>10 DEF Counts

\* ::recv hands out no more than there is and than is asked for.
LEMMA ReceiveTakes ==
  ASSUME Counts, NEW e \in Ends, InCall(e, "receive"),
         NEW k \in 1 .. Least(Len(stream[Other(e)]), left(e, "receive"))
  PROVE  /\ k \in Nat /\ k > 0 /\ k <= Len(stream[Other(e)])
         /\ total[e] + k <= length(e, "receive")
<1>1. Typed /\ Other(e) \in Ends
  BY OtherEnd DEF Counts
<1>2. length(e, "receive") \in Nat
  BY <1>1, Chosen DEF Calls
<1>3. Len(stream[Other(e)]) \in Int /\ left(e, "receive") \in Int
  BY <1>1, <1>2, Parts DEF left
<1>4. /\ k \in Nat /\ k > 0 /\ k <= Len(stream[Other(e)])
      /\ k <= left(e, "receive")
  BY <1>3, LeastBounds
<1> QED BY <1>1, <1>2, <1>4, Parts DEF left

\* A turn of receive_all counts at most what is left.
LEMMA receive_allCounts ==
  ASSUME Counts, NEW e \in Ends, receive_all(e) PROVE Counts'
<1> DEFINE o == Other(e)
<1>1. Typed /\ (\A f \in Ends : Counted(f)) /\ o \in Ends /\ o # e
  BY OtherEnd DEF Counts
<1>2. PICK k \in 1 .. Least(Len(stream[o]), left(e, "receive")) :
        /\ buf'    = [buf EXCEPT ![e] = @ \o SubSeq(stream[o], 1, k)]
        /\ stream' = [stream EXCEPT ![o] = SubSeq(@, k + 1, Len(@))]
        /\ total'  = [total EXCEPT ![e] = @ + k]
  BY DEF receive_all
<1>3. /\ k \in Nat /\ k > 0 /\ k <= Len(stream[o])
      /\ total[e] + k <= length(e, "receive")
  BY ReceiveTakes DEF receive_all
<1>4. stream[o] \in Seq(Nat) /\ Len(stream[o]) \in Nat
  BY <1>1, Parts
<1>5. /\ SubSeq(stream[o], k + 1, Len(stream[o])) \in Seq(Nat)
      /\ Len(SubSeq(stream[o], k + 1, Len(stream[o]))) = Len(stream[o]) - k
  BY <1>3, <1>4, Piece
<1>6. SubSeq(stream[o], 1, k) \in Seq(Nat)
  BY <1>3, <1>4, Piece
<1>7. buf[e] \o SubSeq(stream[o], 1, k) \in Seq(Nat)
  BY <1>1, <1>6, Parts, ConcatProperties
<1>8. /\ stream'[o] = SubSeq(stream[o], k + 1, Len(stream[o]))
      /\ total'[e] = total[e] + k
      /\ \A f \in Ends \ {o} : stream'[f] = stream[f]
      /\ \A f \in Ends \ {e} : total'[f] = total[f]
  BY <1>1, <1>2 DEF Typed
<1>9. Typed'
  <2>1. total[e] + k \in Nat
    BY <1>1, <1>3, Parts
  <2> QED BY <1>1, <1>2, <1>5, <1>7, <2>1 DEF Typed, receive_all, fixed
<1>10. taken[e] = 0 /\ taken' = taken /\ answers' = answers /\ script' = script
  <2>1. ~InCall(e, "send")
    BY DEF receive_all, InCall
  <2> QED BY <1>1, <2>1 DEF Counted, receive_all, fixed
<1>11. ASSUME NEW f \in Ends PROVE Counted(f)'
  <2>1. \A c : InCall(f, c)' = InCall(f, c) /\ length(f, c)' = length(f, c)
    BY CallsStay DEF receive_all, fixed
  <2>2. Len(stream'[f]) <= Cap
    <3>1. Len(stream[f]) <= Cap
      BY <1>1 DEF Counted
    <3>2. CASE f = o
      <4>1. Len(stream'[f]) = Len(stream[f]) - k
        BY <1>5, <1>8, <3>2
      <4> QED BY <1>1, <1>3, <1>4, <3>1, <3>2, <4>1, Parts
    <3>3. CASE f # o
      BY <1>8, <3>1, <3>3
    <3> QED BY <3>2, <3>3
  <2>3. \A c \in Calls : InCall(f, c) => total'[f] + taken[f] <= length(f, c)
    <3>1. CASE f = e
      <4>1. \A c : InCall(e, c) => c = "receive"
        BY DEF receive_all, InCall
      <4>2. total'[e] + taken[e] <= length(e, "receive")
        BY <1>1, <1>3, <1>8, <1>10, Parts
      <4> QED BY <3>1, <4>1, <4>2
    <3>2. CASE f # e
      BY <1>1, <1>8, <3>2 DEF Counted
    <3> QED BY <3>1, <3>2
  <2> QED BY <1>1, <1>10, <2>1, <2>2, <2>3 DEF Counted
<1> QED BY <1>9, <1>11 DEF Counts

\* A connection that is gone holds nothing.
LEMMA BreakCounts ==
  ASSUME Counts, Break PROVE Counts'
<1>1. Typed'
  BY EmptySeq DEF Counts, Typed, Break, fixed
<1>2. ASSUME NEW f \in Ends PROVE Counted(f)'
  <2>1. \A c : InCall(f, c)' = InCall(f, c) /\ length(f, c)' = length(f, c)
    BY CallsStay DEF Break, fixed
  <2>2. Len(stream'[f]) <= Cap
    BY SendAllAssumption, EmptySeq DEF Break, SendAllAssumption
  <2> QED BY <2>1, <2>2 DEF Counts, Counted, Break, fixed
<1> QED BY <1>1, <1>2 DEF Counts

\* Nothing but the last error changes, if anything.
LEMMA NativeCounts ==
  ASSUME Counts, UNCHANGED <<fixed, answers, total, taken, stream, buf, broken>>,
         native' \in [Ends -> {"none", "would_block", "connection_reset"}]
  PROVE  Counts'
<1>1. Typed'
  BY DEF Counts, Typed, fixed
<1>2. ASSUME NEW f \in Ends PROVE Counted(f)'
  <2>1. \A c : InCall(f, c)' = InCall(f, c) /\ length(f, c)' = length(f, c)
    BY CallsStay DEF fixed
  <2> QED BY <2>1 DEF Counts, Counted, fixed
<1> QED BY <1>1, <1>2 DEF Counts

\* Every step keeps the counts.
LEMMA CountsNext ==
  ASSUME Counts, [Next]_vars PROVE Counts'
<1>1. CASE \E e \in Ends : Proceed(e)
  <2>1. PICK e \in Ends : Proceed(e)
    BY <1>1
  <2>2. CASE Complete(e)
    BY <2>2, CompleteCounts
  <2>3. CASE send_all(e)
    BY <2>3, send_allCounts
  <2>4. CASE receive_all(e)
    BY <2>4, receive_allCounts
  <2>5. CASE ReceiveNothing(e)
    BY <2>5, ReceiveNothingCounts
  <2>6. CASE Fail(e)
    BY <2>6, FailCounts
  <2> QED BY <2>1, <2>2, <2>3, <2>4, <2>5, <2>6 DEF Proceed
<1>2. CASE \E e \in Ends : Retry(e)
  <2>1. PICK e \in Ends : Retry(e)
    BY <1>2
  <2>2. native' \in [Ends -> {"none", "would_block", "connection_reset"}]
    BY <2>1 DEF Retry, WouldBlock, Counts, Typed
  <2> QED BY <2>1, <2>2, NativeCounts DEF Retry
<1>3. CASE Break \/ Refused
  BY <1>3, BreakCounts DEF Refused
<1>4. CASE UNCHANGED vars
  <2>1. native' \in [Ends -> {"none", "would_block", "connection_reset"}]
    BY <1>4 DEF vars, Counts, Typed
  <2> QED BY <1>4, <2>1, NativeCounts DEF vars
<1> QED BY <1>1, <1>2, <1>3, <1>4 DEF Next

\* The loops never count more than the message has, and the connection never
\* holds more than it can (SendAll!TypeOK, strengthened).
THEOREM CountsStay == Spec => []Counts
<1>1. Init => Counts
  BY CountsInit
<1>2. Counts /\ [Next]_vars => Counts'
  BY CountsNext
<1> QED BY <1>1, <1>2, PTL DEF Spec

\* TypeOK: send_all and receive_all count within the message, whatever the
\* lengths, the calls, the modes and the way native calls split the bytes.
THEOREM LoopsCount == Spec => []TypeOK
<1>1. Counts => TypeOK
  <2> SUFFICES ASSUME Counts, NEW e \in Ends
               PROVE  /\ total[e] >= 0 /\ taken[e] >= 0
                      /\ \A op \in {"send", "receive"} :
                           InCall(e, op) => left(e, op) >= 0
                      /\ InCall(e, "send") => taken[e] <= left(e, "send")
                      /\ Len(stream[e]) <= Cap
                      /\ Len(answers[e]) <= Len(script[e])
                      /\ native[e] \in {"none", "would_block", "connection_reset"}
    BY DEF TypeOK
  <2>1. Typed /\ Counted(e)
    BY DEF Counts
  <2>2. total[e] \in Nat /\ taken[e] \in Nat
    BY <2>1, Parts
  <2>3. \A op \in Calls : length(e, op) \in Nat
    BY <2>1, Chosen
  <2>4. \A op \in Calls : InCall(e, op) => taken[e] <= left(e, op)
    BY <2>1, <2>2, <2>3 DEF Counted, left
  <2>5. \A op \in Calls : InCall(e, op) => left(e, op) >= 0
    BY <2>2, <2>3, <2>4 DEF left
  <2> QED BY <2>1, <2>2, <2>4, <2>5 DEF Counted, Calls, Typed
<1> QED BY <1>1, CountsStay, PTL

-----------------------------------------------------------------------------
(* Two ends that wait for each other.                                      *)

SendCrossed    == \A e \in Ends : script[e][1] = "send" /\ Len(message[e]) > Cap
ReceiveCrossed == \A e \in Ends : script[e][1] = "receive" /\ message[e] # << >>

\* Both send first: all that was sent is still under way.  Both receive first:
\* nothing ever was.
Waits ==
  ~broken =>
    /\ SendCrossed => \A e \in Ends :
         answers[e] = << >> /\ Len(stream[e]) = total[e] + taken[e]
    /\ ReceiveCrossed => \A e \in Ends :
         answers[e] = << >> /\ stream[e] = << >> /\ total[e] = 0

\* An end that has no answer yet is in its first call.
LEMMA FirstCall ==
  ASSUME Typed, NEW e \in Ends, answers[e] = << >>
  PROVE  /\ ~Stopped(e)
         /\ \A op : InCall(e, op) <=> script[e][1] = op
<1>1. Len(script[e]) > 0
  <2>1. Len(script[e]) \in {1, 2}
    BY Chosen
  <2> QED BY <2>1
<1>2. Len(answers[e]) = 0 /\ DOMAIN answers[e] = {}
  BY EmptySeq
<1> QED BY <1>1, <1>2 DEF Stopped, InCall

\* Initially nothing is answered and nothing is under way.
LEMMA WaitsInit ==
  ASSUME Init PROVE Waits
BY EmptySeq DEF Init, Waits

\* While both ends send first, no call of either can be answered.
LEMMA SendersWait ==
  ASSUME Counts, Waits, ~broken, SendCrossed, [Next]_vars, ~broken'
  PROVE  \A e \in Ends :
           answers'[e] = << >> /\ Len(stream'[e]) = total'[e] + taken'[e]
<1>1. Typed /\ \A e \in Ends : Counted(e)
  BY DEF Counts
<1>2. \A e \in Ends : answers[e] = << >> /\ Len(stream[e]) = total[e] + taken[e]
  BY DEF Waits
<1>3. \A e \in Ends : InCall(e, "send") /\ ~InCall(e, "receive") /\ ~Stopped(e)
  BY <1>1, <1>2, FirstCall DEF SendCrossed
<1>4. \A e \in Ends : ~Complete(e)
  <2> SUFFICES ASSUME NEW e \in Ends, Complete(e) PROVE FALSE
    OBVIOUS
  <2>1. AllDone(e, "send")
    BY <1>3 DEF Complete, AllDone
  <2>2. taken[e] = 0 /\ total[e] = Len(message[e])
    BY <2>1, CompleteCall DEF Calls, length
  <2>3. Len(stream[e]) <= Cap
    BY <1>1 DEF Counted
  <2> QED BY <1>1, <1>2, <2>2, <2>3, Parts, Chosen DEF SendCrossed
<1>5. ASSUME NEW e \in Ends, send_all(e)
      PROVE  \A f \in Ends :
               answers'[f] = << >> /\ Len(stream'[f]) = total'[f] + taken'[f]
  <2>1. PICK k \in 1 .. Least(Room(e), left(e, "send") - taken[e]) :
          LET sent == Sent(e, left(e, "send"), k)
          IN /\ stream' = [stream EXCEPT ![e] =
                            @ \o SubSeq(message[e], Place(e) + 1, Place(e) + k)]
             /\ total' = [total EXCEPT ![e] = @ + sent]
             /\ taken' = [taken EXCEPT ![e] = IF sent > 0 THEN 0 ELSE @ + k]
    BY <1>5 DEF send_all
  <2>2. /\ k \in Nat /\ k > 0
        /\ total[e] + taken[e] + k <= length(e, "send")
    BY <1>3, SendTakes
  <2> DEFINE sent == Sent(e, left(e, "send"), k)
             more == SubSeq(message[e], Place(e) + 1, Place(e) + k)
  <2>3. sent \in Nat /\ (sent = 0 \/ sent = taken[e] + k)
    BY <1>1, <2>2, Parts DEF Sent
  <2>4. more \in Seq(Nat) /\ Len(more) = k
    BY <1>1, <2>2, SendPiece
  <2>5. Len(stream[e] \o more) = Len(stream[e]) + k
    BY <1>1, <2>4, Parts, ConcatProperties
  <2> HIDE DEF sent, more
  <2>6. /\ stream'[e] = stream[e] \o more
        /\ total'[e] = total[e] + sent
        /\ taken'[e] = (IF sent > 0 THEN 0 ELSE taken[e] + k)
        /\ \A f \in Ends \ {e} : /\ stream'[f] = stream[f]
                                 /\ total'[f] = total[f] /\ taken'[f] = taken[f]
    BY <1>1, <2>1 DEF Typed, sent, more
  <2>7. Len(stream'[e]) = total'[e] + taken'[e]
    BY <1>1, <1>2, <2>2, <2>3, <2>5, <2>6, Parts
  <2> QED BY <1>2, <1>5, <2>6, <2>7 DEF send_all
<1>6. \A e \in Ends : ~receive_all(e) /\ ~ReceiveNothing(e) /\ ~Fail(e)
  BY <1>3 DEF receive_all, ReceiveNothing, Fail
<1>7. ~Break /\ ~Refused
  BY DEF Break, Refused
<1>8. CASE \E e \in Ends : Retry(e)
  BY <1>2, <1>8 DEF Retry
<1>9. CASE UNCHANGED vars
  BY <1>2, <1>9 DEF vars
<1> QED BY <1>4, <1>5, <1>6, <1>7, <1>8, <1>9 DEF Next, Proceed

\* While both ends receive first, nothing is ever sent.
LEMMA ReceiversWait ==
  ASSUME Counts, Waits, ~broken, ReceiveCrossed, [Next]_vars, ~broken'
  PROVE  \A e \in Ends :
           answers'[e] = << >> /\ stream'[e] = << >> /\ total'[e] = 0
<1>1. Typed
  BY DEF Counts
<1>2. \A e \in Ends : answers[e] = << >> /\ stream[e] = << >> /\ total[e] = 0
  BY DEF Waits
<1>3. \A e \in Ends : InCall(e, "receive") /\ ~InCall(e, "send") /\ ~Stopped(e)
  BY <1>1, <1>2, FirstCall DEF ReceiveCrossed
<1>4. ASSUME NEW e \in Ends PROVE Len(message[e]) > 0 /\ Len(stream[e]) = 0
  <2>1. message[e] \in Seq(Nat) /\ message[e] # << >>
    BY <1>1, Chosen DEF ReceiveCrossed
  <2> QED BY <1>2, <2>1, EmptySeq
<1>5. \A e \in Ends : ~Complete(e)
  <2> SUFFICES ASSUME NEW e \in Ends, Complete(e) PROVE FALSE
    OBVIOUS
  <2>1. AllDone(e, "receive")
    BY <1>3 DEF Complete, AllDone
  <2>2. total[e] = Len(message[Other(e)])
    BY <2>1, CompleteCall DEF Calls, length
  <2> QED BY <1>2, <1>4, <2>2, OtherEnd
<1>6. \A e \in Ends : ~receive_all(e)
  <2> SUFFICES ASSUME NEW e \in Ends, receive_all(e) PROVE FALSE
    OBVIOUS
  <2>1. PICK k \in 1 .. Least(Len(stream[Other(e)]), left(e, "receive")) : TRUE
    BY DEF receive_all
  <2>2. k > 0 /\ k <= Len(stream[Other(e)]) /\ k \in Nat
    BY <1>3, ReceiveTakes
  <2> QED BY <1>4, <2>2, OtherEnd
<1>7. \A e \in Ends : ~send_all(e) /\ ~ReceiveNothing(e) /\ ~Fail(e)
  BY <1>3, OtherEnd DEF send_all, ReceiveNothing, EndOf, Fail
<1>8. ~Break /\ ~Refused
  BY DEF Break, Refused
<1>9. CASE \E e \in Ends : Retry(e)
  BY <1>2, <1>9 DEF Retry
<1>10. CASE UNCHANGED vars
  BY <1>2, <1>10 DEF vars
<1> QED BY <1>5, <1>6, <1>7, <1>8, <1>9, <1>10 DEF Next, Proceed

\* Every step keeps both ends waiting.
LEMMA WaitsNext ==
  ASSUME Counts, Waits, [Next]_vars PROVE Waits'
<1>1. UNCHANGED fixed
  BY DEF Next, Proceed, Complete, send_all, receive_all, ReceiveNothing, Fail,
         Retry, Break, Refused, vars
<1>2. broken => broken'
  BY DEF Next, Proceed, Complete, send_all, receive_all, ReceiveNothing, Fail,
         Retry, Break, Refused, vars
<1>3. (SendCrossed' <=> SendCrossed) /\ (ReceiveCrossed' <=> ReceiveCrossed)
  BY <1>1 DEF SendCrossed, ReceiveCrossed, fixed
<1> QED BY <1>2, <1>3, SendersWait, ReceiversWait DEF Waits

\* NeitherReturns: two ends that both send_all first, each more than the
\* connection holds, or both receive_all first, never get an answer: for every
\* capacity, all messages and however the bytes are split.
THEOREM CrossedEndsWait == Spec => []NeitherReturns
<1>1. Init => Counts /\ Waits
  BY CountsInit, WaitsInit
<1>2. Counts /\ Waits /\ [Next]_vars => Counts' /\ Waits'
  BY CountsNext, WaitsNext
<1>3. Waits => NeitherReturns
  BY DEF Waits, NeitherReturns, Hopeless, SendCrossed, ReceiveCrossed
<1> QED BY <1>1, <1>2, <1>3, PTL DEF Spec

-----------------------------------------------------------------------------
(* What is stored and under way is the front of the message.               *)

there(e) == buf[Other(e)] \o stream[e]

Fronted(e) ==
  /\ there(e) = SubSeq(message[e], 1, Len(there(e)))
  /\ Len(there(e)) <= Len(message[e])
  /\ ~broken => Len(there(e)) = HandedOver(e)

\* receive_all counts what it stored; before it, nothing is stored.
Stored(e) ==
  /\ InCall(e, "receive") => Len(buf[e]) = total[e]
  /\ InCall(e, "send") /\ Len(answers[e]) = 0 => Len(buf[e]) = 0

Whole == Counts /\ (\A e \in Ends : Fronted(e) /\ Stored(e)) /\ TrueMeansAll

\* What is stored and under way, and how much it is.
LEMMA There ==
  ASSUME Typed, NEW e \in Ends
  PROVE  /\ there(e) \in Seq(Nat) /\ Len(there(e)) \in Nat
         /\ Len(there(e)) = Len(buf[Other(e)]) + Len(stream[e])
<1>1. buf[Other(e)] \in Seq(Nat) /\ stream[e] \in Seq(Nat)
  BY OtherEnd, Parts
<1> QED BY <1>1, ConcatProperties, LenProperties DEF there

\* The front of a front.
LEMMA FrontOfFront ==
  ASSUME NEW m \in Seq(Nat), NEW b \in Seq(Nat), NEW s \in Seq(Nat),
         b \o s = SubSeq(m, 1, Len(b \o s)), Len(b \o s) <= Len(m)
  PROVE  b = SubSeq(m, 1, Len(b)) /\ Len(b) <= Len(m)
<1>1. /\ b \o s \in Seq(Nat) /\ Len(b \o s) = Len(b) + Len(s)
      /\ \A i \in 1 .. Len(b) + Len(s) :
           (b \o s)[i] = IF i <= Len(b) THEN b[i] ELSE s[i - Len(b)]
      /\ Len(b) \in Nat /\ Len(s) \in Nat /\ Len(m) \in Nat
  BY ConcatProperties, LenProperties
<1>2. \A n \in Nat : n <= Len(m) =>
        /\ SubSeq(m, 1, n) \in Seq(Nat) /\ Len(SubSeq(m, 1, n)) = n
        /\ \A i \in 1 .. n : SubSeq(m, 1, n)[i] = m[i]
  <2> SUFFICES ASSUME NEW n \in Nat, n <= Len(m)
               PROVE  /\ SubSeq(m, 1, n) \in Seq(Nat) /\ Len(SubSeq(m, 1, n)) = n
                      /\ \A i \in 1 .. n : SubSeq(m, 1, n)[i] = m[i]
    OBVIOUS
  <2>1. \A i \in 1 .. n : m[i] \in Nat
    BY <1>1, ElementOfSeq
  <2>2. /\ SubSeq(m, 1, n) \in Seq(Nat)
        /\ Len(SubSeq(m, 1, n)) = IF 1 <= n THEN n - 1 + 1 ELSE 0
        /\ \A i \in 1 .. n - 1 + 1 : SubSeq(m, 1, n)[i] = m[1 + i - 1]
    BY <2>1, SubSeqProperties
  <2> QED BY <2>2
<1>3. Len(b) <= Len(m)
  BY <1>1
<1>4. \A i \in 1 .. Len(b) : b[i] = SubSeq(m, 1, Len(b))[i]
  <2> SUFFICES ASSUME NEW i \in 1 .. Len(b)
               PROVE  b[i] = SubSeq(m, 1, Len(b))[i]
    OBVIOUS
  <2>1. (b \o s)[i] = b[i] /\ i \in 1 .. Len(b \o s)
    BY <1>1
  <2>2. SubSeq(m, 1, Len(b \o s))[i] = m[i]
    BY <1>1, <1>2, <2>1
  <2>3. SubSeq(m, 1, Len(b))[i] = m[i]
    BY <1>1, <1>2, <1>3
  <2> QED BY <2>1, <2>2, <2>3
<1>5. SubSeq(m, 1, Len(b)) \in Seq(Nat) /\ Len(SubSeq(m, 1, Len(b))) = Len(b)
  BY <1>1, <1>2, <1>3
<1> QED BY <1>3, <1>4, <1>5, SeqEqual

\* The answers of an end after one more.
LEMMA AnswersAfter ==
  ASSUME Typed, NEW e \in Ends, NEW true \in BOOLEAN,
         answers' = [answers EXCEPT ![e] = Append(@, true)]
  PROVE  /\ DOMAIN answers'[e] = DOMAIN answers[e] \cup {Len(answers[e]) + 1}
         /\ answers'[e][Len(answers[e]) + 1] = true
         /\ \A i \in DOMAIN answers[e] : answers'[e][i] = answers[e][i]
         /\ \A f \in Ends \ {e} : answers'[f] = answers[f]
<1>1. answers[e] \in Seq(BOOLEAN)
  BY DEF Typed
<1>2. /\ answers'[e] = Append(answers[e], true)
      /\ \A f \in Ends \ {e} : answers'[f] = answers[f]
  BY DEF Typed
<1>3. /\ Append(answers[e], true) \in Seq(BOOLEAN)
      /\ Len(Append(answers[e], true)) = Len(answers[e]) + 1
      /\ \A i \in 1 .. Len(answers[e]) : Append(answers[e], true)[i] = answers[e][i]
      /\ Append(answers[e], true)[Len(answers[e]) + 1] = true
  BY <1>1, Appended, AppendKeeps, Zenon
<1>4. /\ DOMAIN answers[e] = 1 .. Len(answers[e]) /\ Len(answers[e]) \in Nat
      /\ DOMAIN answers'[e] = 1 .. Len(answers'[e])
  BY <1>1, <1>2, <1>3, LenProperties, Zenon
<1>5. \A n \in Nat : 1 .. n + 1 = (1 .. n) \cup {n + 1}
  OBVIOUS
<1> QED BY <1>2, <1>3, <1>4, <1>5, Zenon

\* About nothing.
LEMMA Zero == 1 .. 0 = {} /\ 0 + 0 = 0
OBVIOUS

\* An answer does not change how much of its message an end has handed over.
LEMMA HandedAfter ==
  ASSUME Counts, NEW e \in Ends, NEW op, InCall(e, op), NEW true \in BOOLEAN,
         Answer(e, true), UNCHANGED <<message, script>>, taken'[e] = 0,
         op = "send" => true /\ taken[e] = 0 /\ total[e] = Len(message[e])
  PROVE  HandedOver(e)' = HandedOver(e)
<1> DEFINE n == Len(answers[e])
           Had == \E i \in DOMAIN answers[e] : script[e][i] = "send" /\ answers[e][i]
<1>1. Typed /\ n <= Len(script[e])
  BY DEF Counts, Counted
<1>2. n \in {0, 1} /\ script[e][n + 1] = op /\ op \in Calls
  BY <1>1, Running
<1>3. \A o : InCall(e, o)' => true /\ n = 0 /\ script[e] = <<op, o>>
  BY <1>1, Answered DEF Answer
<1>4. /\ DOMAIN answers'[e] = DOMAIN answers[e] \cup {n + 1}
      /\ answers'[e][n + 1] = true
      /\ \A i \in DOMAIN answers[e] : answers'[e][i] = answers[e][i]
  BY <1>1, AnswersAfter DEF Answer
<1>5. total'[e] = 0
  BY <1>1 DEF Answer, Typed
<1>6. /\ HandedOver(e) = IF InCall(e, "send") THEN total[e] + taken[e]
                         ELSE IF Had THEN Len(message[e]) ELSE 0
      /\ HandedOver(e)' = IF InCall(e, "send")' THEN total'[e] + taken'[e]
                          ELSE IF Had' THEN Len(message[e]) ELSE 0
  BY DEF HandedOver
<1>7. CASE op = "send"
  <2>1. ~InCall(e, "send")'
    <3>1. script[e] # <<"send", "send">>
      BY <1>1, TwoCalls
    <3> QED BY <1>3, <1>7, <3>1
  <2>2. Had'
    BY <1>2, <1>4, <1>7
  <2>3. total[e] + taken[e] = Len(message[e])
    BY <1>1, <1>7, Chosen
  <2> QED BY <1>6, <1>7, <2>1, <2>2, <2>3
<1>8. CASE op = "receive"
  <2>1. ~InCall(e, "send")
    BY <1>8 DEF InCall
  <2>2. CASE InCall(e, "send")'
    <3>1. DOMAIN answers[e] = {}
      <4>1. DOMAIN answers[e] = 1 .. n
        BY <1>1, LenProperties DEF Typed
      <4>2. n = 0
        BY <1>3, <2>2
      <4> QED BY <4>1, <4>2, Zero, Zenon
    <3>2. ~Had
      BY <3>1
    <3> HIDE DEF Had
    <3>3. HandedOver(e) = 0
      BY <1>6, <2>1, <3>2
    <3>4. total'[e] + taken'[e] = 0
      BY <1>5, Zero, Zenon
    <3>5. HandedOver(e)' = 0
      BY <1>6, <2>2, <3>4, Zenon
    <3> QED BY <3>3, <3>5, Zenon
  <2>3. CASE ~InCall(e, "send")'
    <3>1. Had' <=> Had
      BY <1>2, <1>4, <1>8
    <3> QED BY <1>6, <2>1, <2>3, <3>1
  <2> QED BY <2>2, <2>3
<1> QED BY <1>2, <1>7, <1>8 DEF Calls

\* Nor what receive_all stored.
LEMMA StoredAfter ==
  ASSUME Counts, NEW e \in Ends, NEW op, InCall(e, op), NEW true \in BOOLEAN,
         Answer(e, true), UNCHANGED <<message, script, buf>>,
         \A f \in Ends : Stored(f)
  PROVE  \A f \in Ends : Stored(f)'
<1>1. Typed /\ Len(answers[e]) <= Len(script[e])
  BY DEF Counts, Counted
<1>2. /\ \A o : InCall(e, o)' => Len(answers[e]) = 0 /\ script[e] = <<op, o>>
      /\ Len(answers'[e]) = Len(answers[e]) + 1
      /\ \A f \in Ends \ {e} : \A o : InCall(f, o)' <=> InCall(f, o)
  BY <1>1, Answered DEF Answer
<1>3. total'[e] = 0 /\ \A f \in Ends \ {e} : total'[f] = total[f] /\ answers'[f] = answers[f]
  BY <1>1 DEF Answer, Typed
<1>4. InCall(e, "receive")' => Len(buf[e]) = 0
  <2> SUFFICES ASSUME InCall(e, "receive")' PROVE Len(buf[e]) = 0
    OBVIOUS
  <2>1. op = "send"
    <3>1. script[e] = <<op, "receive">>
      BY <1>2
    <3>2. op # "receive"
      BY <1>1, <3>1, TwoCalls
    <3> QED BY <1>1, <3>2, Running DEF Calls
  <2> QED BY <1>2, <2>1 DEF Stored
<1>5. Len(answers'[e]) # 0
  <2>1. Len(answers[e]) \in Nat
    BY <1>1, LenProperties DEF Typed
  <2> QED BY <1>2, <2>1
<1>6. ASSUME NEW f \in Ends PROVE Stored(f)'
  <2>1. CASE f = e
    BY <1>3, <1>4, <1>5, <2>1 DEF Stored
  <2>2. CASE f # e
    BY <1>2, <1>3, <2>2 DEF Stored
  <2> QED BY <2>1, <2>2
<1> QED BY <1>6

\* An answer that is as TrueMeansAll says keeps it.
LEMMA TrueAfter ==
  ASSUME Counts, TrueMeansAll, NEW e \in Ends, NEW op, InCall(e, op),
         NEW true \in BOOLEAN, Answer(e, true),
         UNCHANGED <<message, script, buf, broken>>,
         true /\ op = "receive" => buf[e] = message[Other(e)],
         ~true => broken \/ Stopped(Other(e))
  PROVE  TrueMeansAll'
<1>1. Typed /\ Len(answers[e]) <= Len(script[e])
  BY DEF Counts, Counted
<1>2. script[e][Len(answers[e]) + 1] = op /\ ~Stopped(e)
  BY DEF InCall
<1>3. /\ DOMAIN answers'[e] = DOMAIN answers[e] \cup {Len(answers[e]) + 1}
      /\ answers'[e][Len(answers[e]) + 1] = true
      /\ \A i \in DOMAIN answers[e] : answers'[e][i] = answers[e][i]
      /\ \A f \in Ends \ {e} : answers'[f] = answers[f]
  BY <1>1, AnswersAfter DEF Answer
<1>4. \A f \in Ends : Stopped(f) => Stopped(f)'
  BY <1>2, <1>3 DEF Stopped
<1>5. ASSUME NEW f \in Ends, NEW i \in DOMAIN answers'[f]
      PROVE  IF answers'[f][i]
               THEN script[f][i] = "receive" => buf[f] = message[Other(f)]
               ELSE broken \/ Stopped(Other(f))'
  <2>1. CASE f = e /\ i = Len(answers[e]) + 1
    BY <1>2, <1>3, <1>4, <2>1, OtherEnd
  <2>2. CASE f # e \/ i # Len(answers[e]) + 1
    <3>1. i \in DOMAIN answers[f] /\ answers'[f][i] = answers[f][i]
      BY <1>3, <2>2
    <3> QED BY <1>4, <3>1, OtherEnd DEF TrueMeansAll
  <2> QED BY <2>1, <2>2
<1> QED BY <1>5 DEF TrueMeansAll, Other

\* A call that is answered leaves all bytes where they are.
LEMMA AnswerWhole ==
  ASSUME Whole, NEW e \in Ends, NEW op, InCall(e, op), NEW true \in BOOLEAN,
         Answer(e, true), UNCHANGED <<fixed, stream, buf, broken>>,
         taken'[e] = 0, \A f \in Ends \ {e} : taken'[f] = taken[f],
         broken \/ (op = "send" => true /\ taken[e] = 0 /\ total[e] = Len(message[e])),
         true /\ op = "receive" => buf[e] = message[Other(e)],
         ~true => broken \/ Stopped(Other(e))
  PROVE  (\A f \in Ends : Fronted(f)' /\ Stored(f)') /\ TrueMeansAll'
<1>1. Counts /\ Typed /\ Len(answers[e]) <= Len(script[e])
  BY DEF Whole, Counts, Counted
<1>2. \A f \in Ends : there(f)' = there(f)
  BY DEF there, Other
<1>3. ASSUME NEW f \in Ends, ~broken PROVE HandedOver(f)' = HandedOver(f)
  <2>1. CASE f = e
    BY <1>1, <1>3, <2>1, HandedAfter DEF fixed
  <2>2. CASE f # e
    <3>1. \A o : InCall(f, o)' <=> InCall(f, o)
      BY <1>1, <2>2, Answered DEF fixed, Answer
    <3>2. answers'[f] = answers[f] /\ total'[f] = total[f]
      BY <1>1, <2>2 DEF Answer, Typed
    <3> QED BY <2>2, <3>1, <3>2 DEF HandedOver, fixed
  <2> QED BY <2>1, <2>2
<1>4. \A f \in Ends : Fronted(f)'
  BY <1>2, <1>3 DEF Whole, Fronted, fixed
<1>5. \A f \in Ends : Stored(f)'
  BY StoredAfter DEF Whole, fixed
<1>6. TrueMeansAll'
  BY TrueAfter DEF Whole, fixed
<1> QED BY <1>4, <1>5, <1>6

\* What receive_all stored is the front of the message, too.
LEMMA StoredFront ==
  ASSUME Whole, NEW e \in Ends
  PROVE  /\ buf[e] = SubSeq(message[Other(e)], 1, Len(buf[e]))
         /\ Len(buf[e]) <= Len(message[Other(e)])
<1>1. Other(e) \in Ends /\ Other(Other(e)) = e /\ Typed
  BY OtherEnd DEF Whole, Counts
<1>2. /\ buf[e] \in Seq(Nat) /\ stream[Other(e)] \in Seq(Nat)
      /\ message[Other(e)] \in Seq(Nat)
  BY <1>1, Parts, Chosen
<1>3. /\ buf[e] \o stream[Other(e)]
           = SubSeq(message[Other(e)], 1, Len(buf[e] \o stream[Other(e)]))
      /\ Len(buf[e] \o stream[Other(e)]) <= Len(message[Other(e)])
  BY <1>1 DEF Whole, Fronted, there
<1> QED BY <1>2, <1>3, FrontOfFront

\* A call that is complete keeps messages whole: what was received is all.
LEMMA CompleteWhole ==
  ASSUME Whole, NEW e \in Ends, Complete(e)
  PROVE  (\A f \in Ends : Fronted(f)' /\ Stored(f)') /\ TrueMeansAll'
<1>1. PICK op \in Calls : AllDone(e, op)
  BY DEF Complete, Calls
<1>2. InCall(e, op) /\ taken[e] = 0 /\ total[e] = length(e, op)
  BY <1>1, CompleteCall DEF Whole
<1>3. op = "send" => total[e] = Len(message[e])
  BY <1>2 DEF length
<1>4. ASSUME op = "receive" PROVE buf[e] = message[Other(e)]
  <2>1. Len(buf[e]) = Len(message[Other(e)])
    BY <1>2, <1>4 DEF Whole, Stored, length
  <2>2. message[Other(e)] \in Seq(Nat)
    BY OtherEnd, Chosen DEF Whole, Counts
  <2>3. SubSeq(message[Other(e)], 1, Len(message[Other(e)])) = message[Other(e)]
    BY <2>2, SubSeqFull
  <2> QED BY <2>1, <2>3, StoredFront
<1>5. /\ Answer(e, TRUE) /\ UNCHANGED <<fixed, stream, buf, broken>>
      /\ taken'[e] = 0 /\ \A f \in Ends \ {e} : taken'[f] = taken[f]
  BY <1>2 DEF Complete
<1>6. op = "send" => TRUE /\ taken[e] = 0 /\ total[e] = Len(message[e])
  BY <1>2, <1>3
<1>7. TRUE \in BOOLEAN /\ (TRUE /\ op = "receive" => buf[e] = message[Other(e)])
  BY <1>4
<1> QED BY <1>2, <1>5, <1>6, <1>7, AnswerWhole, Zenon

\* The end of the stream keeps them whole: the other end has stopped.
LEMMA ReceiveNothingWhole ==
  ASSUME Whole, NEW e \in Ends, ReceiveNothing(e)
  PROVE  (\A f \in Ends : Fronted(f)' /\ Stored(f)') /\ TrueMeansAll'
<1>1. InCall(e, "receive") /\ ~InCall(e, "send") /\ Stopped(Other(e))
  BY DEF ReceiveNothing, InCall, EndOf
<1>2. taken[e] = 0
  BY <1>1 DEF Whole, Counts, Counted
<1> QED BY <1>1, <1>2, AnswerWhole DEF ReceiveNothing

\* So does a call that fails: the connection is gone.
LEMMA FailWhole ==
  ASSUME Whole, NEW e \in Ends, Fail(e)
  PROVE  (\A f \in Ends : Fronted(f)' /\ Stored(f)') /\ TrueMeansAll'
<1>1. PICK op \in Calls : InCall(e, op)
  BY DEF Fail, Calls
<1>2. taken'[e] = 0 /\ \A f \in Ends \ {e} : taken'[f] = taken[f]
  BY DEF Fail, Whole, Counts, Typed
<1> QED BY <1>1, <1>2, AnswerWhole DEF Fail

\* Of what a break leaves, all is stored.
LEMMA BreakWhole ==
  ASSUME Whole, Break
  PROVE  (\A f \in Ends : Fronted(f)' /\ Stored(f)') /\ TrueMeansAll'
<1>1. \A f \in Ends : \A o : InCall(f, o)' = InCall(f, o)
  BY CallsStay DEF Break, fixed
<1>2. \A f \in Ends : Stored(f)'
  BY <1>1 DEF Whole, Stored, Break
<1>3. ASSUME NEW f \in Ends PROVE Fronted(f)'
  <2>1. Other(f) \in Ends /\ Other(Other(f)) = f /\ buf[Other(f)] \in Seq(Nat)
    BY OtherEnd, Parts DEF Whole, Counts
  <2>2. there(f)' = buf[Other(f)] \o << >>
    BY DEF there, Break, Other
  <2>3. there(f)' = buf[Other(f)]
    BY <2>1, <2>2, ConcatEmptySeq
  <2> QED BY <2>1, <2>3, StoredFront DEF Fronted, Break, fixed
<1>4. TrueMeansAll'
  BY DEF Whole, TrueMeansAll, Break, fixed, Stopped, Other
<1> QED BY <1>2, <1>3, <1>4

\* Three sequences after each other.
LEMMA Grouped ==
  ASSUME NEW s \in Seq(Nat), NEW t \in Seq(Nat), NEW u \in Seq(Nat)
  PROVE  (s \o t) \o u = s \o (t \o u)
BY ConcatAssociative

\* What ::send takes continues what was there.
LEMMA send_allWhole ==
  ASSUME Whole, NEW e \in Ends, send_all(e)
  PROVE  (\A f \in Ends : Fronted(f)' /\ Stored(f)') /\ TrueMeansAll'
<1> DEFINE o == Other(e)
<1>1. Counts /\ Typed /\ o \in Ends /\ o # e /\ Other(o) = e
  BY OtherEnd DEF Whole, Counts
<1>2. InCall(e, "send") /\ ~InCall(e, "receive") /\ ~broken
  BY DEF send_all, InCall
<1>3. PICK k \in 1 .. Least(Room(e), left(e, "send") - taken[e]) :
        LET sent == Sent(e, left(e, "send"), k)
        IN /\ stream' = [stream EXCEPT ![e] =
                          @ \o SubSeq(message[e], Place(e) + 1, Place(e) + k)]
           /\ total' = [total EXCEPT ![e] = @ + sent]
           /\ taken' = [taken EXCEPT ![e] = IF sent > 0 THEN 0 ELSE @ + k]
  BY DEF send_all
<1>4. k \in Nat /\ k > 0 /\ total[e] + taken[e] + k <= length(e, "send")
  BY <1>1, <1>2, SendTakes
<1> DEFINE sent == Sent(e, left(e, "send"), k)
           more == SubSeq(message[e], Place(e) + 1, Place(e) + k)
<1>5. sent \in Nat /\ (sent = 0 \/ sent = taken[e] + k)
  BY <1>1, <1>4, Parts DEF Sent
<1>6. more \in Seq(Nat) /\ Len(more) = k
  BY <1>1, <1>4, SendPiece
<1>7. SubSeq(message[e], 1, Place(e)) \o more = SubSeq(message[e], 1, Place(e) + k)
  BY <1>1, <1>4, SendPiece
<1> HIDE DEF sent, more
<1>8. /\ stream'[e] = stream[e] \o more
      /\ total'[e] = total[e] + sent
      /\ taken'[e] = (IF sent > 0 THEN 0 ELSE taken[e] + k)
      /\ \A f \in Ends \ {e} : /\ stream'[f] = stream[f]
                               /\ total'[f] = total[f] /\ taken'[f] = taken[f]
  BY <1>1, <1>3 DEF Typed, sent, more
<1>9. /\ UNCHANGED <<message, script, answers, buf, broken>>
      /\ \A f \in Ends : \A c : InCall(f, c)' = InCall(f, c)
  BY CallsStay DEF send_all, fixed
<1>10. there(e) = SubSeq(message[e], 1, Place(e)) /\ Len(there(e)) = Place(e)
  BY <1>2 DEF Whole, Fronted, HandedOver, Place
<1>11. Place(e) \in Nat /\ Place(e) + k <= Len(message[e])
  BY <1>1, <1>4, Parts DEF Place, length
<1>12. there(e)' = there(e) \o more
  <2>1. there(e)' = buf[o] \o (stream[e] \o more)
    BY <1>8, <1>9 DEF there, Other
  <2>2. buf[o] \in Seq(Nat) /\ stream[e] \in Seq(Nat)
    BY <1>1, Parts
  <2>3. (buf[o] \o stream[e]) \o more = buf[o] \o (stream[e] \o more)
    BY <1>6, <2>2, Grouped, Zenon
  <2>4. there(e) = buf[o] \o stream[e]
    BY DEF there
  <2> QED BY <2>1, <2>3, <2>4
<1>13. there(e)' = SubSeq(message[e], 1, Place(e) + k) /\ Len(there(e)') = Place(e) + k
  <2>1. there(e) \in Seq(Nat)
    BY <1>1, There
  <2>2. Len(there(e) \o more) = Len(there(e)) + Len(more)
    BY <1>6, <2>1, ConcatProperties
  <2> QED BY <1>6, <1>7, <1>10, <1>12, <2>2
<1>14. HandedOver(e)' = Place(e) + k
  <2>1. HandedOver(e)' = total'[e] + taken'[e]
    BY <1>2, <1>9 DEF HandedOver
  <2>2. total'[e] + taken'[e] = Place(e) + k
    BY <1>1, <1>4, <1>5, <1>8, Parts DEF Place
  <2> QED BY <2>1, <2>2
<1>15. ASSUME NEW f \in Ends PROVE Fronted(f)'
  <2>1. CASE f = e
    <3>1. /\ there(e)' = SubSeq(message[e], 1, Len(there(e)'))
          /\ Len(there(e)') <= Len(message[e])
          /\ Len(there(e)') = HandedOver(e)'
      BY <1>11, <1>13, <1>14
    <3> QED BY <1>9, <2>1, <3>1 DEF Fronted
  <2>2. CASE f # e
    <3>1. there(f)' = there(f)
      BY <1>8, <1>9, <2>2 DEF there, Other
    <3>2. HandedOver(f)' = HandedOver(f)
      BY <1>8, <1>9, <2>2 DEF HandedOver
    <3> QED BY <1>9, <3>1, <3>2 DEF Whole, Fronted
  <2> QED BY <2>1, <2>2
<1>16. ASSUME NEW f \in Ends PROVE Stored(f)'
  <2>1. CASE f = e
    BY <1>2, <1>9, <2>1 DEF Whole, Stored
  <2>2. CASE f # e
    BY <1>8, <1>9, <2>2 DEF Whole, Stored
  <2> QED BY <2>1, <2>2
<1>17. TrueMeansAll'
  BY <1>9 DEF Whole, TrueMeansAll, Stopped, Other
<1> QED BY <1>15, <1>16, <1>17

\* ::recv moves bytes from the stream behind what is stored.
LEMMA receive_allWhole ==
  ASSUME Whole, NEW e \in Ends, receive_all(e)
  PROVE  (\A f \in Ends : Fronted(f)' /\ Stored(f)') /\ TrueMeansAll'
<1> DEFINE o == Other(e)
<1>1. Counts /\ Typed /\ o \in Ends /\ o # e /\ Other(o) = e
      /\ \A f \in Ends : f = e \/ f = o
  BY OtherEnd DEF Whole, Counts
<1>2. InCall(e, "receive") /\ ~InCall(e, "send") /\ ~broken
  BY DEF receive_all, InCall
<1>3. PICK k \in 1 .. Least(Len(stream[o]), left(e, "receive")) :
        /\ buf'    = [buf EXCEPT ![e] = @ \o SubSeq(stream[o], 1, k)]
        /\ stream' = [stream EXCEPT ![o] = SubSeq(@, k + 1, Len(@))]
        /\ total'  = [total EXCEPT ![e] = @ + k]
  BY DEF receive_all
<1>4. k \in Nat /\ k > 0 /\ k <= Len(stream[o])
  BY <1>1, <1>2, ReceiveTakes
<1> DEFINE taken1 == SubSeq(stream[o], 1, k)
           kept   == SubSeq(stream[o], k + 1, Len(stream[o]))
<1>5. stream[o] \in Seq(Nat) /\ Len(stream[o]) \in Nat /\ buf[e] \in Seq(Nat)
  BY <1>1, Parts
<1>6. taken1 \in Seq(Nat) /\ Len(taken1) = k
  <2>1. SubSeq(stream[o], 0 + 1, k) \in Seq(Nat) /\ Len(SubSeq(stream[o], 0 + 1, k)) = k - 0
    BY <1>4, <1>5, Piece
  <2> QED BY <1>4, <2>1
<1>7. kept \in Seq(Nat) /\ taken1 \o kept = stream[o]
  <2>1. kept \in Seq(Nat) /\ taken1 \o kept = SubSeq(stream[o], 1, Len(stream[o]))
    BY <1>4, <1>5, Piece
  <2>2. SubSeq(stream[o], 1, Len(stream[o])) = stream[o]
    BY <1>5, SubSeqFull
  <2> QED BY <2>1, <2>2
<1> HIDE DEF taken1, kept
<1>8. /\ buf'[e] = buf[e] \o taken1 /\ stream'[o] = kept
      /\ total'[e] = total[e] + k
      /\ buf'[o] = buf[o] /\ stream'[e] = stream[e] /\ total'[o] = total[o]
  BY <1>1, <1>3 DEF Typed, taken1, kept
<1>9. /\ UNCHANGED <<message, script, answers, taken, broken>>
      /\ \A f \in Ends : \A c : InCall(f, c)' = InCall(f, c)
  BY CallsStay DEF receive_all, fixed
<1>10. there(o)' = there(o)
  <2>1. (buf[e] \o taken1) \o kept = buf[e] \o (taken1 \o kept)
    BY <1>5, <1>6, <1>7, Grouped, Zenon
  <2>2. there(o)' = (buf[e] \o taken1) \o kept /\ there(o) = buf[e] \o stream[o]
    BY <1>1, <1>8 DEF there, Other
  <2> QED BY <1>7, <2>1, <2>2
<1>11. there(e)' = there(e)
  BY <1>8 DEF there, Other
<1>12. HandedOver(e)' = HandedOver(e) /\ HandedOver(o)' = HandedOver(o)
  BY <1>1, <1>2, <1>8, <1>9 DEF HandedOver
<1>13. \A f \in Ends : Fronted(f)'
  BY <1>1, <1>9, <1>10, <1>11, <1>12 DEF Whole, Fronted
<1>14. Len(buf'[e]) = total'[e]
  <2>1. Len(buf[e] \o taken1) = Len(buf[e]) + Len(taken1)
    BY <1>5, <1>6, ConcatProperties
  <2>2. Len(buf[e]) = total[e]
    BY <1>2 DEF Whole, Stored
  <2> QED BY <1>6, <1>8, <2>1, <2>2
<1>15. \A f \in Ends : Stored(f)'
  BY <1>1, <1>2, <1>8, <1>9, <1>14 DEF Whole, Stored
<1>16. \A i \in DOMAIN answers[e] : script[e][i] # "receive"
  <2> SUFFICES ASSUME NEW i \in DOMAIN answers[e], script[e][i] = "receive"
               PROVE  FALSE
    OBVIOUS
  <2>1. Len(answers[e]) \in {0, 1} /\ Len(answers[e]) < Len(script[e])
        /\ script[e][Len(answers[e]) + 1] = "receive"
    BY <1>1, <1>2, Running DEF Counts, Counted
  <2>2. DOMAIN answers[e] = 1 .. Len(answers[e])
    BY <1>1, LenProperties DEF Typed
  <2>3. i = 1 /\ Len(answers[e]) = 1
    <3>1. \A n \in {0, 1} : \A j \in 1 .. n : j = 1 /\ n = 1
      OBVIOUS
    <3> QED BY <2>1, <2>2, <3>1
  <2>4. Len(script[e]) \in {1, 2} /\ (Len(script[e]) = 2 => script[e][1] # script[e][2])
    BY <1>1, Chosen
  <2> QED BY <2>1, <2>3, <2>4
<1>17. ASSUME NEW f \in Ends, NEW i \in DOMAIN answers[f]
       PROVE  IF answers[f][i]
                THEN script[f][i] = "receive" => buf'[f] = message[Other(f)]
                ELSE broken \/ Stopped(Other(f))
  <2>1. CASE f = e
    BY <1>16, <2>1 DEF Whole, TrueMeansAll
  <2>2. CASE f = o
    BY <1>1, <1>8, <2>2 DEF Whole, TrueMeansAll
  <2> QED BY <1>1, <2>1, <2>2
<1>18. TrueMeansAll'
  BY <1>9, <1>17 DEF TrueMeansAll, Stopped, Other
<1> QED BY <1>13, <1>15, <1>18

\* Initially nothing is stored.
LEMMA WholeInit ==
  ASSUME Init PROVE Whole
<1>1. Counts
  BY CountsInit
<1>2. ASSUME NEW e \in Ends PROVE Fronted(e) /\ Stored(e)
  <2>1. /\ buf[e] = << >> /\ stream[e] = << >> /\ answers[e] = << >>
        /\ total[e] = 0 /\ taken[e] = 0 /\ buf[Other(e)] = << >>
    BY OtherEnd DEF Init
  <2>2. message[e] \in Seq(Nat) /\ Len(message[e]) \in Nat
    BY <1>1, Chosen DEF Counts
  <2>3. there(e) = << >> /\ Len(there(e)) = 0
    BY <2>1, EmptySeq DEF there
  <2>4. SubSeq(message[e], 1, 0) = << >>
    BY SubSeqEmpty
  <2>5. HandedOver(e) = 0
    <3>1. DOMAIN answers[e] = {}
      BY <2>1
    <3> QED BY <2>1, <3>1 DEF HandedOver
  <2> QED BY <2>1, <2>2, <2>3, <2>4, <2>5 DEF Fronted, Stored
<1>3. TrueMeansAll
  BY DEF Init, TrueMeansAll
<1> QED BY <1>1, <1>2, <1>3 DEF Whole

\* Every step keeps messages whole.
LEMMA WholeNext ==
  ASSUME Whole, [Next]_vars PROVE Whole'
<1> SUFFICES (\A f \in Ends : Fronted(f)' /\ Stored(f)') /\ TrueMeansAll'
  BY CountsNext DEF Whole
<1>1. CASE \E e \in Ends : Proceed(e)
  <2>1. PICK e \in Ends : Proceed(e)
    BY <1>1
  <2>2. CASE Complete(e)
    BY <2>2, CompleteWhole
  <2>3. CASE send_all(e)
    BY <2>3, send_allWhole
  <2>4. CASE receive_all(e)
    BY <2>4, receive_allWhole
  <2>5. CASE ReceiveNothing(e)
    BY <2>5, ReceiveNothingWhole
  <2>6. CASE Fail(e)
    BY <2>6, FailWhole
  <2> QED BY <2>1, <2>2, <2>3, <2>4, <2>5, <2>6 DEF Proceed
<1>2. CASE Break \/ Refused
  BY <1>2, BreakWhole DEF Refused
<1>3. CASE (\E e \in Ends : Retry(e)) \/ UNCHANGED vars
  <2>1. UNCHANGED <<message, script, answers, total, taken, stream, buf, broken>>
    BY <1>3 DEF Retry, fixed, vars
  <2>2. \A f \in Ends : \A c : InCall(f, c)' = InCall(f, c)
    BY <2>1, CallsStay
  <2>3. \A f \in Ends : there(f)' = there(f) /\ HandedOver(f)' = HandedOver(f)
    BY <2>1, <2>2 DEF there, HandedOver, Other
  <2> QED BY <2>1, <2>2, <2>3 DEF Whole, Fronted, Stored, TrueMeansAll, Stopped, Other
<1> QED BY <1>1, <1>2, <1>3 DEF Next

\* StreamWhole: the bytes of a message are received in order, each once, however
\* the native calls split them, whatever the messages and the capacity.
THEOREM MessagesWhole == Spec => []StreamWhole
<1>1. Whole => StreamWhole
  BY DEF Whole, Fronted, StreamWhole, there
<1> QED BY <1>1, WholeInit, WholeNext, PTL DEF Spec

\* TrueMeansAll: true of receive_all is the whole message, and false is answered
\* only when the connection is gone or the other end has stopped.
THEOREM AnswersTrue == Spec => []TrueMeansAll
<1>1. Whole => TrueMeansAll
  BY DEF Whole
<1> QED BY <1>1, WholeInit, WholeNext, PTL DEF Spec

-----------------------------------------------------------------------------
(* Two ends that do not wait for each other come to an end.                *)

\* A blocking ::send that has not returned has not taken everything.
Short(e) == taken[e] > 0 => taken[e] < left(e, "send")

\* Initially it has taken nothing.
LEMMA ShortInit ==
  ASSUME Init PROVE \A e \in Ends : Short(e)
BY DEF Init, Short

\* While an end is not in send_all it has taken nothing.
LEMMA OtherCallsShort ==
  ASSUME Counts', NEW e \in Ends, ~InCall(e, "send")' PROVE Short(e)'
BY DEF Counts, Counted, Short

\* A turn of send_all returns when everything is taken.
LEMMA send_allShort ==
  ASSUME Counts, \A f \in Ends : Short(f), NEW e \in Ends, send_all(e)
  PROVE  \A f \in Ends : Short(f)'
<1>1. Typed /\ InCall(e, "send")
  BY DEF Counts, send_all
<1>2. PICK k \in 1 .. Least(Room(e), left(e, "send") - taken[e]) :
        LET sent == Sent(e, left(e, "send"), k)
        IN /\ total' = [total EXCEPT ![e] = @ + sent]
           /\ taken' = [taken EXCEPT ![e] = IF sent > 0 THEN 0 ELSE @ + k]
  BY DEF send_all
<1>3. k \in Nat /\ k > 0
  BY <1>1, SendTakes
<1>4. taken[e] \in Nat /\ total[e] \in Nat
  BY <1>1, Parts
<1>5. \A f \in Ends : length(f, "send")' = length(f, "send")
  BY CallsStay DEF send_all, fixed
<1>6. Short(e)'
  <2>1. CASE blocking[e] /\ taken[e] + k < left(e, "send")
    <3>1. Sent(e, left(e, "send"), k) = 0
      BY <2>1 DEF Sent
    <3>2. taken'[e] = taken[e] + k /\ total'[e] = total[e]
      BY <1>1, <1>2, <1>4, <3>1 DEF Typed
    <3> QED BY <1>5, <2>1, <3>2 DEF Short, left
  <2>2. CASE ~(blocking[e] /\ taken[e] + k < left(e, "send"))
    <3>1. Sent(e, left(e, "send"), k) = taken[e] + k
      BY <2>2 DEF Sent
    <3>2. taken[e] + k > 0
      BY <1>3, <1>4
    <3>3. taken'[e] = 0
      BY <1>1, <1>2, <3>1, <3>2 DEF Typed
    <3> QED BY <3>3 DEF Short
  <2> QED BY <2>1, <2>2
<1>7. ASSUME NEW f \in Ends \ {e} PROVE Short(f)'
  <2>1. taken'[f] = taken[f] /\ total'[f] = total[f]
    BY <1>1, <1>2 DEF Typed
  <2> QED BY <1>5, <2>1 DEF Short, left
<1> QED BY <1>6, <1>7

\* An answer, with nothing half-done, keeps the others' counts.
LEMMA AnswerShort ==
  ASSUME Counts, \A f \in Ends : Short(f), NEW e \in Ends, NEW true \in BOOLEAN,
         Answer(e, true), UNCHANGED fixed, taken'[e] = 0,
         \A f \in Ends \ {e} : taken'[f] = taken[f]
  PROVE  \A f \in Ends : Short(f)'
<1>1. Short(e)'
  BY DEF Short
<1>2. ASSUME NEW f \in Ends \ {e} PROVE Short(f)'
  <2>1. total'[f] = total[f] /\ length(f, "send")' = length(f, "send")
    BY DEF Counts, Typed, Answer, fixed, length
  <2> QED BY <2>1 DEF Short, left
<1> QED BY <1>1, <1>2

\* Every step keeps it that way.
LEMMA ShortNext ==
  ASSUME Counts, \A e \in Ends : Short(e), [Next]_vars
  PROVE  \A e \in Ends : Short(e)'
<1>1. CASE \E e \in Ends : Proceed(e)
  <2>1. PICK e \in Ends : Proceed(e)
    BY <1>1
  <2>2. CASE Complete(e)
    <3>1. taken[e] = 0
      BY <2>2, CompleteCall DEF Complete, Calls
    <3> QED BY <2>2, <3>1, AnswerShort DEF Complete
  <2>3. CASE send_all(e)
    BY <2>3, send_allShort
  <2>4. CASE receive_all(e)
    <3>1. ~InCall(e, "send") /\ taken[e] = 0
      BY <2>4 DEF receive_all, InCall, Counts, Counted
    <3>2. taken' = taken /\ \A f \in Ends \ {e} : total'[f] = total[f]
      BY <2>4 DEF receive_all, Counts, Typed
    <3>3. \A f \in Ends : length(f, "send")' = length(f, "send")
      BY <2>4 DEF receive_all, length, fixed
    <3> QED BY <3>1, <3>2, <3>3 DEF Short, left
  <2>5. CASE ReceiveNothing(e)
    <3>1. ~InCall(e, "send") /\ taken[e] = 0
      BY <2>5 DEF ReceiveNothing, InCall, Counts, Counted
    <3> QED BY <2>5, <3>1, AnswerShort DEF ReceiveNothing
  <2>6. CASE Fail(e)
    <3>1. taken'[e] = 0 /\ \A f \in Ends \ {e} : taken'[f] = taken[f]
      BY <2>6 DEF Fail, Counts, Typed
    <3> QED BY <2>6, <3>1, AnswerShort DEF Fail
  <2> QED BY <2>1, <2>2, <2>3, <2>4, <2>5, <2>6 DEF Proceed
<1>2. CASE Break \/ Refused \/ (\E e \in Ends : Retry(e)) \/ UNCHANGED vars
  <2>1. UNCHANGED <<fixed, total, taken>>
    BY <1>2 DEF Break, Refused, Retry, vars
  <2> QED BY <2>1 DEF Short, left, length, fixed
<1> QED BY <1>1, <1>2 DEF Next

\* An end that has not stopped is in one of its two calls.
LEMMA StoppedOrIn ==
  ASSUME Counts, NEW e \in Ends, ~Stopped(e)
  PROVE  \E op \in Calls : InCall(e, op)
<1>1. Typed /\ Len(answers[e]) <= Len(script[e])
  BY DEF Counts, Counted
<1>2. InCall(e, script[e][Len(answers[e]) + 1])
  BY DEF InCall
<1> QED BY <1>1, <1>2, Running

\* An end in send_all has handed over all that is under way or stored, which is
\* not the whole message as long as something is left.
LEMMA SendsOn ==
  ASSUME Whole, ~broken, NEW e \in Ends, InCall(e, "send"), Short(e),
         left(e, "send") > 0
  PROVE  /\ taken[e] < left(e, "send")
         /\ Len(buf[Other(e)]) + Len(stream[e]) < Len(message[e])
<1>1. Typed
  BY DEF Whole, Counts
<1>2. /\ total[e] \in Nat /\ taken[e] \in Nat /\ Len(message[e]) \in Nat
      /\ left(e, "send") = Len(message[e]) - total[e]
  BY <1>1, Parts, Chosen DEF left, length
<1>3. taken[e] < left(e, "send")
  BY <1>2 DEF Short
<1>4. Len(there(e)) = total[e] + taken[e]
  BY DEF Whole, Fronted, HandedOver
<1>5. Len(there(e)) = Len(buf[Other(e)]) + Len(stream[e])
  BY <1>1, There
<1>6. total[e] + taken[e] < Len(message[e])
  BY <1>2, <1>3
<1>7. Len(buf[Other(e)]) + Len(stream[e]) < Len(message[e])
  BY <1>4, <1>5, <1>6, Zenon
<1> QED BY <1>3, <1>7

\* What an end in its second call has done in its first one.
LEMMA SecondCall ==
  ASSUME Whole, ~broken, NEW e \in Ends, NEW op, InCall(e, op),
         script[e][1] # op
  PROVE  /\ script[e][1] = "send" =>
              Len(buf[Other(e)]) + Len(stream[e]) = Len(message[e])
         /\ script[e][1] = "receive" => buf[e] = message[Other(e)]
<1>1. Typed /\ Len(answers[e]) <= Len(script[e])
  BY DEF Whole, Counts, Counted
<1>2. Len(answers[e]) \in {0, 1} /\ script[e][Len(answers[e]) + 1] = op
      /\ \A i \in DOMAIN answers[e] : answers[e][i] = TRUE
  BY <1>1, Running
<1>3. Len(answers[e]) = 1
  BY <1>2
<1>4. 1 \in DOMAIN answers[e] /\ answers[e][1] = TRUE
  <2>1. DOMAIN answers[e] = 1 .. Len(answers[e])
    BY <1>1, LenProperties DEF Typed
  <2> QED BY <1>2, <1>3, <2>1
<1>5. ASSUME script[e][1] = "send"
      PROVE  Len(buf[Other(e)]) + Len(stream[e]) = Len(message[e])
  <2>1. ~InCall(e, "send")
    BY <1>5 DEF InCall
  <2>2. HandedOver(e) = Len(message[e])
    BY <1>4, <1>5, <2>1 DEF HandedOver
  <2> QED BY <1>1, <2>2, There DEF Whole, Fronted
<1>6. ASSUME script[e][1] = "receive" PROVE buf[e] = message[Other(e)]
  BY <1>4, <1>6 DEF Whole, TrueMeansAll
<1> QED BY <1>5, <1>6

\* Neither end can go on, and neither has stopped: both are in the same call.
Stuck == \A e \in Ends : ~Stopped(e) /\ ~Going(e)

\* An end that cannot go on has something left, and waits in send_all for room
\* or in receive_all for bytes.
LEMMA StuckEnd ==
  ASSUME Whole, \A f \in Ends : Short(f), NEW e \in Ends, ~Stopped(e), ~Going(e)
  PROVE  /\ ~broken
         /\ \/ /\ InCall(e, "send") /\ left(e, "send") > 0
               /\ Len(stream[e]) = Cap
            \/ /\ InCall(e, "receive") /\ left(e, "receive") > 0
               /\ stream[Other(e)] = << >> /\ ~Stopped(Other(e))
<1>1. Counts /\ Typed /\ Counted(e)
  BY DEF Whole, Counts
<1>2. PICK op \in Calls : InCall(e, op)
  BY <1>1, StoppedOrIn
<1>3. ~broken /\ ~AllDone(e, op)
  BY <1>2 DEF Going, Calls
<1>4. left(e, op) > 0
  <2>1. left(e, op) \in Int
    BY <1>1, Parts, Chosen DEF left
  <2> QED BY <1>2, <1>3, <2>1 DEF AllDone
<1>5. CASE op = "send"
  <2>1. taken[e] < left(e, "send")
    BY <1>2, <1>3, <1>4, <1>5, SendsOn
  <2>2. ~(Room(e) > 0)
    BY <1>2, <1>5, <2>1 DEF Going
  <2>3. Len(stream[e]) = Cap
    BY <1>1, <2>2, Parts DEF Room, Counted
  <2> QED BY <1>2, <1>3, <1>4, <1>5, <2>3
<1>6. CASE op = "receive"
  <2>1. stream[Other(e)] = << >> /\ ~EndOf(e)
    BY <1>2, <1>6 DEF Going
  <2> QED BY <1>2, <1>3, <1>4, <1>6, <2>1 DEF EndOf
<1> QED BY <1>5, <1>6 DEF Calls

\* If neither can go on, they are the two ends that wait for each other.
LEMMA OnlyCrossedStuck ==
  ASSUME Whole, \A f \in Ends : Short(f), Stuck
  PROVE  Hopeless
<1>1. /\ Typed /\ Cap \in Nat /\ Cap > 0
      /\ \A e \in Ends : /\ Len(stream[e]) \in Nat /\ Len(buf[e]) \in Nat
                        /\ Len(message[e]) \in Nat
                        /\ message[e] \in Seq(Nat)
                        /\ stream[e] \in Seq(Nat)
  BY Parts, Chosen, SendAllAssumption DEF Whole, Counts, SendAllAssumption
<1>2. \A e \in Ends :
        /\ ~broken
        /\ \/ /\ InCall(e, "send") /\ left(e, "send") > 0
              /\ Len(stream[e]) = Cap
           \/ /\ InCall(e, "receive") /\ left(e, "receive") > 0
              /\ stream[Other(e)] = << >>
  BY StuckEnd DEF Stuck
<1>3. ~broken
  <2>1. \E e \in Ends : TRUE
    BY SendAllAssumption
  <2> QED BY <1>2, <2>1
<1>4. ASSUME NEW e \in Ends PROVE script[e][1] \in Calls
  <2>1. script[e] \in {<<"send">>, <<"receive">>, <<"send", "receive">>,
                      <<"receive", "send">>}
    BY <1>1, Chosen
  <2> QED BY <2>1 DEF Calls
<1>5. CASE \A e \in Ends : InCall(e, "send") /\ left(e, "send") > 0
                             /\ Len(stream[e]) = Cap
  <2>1. \A e \in Ends : Len(buf[Other(e)]) + Len(stream[e]) < Len(message[e])
    BY <1>3, <1>5, SendsOn
  <2>2. \A e \in Ends : Len(message[e]) > Cap
    <3> TAKE e \in Ends
    <3>1. /\ Len(buf[Other(e)]) + Cap < Len(message[e])
          /\ Len(buf[Other(e)]) \in Nat /\ Len(message[e]) \in Nat
      BY <1>1, <1>5, <2>1, OtherEnd
    <3> QED BY <1>1, <3>1
  <2>3. ASSUME NEW e \in Ends PROVE script[e][1] = "send"
    <3>1. SUFFICES ASSUME script[e][1] # "send" PROVE FALSE
      OBVIOUS
    <3>2. buf[e] = message[Other(e)]
      BY <1>3, <1>4, <1>5, <3>1, SecondCall DEF Calls
    <3> DEFINE f == Other(e)
    <3>3. f \in Ends /\ Other(f) = e
      BY OtherEnd
    <3> HIDE DEF f
    <3>4. Len(buf[e]) + Len(stream[f]) < Len(message[f])
      BY <2>1, <3>3
    <3>5. Len(buf[e]) = Len(message[f])
      BY <3>2 DEF f
    <3>6. Len(stream[f]) \in Nat /\ Len(message[f]) \in Nat
      BY <1>1, <3>3
    <3>7. \A m, n \in Nat : ~(m + n < m)
      OBVIOUS
    <3>8. Len(message[f]) + Len(stream[f]) < Len(message[f])
      BY <3>4, <3>5, Zenon
    <3> QED BY <3>6, <3>7, <3>8, Zenon
  <2> QED BY <2>2, <2>3 DEF Hopeless
<1>6. CASE \A e \in Ends : InCall(e, "receive") /\ left(e, "receive") > 0
                             /\ stream[Other(e)] = << >>
  <2>1. \A e \in Ends : Len(stream[e]) = 0
    BY <1>6, OtherEnd, EmptySeq
  <2>2. ASSUME NEW e \in Ends
        PROVE  Len(buf[Other(e)]) < Len(message[e])
    <3> DEFINE f == Other(e)
    <3>1. f \in Ends /\ Other(f) = e
      BY OtherEnd
    <3>2. left(f, "receive") = Len(message[e]) - total[f]
      BY <3>1 DEF left, length
    <3> HIDE DEF f
    <3>3. Len(buf[f]) = total[f] /\ total[f] \in Nat
      BY <1>1, <1>6, <3>1, Parts DEF Whole, Stored
    <3>4. left(f, "receive") > 0 /\ Len(message[e]) \in Nat
      BY <1>1, <1>6, <3>1
    <3>5. Len(buf[f]) < Len(message[e])
      BY <3>2, <3>3, <3>4
    <3> QED BY <3>5 DEF f
  <2>3. \A e \in Ends : message[e] # << >>
    <3> TAKE e \in Ends
    <3>1. Len(message[e]) > 0
      BY <1>1, <2>2, OtherEnd
    <3> QED BY <3>1, EmptySeq
  <2>4. ASSUME NEW e \in Ends PROVE script[e][1] = "receive"
    <3>1. SUFFICES ASSUME script[e][1] # "receive" PROVE FALSE
      OBVIOUS
    <3>2. Len(buf[Other(e)]) + Len(stream[e]) = Len(message[e])
      BY <1>3, <1>4, <1>6, <3>1, SecondCall DEF Calls
    <3>3. Len(buf[Other(e)]) \in Nat /\ Len(message[e]) \in Nat
      BY <1>1, OtherEnd
    <3>4. Len(stream[e]) = 0 /\ Len(buf[Other(e)]) < Len(message[e])
      BY <2>1, <2>2
    <3>5. \A m, n \in Nat : ~(m < n /\ m + 0 = n)
      OBVIOUS
    <3> QED BY <3>2, <3>3, <3>4, <3>5, Zenon
  <2> QED BY <2>3, <2>4 DEF Hopeless
<1>7. ASSUME NEW e \in Ends, InCall(e, "send"), InCall(Other(e), "receive")
      PROVE  FALSE
  <2>1. ~InCall(e, "receive") /\ ~InCall(Other(e), "send")
    BY <1>7 DEF InCall
  <2>2. Len(stream[e]) = Cap
    BY <1>2, <2>1
  <2>3. stream[e] = << >>
    BY <1>2, <2>1, OtherEnd
  <2> QED BY <1>1, <2>2, <2>3, EmptySeq
<1>8. PICK e \in Ends : TRUE
  BY SendAllAssumption
<1>9. Other(e) \in Ends /\ Other(Other(e)) = e /\ \A f \in Ends : f = e \/ f = Other(e)
  BY OtherEnd
<1>10. CASE InCall(e, "send") /\ InCall(Other(e), "send")
  <2>1. \A f \in Ends : InCall(f, "send") /\ ~InCall(f, "receive")
    BY <1>9, <1>10 DEF InCall
  <2> QED BY <1>2, <1>5, <2>1
<1>11. CASE InCall(e, "receive") /\ InCall(Other(e), "receive")
  <2>1. \A f \in Ends : InCall(f, "receive") /\ ~InCall(f, "send")
    BY <1>9, <1>11 DEF InCall
  <2> QED BY <1>2, <1>6, <2>1
<1>12. \A f \in Ends : InCall(f, "send") \/ InCall(f, "receive")
  BY <1>2
<1>13. ~(InCall(e, "send") /\ InCall(Other(e), "receive"))
  BY <1>7
<1>14. ~(InCall(e, "receive") /\ InCall(Other(e), "send"))
  BY <1>7, <1>9
<1> QED BY <1>9, <1>10, <1>11, <1>12, <1>13, <1>14

\* One end has stopped: the other one can go on, or its bytes are refused.
LEMMA OneLeftGoesOn ==
  ASSUME Whole, \A f \in Ends : Short(f), NEW e \in Ends, ~Stopped(e), ~Going(e)
  PROVE  Stopped(Other(e)) => ResetComing
<1> SUFFICES ASSUME Stopped(Other(e)) PROVE ResetComing
  OBVIOUS
<1>1. ~broken /\ Len(stream[e]) = Cap
  BY StuckEnd
<1>2. Cap > 0 /\ Len(<< >>) = 0
  BY SendAllAssumption, EmptySeq DEF SendAllAssumption
<1>3. stream[e] # << >>
  BY <1>1, <1>2
<1> QED BY <1>1, <1>3, OtherEnd DEF ResetComing

\* NobodyStuck: unless both send more than the connection holds before they
\* receive, or both wait to receive first, one end can go on or a reset is on its
\* way, until both have stopped, for every capacity and all messages.
THEOREM ExchangeGoesOn == Spec => []NobodyStuck
<1>1. Whole /\ (\A e \in Ends : Short(e)) => NobodyStuck
  <2> SUFFICES ASSUME Whole, \A e \in Ends : Short(e),
                      ~Hopeless, ~ResetComing, \A e \in Ends : ~Going(e)
               PROVE  \A e \in Ends : Stopped(e)
    BY DEF NobodyStuck
  <2>1. PICK e \in Ends : Stopped(e)
    BY OnlyCrossedStuck DEF Stuck
  <2>2. Stopped(Other(e))
    BY <2>1, OtherEnd, OneLeftGoesOn
  <2> QED BY <2>1, <2>2, OtherEnd
<1>2. Init => Whole /\ \A e \in Ends : Short(e)
  BY WholeInit, ShortInit
<1>3. Whole /\ (\A e \in Ends : Short(e)) /\ [Next]_vars
        => Whole' /\ (\A e \in Ends : Short(e))'
  BY WholeNext, ShortNext DEF Whole
<1> QED BY <1>1, <1>2, <1>3, PTL DEF Spec

\* More than all that an end may count in one call.
Span(e) == length(e, "send") + length(e, "receive") + 1

\* What is left of an end's turns, in numbers: one or two answers, and in the
\* running call less than a span is done.
LEMMA TurnsLeft ==
  ASSUME Counts, NEW e \in Ends
  PROVE  /\ Turns(e) \in Nat /\ Span(e) \in Nat
         /\ ~Stopped(e) =>
              /\ Len(script[e]) - Len(answers[e]) \in {1, 2}
              /\ Place(e) \in Nat /\ Place(e) < Span(e)
              /\ Turns(e) = (Len(script[e]) - Len(answers[e])) * Span(e) - Place(e)
<1>1. Typed /\ Counted(e)
  BY DEF Counts
<1>2. /\ length(e, "send") \in Nat /\ length(e, "receive") \in Nat
      /\ total[e] \in Nat /\ taken[e] \in Nat
  BY <1>1, Chosen, Parts DEF Calls
<1>3. Span(e) \in Nat /\ Span(e) > 0 /\ Place(e) \in Nat
  BY <1>2 DEF Span, Place
<1>4. CASE Stopped(e)
  BY <1>3, <1>4 DEF Turns
<1>5. CASE ~Stopped(e)
  <2>1. PICK op \in Calls : InCall(e, op)
    BY <1>5, StoppedOrIn
  <2>2. Place(e) <= length(e, op)
    BY <1>1, <2>1 DEF Counted, Place
  <2>3. Place(e) < Span(e)
    <3>1. length(e, op) < Span(e)
      BY <1>2 DEF Calls, Span
    <3> QED BY <1>2, <1>3, <2>2, <3>1 DEF Calls
  <2>4. Len(script[e]) - Len(answers[e]) \in {1, 2}
    <3>1. Len(answers[e]) \in {0, 1} /\ Len(answers[e]) < Len(script[e])
      BY <1>1, <2>1, Running DEF Counted
    <3>2. Len(script[e]) \in {1, 2}
      BY <1>1, Chosen
    <3>3. \A a \in {0, 1} : \A n \in {1, 2} : a < n => n - a \in {1, 2}
      OBVIOUS
    <3> QED BY <3>1, <3>2, <3>3, Zenon
  <2>5. Turns(e) = (Len(script[e]) - Len(answers[e])) * Span(e) - Place(e)
    BY <1>5 DEF Turns, Span
  <2>6. \A r \in {1, 2} : \A w, p \in Nat : p < w => r * w - p \in Nat
    OBVIOUS
  <2>7. (Len(script[e]) - Len(answers[e])) * Span(e) - Place(e) \in Nat
    BY <1>3, <2>3, <2>4, <2>6
  <2> QED BY <1>3, <2>3, <2>4, <2>5, <2>7
<1> QED BY <1>4, <1>5

\* Who is not concerned by a step keeps his turns.
LEMMA TurnsStay ==
  ASSUME NEW e \in Ends, UNCHANGED fixed, answers'[e] = answers[e],
         total'[e] + taken'[e] = total[e] + taken[e]
  PROVE  Turns(e)' = Turns(e)
<1>1. Stopped(e)' = Stopped(e) /\ Place(e)' = Place(e)
  BY DEF Stopped, fixed, Place
<1>2. Span(e)' = Span(e)
  BY DEF Span, length, fixed, Other
<1> DEFINE more == (Len(script[e]) - Len(answers[e])) * Span(e) - Place(e)
<1>3. more' = more
  <2>1. Len(script'[e]) - Len(answers'[e]) = Len(script[e]) - Len(answers[e])
    BY DEF fixed
  <2> QED BY <1>1, <1>2, <2>1
<1>4. /\ Turns(e)  = IF Stopped(e)  THEN 0 ELSE more
      /\ Turns(e)' = IF Stopped(e)' THEN 0 ELSE more'
  BY DEF Turns, Span
<1> HIDE DEF more
<1> QED BY <1>1, <1>3, <1>4

\* One more is one less to go.
LEMMA OneLess == \A n, m \in Nat : n - (m + 1) = (n - m) - 1
PROOF
  <1> SUFFICES ASSUME NEW n \in Nat, NEW m \in Nat PROVE n - (m + 1) = (n - m) - 1
    OBVIOUS
  <1> QED BY SMT

\* An answer takes at least one.
LEMMA AnswerTurns ==
  ASSUME Counts, Counts', NEW e \in Ends, NEW op, InCall(e, op),
         NEW true \in BOOLEAN, Answer(e, true), UNCHANGED fixed, taken'[e] = 0
  PROVE  Turns(e)' < Turns(e)
<1>1. Typed /\ Len(answers[e]) <= Len(script[e]) /\ ~Stopped(e)
  BY DEF Counts, Counted, InCall
<1>2. Len(answers'[e]) = Len(answers[e]) + 1
  BY <1>1, Answered DEF Answer, fixed
<1>3. Place(e)' = 0
  <2>1. total'[e] = 0
    BY <1>1 DEF Answer, Typed
  <2>2. Place(e)' = total'[e] + taken'[e]
    BY DEF Place
  <2> QED BY <2>1, <2>2, Zero, Zenon
<1> DEFINE r == Len(script[e]) - Len(answers[e])
<1>4. /\ r \in {1, 2} /\ Span(e) \in Nat
      /\ Place(e) \in Nat /\ Place(e) < Span(e)
      /\ Turns(e) = r * Span(e) - Place(e)
  BY <1>1, TurnsLeft
<1>5. Span(e)' = Span(e)
  BY DEF Span, length, fixed, Other
<1>6. CASE Stopped(e)'
  <2>1. Turns(e)' = 0
    BY <1>6 DEF Turns
  <2>2. \A n \in {1, 2} : \A w, p \in Nat : p < w => 0 < n * w - p
    OBVIOUS
  <2> QED BY <1>4, <2>1, <2>2
<1>7. CASE ~Stopped(e)'
  <2>1. Turns(e)' = (Len(script[e]) - Len(answers'[e])) * Span(e) - 0
    BY <1>3, <1>5, <1>7 DEF Turns, Span, fixed
  <2>2. Len(script[e]) - Len(answers'[e]) = r - 1
    <3>1. Len(answers[e]) \in Nat /\ Len(script[e]) \in Nat
      BY <1>1, LenProperties, Chosen DEF Typed
    <3> QED BY <1>2, <3>1, OneLess, Zenon
  <2> HIDE DEF r
  <2>3. \A n \in {1, 2} : \A w, p \in Nat : p < w => (n - 1) * w - 0 < n * w - p
    OBVIOUS
  <2>4. (r - 1) * Span(e) - 0 < r * Span(e) - Place(e)
    BY <1>4, <2>3
  <2> QED BY <1>4, <2>1, <2>2, <2>4
<1> QED BY <1>6, <1>7

\* So does a turn that transfers something.
LEMMA TransferTurns ==
  ASSUME Counts, Counts', NEW e \in Ends, ~Stopped(e), UNCHANGED <<fixed, answers>>,
         NEW k \in Nat, k > 0, Place(e)' = Place(e) + k
  PROVE  Turns(e)' < Turns(e)
<1>1. ~Stopped(e)' /\ Span(e)' = Span(e)
  BY DEF Stopped, Span, length, fixed, Other
<1> DEFINE r == Len(script[e]) - Len(answers[e])
<1>2. /\ r \in {1, 2} /\ Span(e) \in Nat /\ Place(e) \in Nat
      /\ Turns(e) = r * Span(e) - Place(e)
  BY TurnsLeft
<1>3. Turns(e)' = r * Span(e) - (Place(e) + k)
  BY <1>1 DEF Turns, Span, fixed
<1> HIDE DEF r
<1>4. \A n \in {1, 2} : \A w, p, m \in Nat : m > 0 => n * w - (p + m) < n * w - p
  OBVIOUS
<1> QED BY <1>2, <1>3, <1>4

\* A turn of an end takes one of its turns, at least, and none of the other's.
LEMMA ProceedTurns ==
  ASSUME Counts, Counts', NEW e \in Ends, Proceed(e)
  PROVE  Turns(e)' < Turns(e) /\ \A f \in Ends \ {e} : Turns(f)' = Turns(f)
<1>1. Typed
  BY DEF Counts
<1>2. CASE Complete(e)
  <2>1. PICK op \in Calls : AllDone(e, op)
    BY <1>2 DEF Complete, Calls
  <2>2. InCall(e, op) /\ taken'[e] = 0
    BY <1>2, <2>1, CompleteCall DEF Complete
  <2>3. Turns(e)' < Turns(e)
    BY <1>2, <2>2, AnswerTurns DEF Complete
  <2>4. ASSUME NEW f \in Ends \ {e} PROVE Turns(f)' = Turns(f)
    BY <1>1, <1>2, TurnsStay DEF Complete, Answer, Typed
  <2> QED BY <2>3, <2>4
<1>3. CASE send_all(e)
  <2>1. PICK k \in 1 .. Least(Room(e), left(e, "send") - taken[e]) :
          LET sent == Sent(e, left(e, "send"), k)
          IN /\ total' = [total EXCEPT ![e] = @ + sent]
             /\ taken' = [taken EXCEPT ![e] = IF sent > 0 THEN 0 ELSE @ + k]
    BY <1>3 DEF send_all
  <2>2. InCall(e, "send") /\ ~Stopped(e) /\ UNCHANGED <<fixed, answers>>
    BY <1>3 DEF send_all, InCall
  <2>3. k \in Nat /\ k > 0 /\ taken[e] \in Nat /\ total[e] \in Nat
    BY <1>1, <2>2, SendTakes, Parts
  <2> DEFINE sent == Sent(e, left(e, "send"), k)
  <2>4. sent = 0 \/ (sent = taken[e] + k /\ sent > 0)
    BY <2>3 DEF Sent
  <2>5. total'[e] = total[e] + sent /\ taken'[e] = IF sent > 0 THEN 0 ELSE taken[e] + k
    BY <1>1, <2>1 DEF Typed
  <2> HIDE DEF sent
  <2>6. Place(e)' = Place(e) + k
    BY <2>3, <2>4, <2>5 DEF Place
  <2>7. Turns(e)' < Turns(e)
    BY <2>2, <2>3, <2>6, TransferTurns
  <2>8. ASSUME NEW f \in Ends \ {e} PROVE Turns(f)' = Turns(f)
    BY <1>1, <2>1, <2>2, TurnsStay DEF Typed
  <2> QED BY <2>7, <2>8
<1>4. CASE receive_all(e)
  <2>1. PICK k \in 1 .. Least(Len(stream[Other(e)]), left(e, "receive")) :
          total' = [total EXCEPT ![e] = @ + k]
    BY <1>4 DEF receive_all
  <2>2. InCall(e, "receive") /\ ~Stopped(e) /\ UNCHANGED <<fixed, answers, taken>>
    BY <1>4 DEF receive_all, InCall
  <2>3. k \in Nat /\ k > 0 /\ taken[e] \in Nat /\ total[e] \in Nat
    BY <1>1, <2>2, ReceiveTakes, Parts
  <2>4. Place(e)' = Place(e) + k
    BY <1>1, <2>1, <2>2, <2>3 DEF Place, Typed
  <2>5. Turns(e)' < Turns(e)
    BY <2>2, <2>3, <2>4, TransferTurns
  <2>6. ASSUME NEW f \in Ends \ {e} PROVE Turns(f)' = Turns(f)
    BY <1>1, <2>1, <2>2, TurnsStay DEF Typed
  <2> QED BY <2>5, <2>6
<1>5. CASE ReceiveNothing(e)
  <2>1. InCall(e, "receive") /\ taken'[e] = 0
    BY <1>5 DEF ReceiveNothing, InCall, Counts, Counted
  <2>2. Turns(e)' < Turns(e)
    BY <1>5, <2>1, AnswerTurns DEF ReceiveNothing
  <2>3. ASSUME NEW f \in Ends \ {e} PROVE Turns(f)' = Turns(f)
    BY <1>1, <1>5, TurnsStay DEF ReceiveNothing, Answer, Typed
  <2> QED BY <2>2, <2>3
<1>6. CASE Fail(e)
  <2>1. PICK op \in Calls : InCall(e, op)
    BY <1>6 DEF Fail, Calls
  <2>2. taken'[e] = 0
    BY <1>1, <1>6 DEF Fail, Typed
  <2>3. Turns(e)' < Turns(e)
    BY <1>6, <2>1, <2>2, AnswerTurns DEF Fail
  <2>4. ASSUME NEW f \in Ends \ {e} PROVE Turns(f)' = Turns(f)
    BY <1>1, <1>6, TurnsStay DEF Fail, Answer, Typed
  <2> QED BY <2>3, <2>4
<1> QED BY <1>2, <1>3, <1>4, <1>5, <1>6 DEF Proceed

\* TurnsRunOut: no end goes on for ever.  Every turn that is not made again
\* takes an end nearer to its last answer, for all messages and every way in
\* which native calls split them, and no step of the other end undoes that.
THEOREM TurnsAreCounted == Spec => TurnsRunOut
<1> DEFINE Fewer == \A e \in Ends :
                      /\ 0 <= Turns(e)' /\ Turns(e)' <= Turns(e)
                      /\ Proceed(e) => Turns(e)' < Turns(e)
<1> DEFINE Some == \A e \in Ends : Turns(e) \in Nat
<1>1. Counts => Some
  BY TurnsLeft
<1>2. Counts' => Some'
  BY <1>1, PTL
<1>3. Counts /\ Counts' /\ [Next]_vars => [Fewer]_vars
  <2> SUFFICES ASSUME Counts, Counts', Next, NEW e \in Ends
               PROVE  /\ 0 <= Turns(e)' /\ Turns(e)' <= Turns(e)
                      /\ Proceed(e) => Turns(e)' < Turns(e)
    OBVIOUS
  <2>1. Turns(e) \in Nat
    BY <1>1
  <2>2. Turns(e)' \in Nat
    BY <1>2
  <2>3. Proceed(e) => Turns(e)' < Turns(e)
    BY ProceedTurns
  <2>4. CASE \E f \in Ends : Proceed(f)
    <3>1. Turns(e)' < Turns(e) \/ Turns(e)' = Turns(e)
      BY <2>4, ProceedTurns
    <3> QED BY <2>1, <2>2, <2>3, <3>1
  <2>5. CASE Break \/ Refused \/ \E f \in Ends : Retry(f)
    <3>1. UNCHANGED <<fixed, answers, total, taken>>
      BY <2>5 DEF Break, Refused, Retry
    <3>2. Turns(e)' = Turns(e)
      BY <3>1, TurnsStay
    <3> QED BY <2>1, <2>2, <2>3, <3>2
  <2> QED BY <2>4, <2>5 DEF Next
<1>4. Counts /\ [Next]_vars => Counts'
  BY CountsNext
<1>5. Init => Counts
  BY CountsInit
<1>6. TurnsRunOut <=> [][Fewer]_vars
  BY DEF TurnsRunOut
<1> HIDE DEF Fewer, Some
<1> QED BY <1>3, <1>4, <1>5, <1>6, PTL DEF Spec
=============================================================================
