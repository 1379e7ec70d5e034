------------------------------ MODULE SendAll -------------------------------
(***************************************************************************)
(* TcpSocket::send_all and receive_all: two programs that exchange         *)
(* messages whose lengths both know, each by a call or two.                *)
(*                                                                         *)
(* A call is a loop around one native call, and one step is one turn.  The *)
(* programs, their messages and the modes of their sockets are chosen in   *)
(* the initial state.  A program stops, and closes its socket, when it has *)
(* made its calls or when one of them answers false.                       *)
(***************************************************************************)
EXTENDS Integers, Sequences

CONSTANTS
  Ends,      \* the two programs
  Messages,  \* what they may send
  Scripts,   \* the calls they may make, in order: "send" and "receive"
  Cap        \* bytes that a connection holds in each direction

ASSUME SendAllAssumption ==
  /\ \E a, b \in Ends : a # b /\ Ends = {a, b}
  /\ Messages \subseteq Seq(Nat)
  /\ Scripts \subseteq
       {<<"send">>, <<"receive">>, <<"send", "receive">>, <<"receive", "send">>}
  /\ Cap \in Nat \ {0}

VARIABLES
  message,  \* what each end has to send
  script,   \* the calls that each end makes
  blocking, \* Socket::blocking_ of each end
  answers,  \* what its calls answered so far
  total,    \* the bytes its running call has transferred, as the loop counts
  taken,    \* and those that a blocking ::send took and has not returned yet
  stream,   \* the bytes under way from each end
  buf,      \* the bytes that receive_all stored
  native,   \* Socket::native_error_
  broken    \* the connection is gone

fixed == <<message, script, blocking>>
vars  == <<fixed, answers, total, taken, stream, buf, native, broken>>

Other(e) == CHOOSE f \in Ends : f # e

Stopped(e) == Len(answers[e]) = Len(script[e])
                \/ \E i \in DOMAIN answers[e] : ~answers[e][i]
InCall(e, op) == ~Stopped(e) /\ script[e][Len(answers[e]) + 1] = op

\* The length that both programs know.
length(e, op) == Len(message[IF op = "send" THEN e ELSE Other(e)])
left(e, op)   == length(e, op) - total[e]

\* Mutant: the count of one call goes on in the next one.
AnswerOnly(e, true) ==
  answers' = [answers EXCEPT ![e] = Append(@, true)] /\ UNCHANGED total

Answer(e, true) ==
  /\ answers' = [answers EXCEPT ![e] = Append(@, true)]
  /\ total'   = [total EXCEPT ![e] = 0]

-----------------------------------------------------------------------------
(* Winsock.  A blocking ::send returns when it has taken everything.       *)

Room(e)   == Cap - Len(stream[e])
Least(n, m) == IF n <= m THEN n ELSE m

\* Of the n bytes given to it, ::send moves k into the stream, and then has
\* sent this many; 0 means that it has not returned.
Sent(e, n, k) ==
  IF blocking[e] /\ taken[e] + k < n THEN 0 ELSE taken[e] + k

EndOf(e) == Stopped(Other(e)) /\ stream[Other(e)] = << >>

Break == /\ ~broken
         /\ broken' = TRUE
         /\ stream' = [e \in Ends |-> << >>]
         /\ UNCHANGED <<fixed, answers, total, taken, buf, native>>

\* What reaches a socket that is closed is answered with a reset.
Refused == (\E e \in Ends : Stopped(e) /\ stream[Other(e)] # << >>) /\ Break

-----------------------------------------------------------------------------
(* The loops.                                                              *)

\* Mutant: one native call is enough.
OneTurn(e, op) == InCall(e, op) /\ (total[e] > 0 \/ left(e, op) <= 0)

\* Mutant: the loop's condition is looked at behind the native call.
DoWhile(e, op) == InCall(e, op) /\ total[e] > 0 /\ left(e, op) <= 0

AllDone(e, op) == InCall(e, op) /\ left(e, op) <= 0

\* A loop is left at once when there is nothing, or nothing more, to do.
Complete(e) ==
  /\ AllDone(e, "send") \/ AllDone(e, "receive")
  /\ Answer(e, TRUE)
  /\ UNCHANGED <<fixed, taken, stream, buf, native, broken>>

\* Mutant: what is sent starts at the front of the data.
Front(e) == taken[e]

\* Where the bytes given to ::send start, and which of them it has taken.
Place(e) == total[e] + taken[e]

\* A turn of send_all: ::send for what is left.
send_all(e) ==
  /\ InCall(e, "send") /\ left(e, "send") > 0 /\ ~broken
  /\ \E k \in 1 .. Least(Room(e), left(e, "send") - taken[e]) :
       LET sent == Sent(e, left(e, "send"), k)
       IN /\ stream' = [stream EXCEPT ![e] =
                          @ \o SubSeq(message[e], Place(e) + 1, Place(e) + k)]
          /\ total' = [total EXCEPT ![e] = @ + sent]
          /\ taken' = [taken EXCEPT ![e] = IF sent > 0 THEN 0 ELSE @ + k]
  /\ UNCHANGED <<fixed, answers, buf, native, broken>>

\* A turn of receive_all: ::recv hands out some of what is there.
receive_all(e) ==
  /\ InCall(e, "receive") /\ left(e, "receive") > 0 /\ ~broken
  /\ \E k \in 1 .. Least(Len(stream[Other(e)]), left(e, "receive")) :
       /\ buf'    = [buf EXCEPT ![e] = @ \o SubSeq(stream[Other(e)], 1, k)]
       /\ stream' = [stream EXCEPT ![Other(e)] = SubSeq(@, k + 1, Len(@))]
       /\ total'  = [total EXCEPT ![e] = @ + k]
  /\ UNCHANGED <<fixed, answers, taken, native, broken>>

\* Mutant: the loop of receive_all goes on after the end of the stream.
EndIgnored(e) == EndOf(e) /\ UNCHANGED vars

\* receive_all is handed 0 bytes: the other end closed its socket.
ReceiveNothing(e) ==
  /\ InCall(e, "receive") /\ left(e, "receive") > 0
  /\ ~broken /\ EndOf(e)
  /\ Answer(e, FALSE)
  /\ UNCHANGED <<fixed, taken, stream, buf, native, broken>>

\* Mutant: an error is taken for a call that would have to wait.
ErrorRetried(e) ==
  /\ broken
  /\ \E op \in {"send", "receive"} : InCall(e, op) /\ left(e, op) > 0
  /\ native' = [native EXCEPT ![e] = "connection_reset"]
  /\ UNCHANGED <<fixed, answers, total, taken, stream, buf, broken>>

\* A native call fails because the connection is gone.
Fail(e) ==
  /\ broken
  /\ \E op \in {"send", "receive"} : InCall(e, op) /\ left(e, op) > 0
  /\ native' = [native EXCEPT ![e] = "connection_reset"]
  /\ taken'  = [taken EXCEPT ![e] = 0]
  /\ Answer(e, FALSE)
  /\ UNCHANGED <<fixed, stream, buf, broken>>

\* A native call that would have to wait; not while bytes that ::recv could
\* hand out are there.
WouldBlock(e) ==
  /\ ~blocking[e] /\ ~broken
  /\ \/ InCall(e, "send") /\ Room(e) < left(e, "send")
     \/ InCall(e, "receive") /\ left(e, "receive") > 0
          /\ stream[Other(e)] = << >> /\ ~EndOf(e)
  /\ native' = [native EXCEPT ![e] = "would_block"]

\* Mutant: every failure is final.
GiveUp(e) ==
  /\ WouldBlock(e)
  /\ Answer(e, FALSE)
  /\ UNCHANGED <<fixed, taken, stream, buf, broken>>

\* It is made again.
Retry(e) ==
  /\ WouldBlock(e)
  /\ UNCHANGED <<fixed, answers, total, taken, stream, buf, broken>>

-----------------------------------------------------------------------------

Init ==
  /\ message  \in [Ends -> Messages]
  /\ script   \in [Ends -> Scripts]
  /\ blocking \in [Ends -> BOOLEAN]
  /\ answers = [e \in Ends |-> << >>]
  /\ total   = [e \in Ends |-> 0]
  /\ taken   = [e \in Ends |-> 0]
  /\ stream  = [e \in Ends |-> << >>]
  /\ buf     = [e \in Ends |-> << >>]
  /\ native  = [e \in Ends |-> "none"]
  /\ broken  = FALSE

Proceed(e) == \/ Complete(e) \/ send_all(e) \/ receive_all(e)
              \/ ReceiveNothing(e) \/ Fail(e)

Next == (\E e \in Ends : Proceed(e) \/ Retry(e)) \/ Break \/ Refused

Spec == Init /\ [][Next]_vars

\* A program runs, and a native call does not refuse for ever what it could do;
\* a reset arrives.  Nothing is assumed of other breaks.
Fairness == (\A e \in Ends : WF_vars(Proceed(e))) /\ WF_vars(Refused)

FairSpec == Spec /\ Fairness

-----------------------------------------------------------------------------
(* Properties.                                                             *)

\* The loops count within the message, and the stream within its bound.
TypeOK ==
  \A e \in Ends :
    /\ total[e] >= 0 /\ taken[e] >= 0
    /\ \A op \in {"send", "receive"} : InCall(e, op) => left(e, op) >= 0
    /\ InCall(e, "send") => taken[e] <= left(e, "send")
    /\ Len(stream[e]) <= Cap
    /\ Len(answers[e]) <= Len(script[e])
    /\ native[e] \in {"none", "would_block", "connection_reset"}

\* However native calls split a message, and wherever a would_block falls
\* between them, the bytes of a message are received in order, each once: what
\* is stored and what is under way are its front, as long as the sender says.
HandedOver(e) ==
  IF InCall(e, "send") THEN total[e] + taken[e]
  ELSE IF \E i \in DOMAIN answers[e] : script[e][i] = "send" /\ answers[e][i]
         THEN Len(message[e]) ELSE 0

StreamWhole ==
  \A e \in Ends :
    LET there == buf[Other(e)] \o stream[e]
    IN /\ there = SubSeq(message[e], 1, Len(there))
       /\ ~broken => Len(there) = HandedOver(e)

\* true of receive_all means that the whole message is there; false, of either
\* loop, is answered only when the connection is gone or the other end has
\* stopped, never because a call would have to wait.
TrueMeansAll ==
  \A e \in Ends : \A i \in DOMAIN answers[e] :
    IF answers[e][i]
      THEN script[e][i] = "receive" => buf[e] = message[Other(e)]
      ELSE broken \/ Stopped(Other(e))

\* Two ends that both send first, each more than the connection holds, or both
\* receive first, wait for each other.
Hopeless ==
  \/ \A e \in Ends : script[e][1] = "send" /\ Len(message[e]) > Cap
  \/ \A e \in Ends : script[e][1] = "receive" /\ message[e] # << >>

\* In that case no call of either ever returns, unless the connection breaks.
NeitherReturns ==
  Hopeless /\ ~broken => \A e \in Ends : answers[e] = << >>

\* What lets an end go on: a call is complete, or fails, ::send has room, or
\* ::recv bytes or the end of the stream.
Going(e) ==
  \/ \E op \in {"send", "receive"} :
       AllDone(e, op) \/ (broken /\ InCall(e, op))
  \/ InCall(e, "send") /\ Room(e) > 0 /\ taken[e] < left(e, "send")
  \/ InCall(e, "receive") /\ (stream[Other(e)] # << >> \/ EndOf(e))

ResetComing == ~broken /\ \E e \in Ends : Stopped(e) /\ stream[Other(e)] # << >>

\* In all other cases one of the two can go on, or a reset is on its way, until
\* both have stopped: no order of their calls, no bytes left over and no call
\* answered by halves leaves them waiting for each other later on.
NobodyStuck ==
  \/ Hopeless \/ \A e \in Ends : Stopped(e)
  \/ ResetComing \/ \E e \in Ends : Going(e)

\* How many turns an end may still take: one for each byte, and one for each
\* answer.
Turns(e) ==
  IF Stopped(e) THEN 0
  ELSE (Len(script[e]) - Len(answers[e])) * (length(e, "send") + length(e, "receive") + 1)
         - Place(e)

\* Nobody goes on for ever: every turn that is not made again is one of those,
\* and nothing that the other end or the connection does adds to them.
TurnsRunOut ==
  [][\A e \in Ends :
       /\ 0 <= Turns(e)' /\ Turns(e)' <= Turns(e)
       /\ Proceed(e) => Turns(e)' < Turns(e)]_vars

\* So both come to an end in all other cases, whatever the lengths, the modes,
\* the programs and the way native calls split what they transfer.
ExchangeEnds == ~Hopeless ~> \A e \in Ends : Stopped(e)
=============================================================================
