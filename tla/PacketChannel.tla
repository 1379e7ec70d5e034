---------------------------- MODULE PacketChannel ---------------------------
(***************************************************************************)
(* What a connection promises two programs that exchange packets, for as   *)
(* long as its ends agree where packets start: those that come out went    *)
(* in, in their order, none of them twice unless the sending program was   *)
(* told to send it again; and, when the channel is not lossy, all of them. *)
(* When the ends do not agree, what comes out may be anything.             *)
(***************************************************************************)
EXTENDS Integers, Sequences

CONSTANTS
  Count,   \* the packets to send are numbered 1 .. Count
  Lossy    \* a packet that went in need not come out

VARIABLES
  accepted,   \* the packets up to this number went in, or were given up
  doubtful,   \* those that went in and were asked for again
  received,   \* the numbers of those that came out; 0 for what is no packet
  torn        \* the ends do not agree where packets start; this may change
              \* at any time

cvars == <<accepted, doubtful, received>>

Start == accepted = 0 /\ doubtful = {} /\ received = << >>

Accept ==
  /\ accepted < Count
  /\ accepted' = accepted + 1
  /\ UNCHANGED <<doubtful, received>>

\* The next packet went in, and its sender does not know.
Doubt ==
  /\ accepted < Count
  /\ doubtful' = doubtful \cup {accepted + 1}
  /\ UNCHANGED <<accepted, received>>

\* Packet i may come out when j already did.
After(j, i, again) == j < i \/ (j = i /\ i \in again)

\* Packet i may come out next.
Due(i) ==
  /\ \A n \in DOMAIN received : After(received[n], i, doubtful)
  /\ ~Lossy => \A j \in 1 .. i - 1 : \E n \in DOMAIN received : received[n] = j

Deliver ==
  /\ \E i \in (1 .. accepted) \cup doubtful :
       Due(i) /\ received' = Append(received, i)
  /\ UNCHANGED <<accepted, doubtful>>

\* Something else comes out.
Stray ==
  /\ received' = Append(received, 0)
  /\ UNCHANGED <<accepted, doubtful>>

Exchange == Accept \/ Doubt \/ (Deliver /\ ~torn') \/ (Stray /\ torn')

ChannelSpec == Start /\ [][Exchange]_cvars

\* Both ends go on while they can: everything comes out.
FairChannelSpec == ChannelSpec /\ WF_cvars(Accept) /\ WF_cvars(Deliver)
=============================================================================
