----------------------------- MODULE MCDatagram -----------------------------
(* Values of the constants of Datagram.                                    *)
EXTENDS Datagram, TLC

CONSTANTS a, b   \* the ends: a is connected to b, b is not connected

Localhost == <<":", ":", "1">>
WithTwo   == <<":", ":", "1", ":", "2">>   \* reads like Localhost with port 2
Anywhere  == <<":", ":">>
LinkLocal == <<"f", "e", "8", "0", ":", ":", "1">>
FourHost  == <<"1", ".", "0", ".", "0", ".", "1">>
TheName   == <<"h", "o", "s", "t">>

Hosts4 == {FourHost}
Hosts6 == {Localhost, WithTwo, Anywhere, LinkLocal}

AtEach   == a :> Native("inet6", Localhost, 2, 0)
              @@ b :> Native("inet6", Localhost, 3, 0)
PeerEach == a :> b @@ b :> NoPeer

\* The second one does not fit into a datagram.
TwoPayloads == {<<1, 0>>, <<0, 0, 2, 0>>}

\* Strangers: nothing at all, half a length, a datagram cut short, and a
\* packet.
Stranger    == Native("inet6", LinkLocal, 2, 1)
AllForged   ==
  {[from |-> Stranger, bytes |-> bytes] :
     bytes \in {<< >>, <<1>>, <<2, 0, 1>>, <<1, 0, 2>>}}

\* A host with one address, a host with two, one without an address, and one
\* with an address of a family that cannot be converted.
AllAnswers ==
  {<<AtEach[a]>>, << >>,
   <<Native("inet6", WithTwo, 0, 0), Native("inet6", Anywhere, 2, 0)>>,
   <<AtEach[a], Native("unix", FourHost, 0, 0)>>}

View == <<net, pkt, addr, err>>
=============================================================================
