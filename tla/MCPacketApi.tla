---------------------------- MODULE MCPacketApi -----------------------------
(* Values of the constants of PacketApi.                                   *)
EXTENDS PacketApi, TLC

\* States that differ in the history alone are explored once: no action reads
\* it, and the properties read its new value only.
View == pkts

\* Packets are interchangeable.
Symmetric == Permutations(Packets)

\* Bound: no two packets have payloads of more than a byte at once.
OneSmall ==
  \A k, j \in Packets :
    k # j => work_size(pkts[k]) <= 1 \/ work_size(pkts[j]) <= 1

Bytes       == {<<1>>, <<0, 1>>, <<1, 1, 0>>}
ShortBytes  == {<<1>>, <<0, 1>>}
FewTexts    == {<<>>, <<1>>, <<1, 0, 1, 1>>}
Sizes       == {1, 2}
SomeSeeks   == {<<"read", "from_end", 1>>, <<"both", "from_start", 0>>,
                <<"write", "relative", -1>>, <<"both", "relative", 2>>}
SomeSizes   == {3, DatagramSize + 1}
=============================================================================
