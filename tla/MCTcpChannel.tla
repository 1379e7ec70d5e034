---------------------------- MODULE MCTcpChannel ----------------------------
(* Values of the constants of TcpChannel.                                  *)
EXTENDS TcpChannel

TwoMessages   == <<<<2, 1>>, <<1>>>>
ManyMessages  == <<<<1>>, <<2, 0>>, <<0, 1>>, <<2>>, <<1, 2>>, <<1, 1>>, <<0>>>>
=============================================================================
