----------------------------- MODULE MCSendAll ------------------------------
(* Values of the constants of SendAll.                                     *)
EXTENDS SendAll

CONSTANTS a, b   \* the two ends

\* Nothing, what fits into the connection, and more than fits.
ThreeLengths == {<< >>, <<1, 2>>, <<1, 2, 3, 4>>}

AllScripts ==
  {<<"send">>, <<"receive">>, <<"send", "receive">>, <<"receive", "send">>}
=============================================================================
