------------------------- MODULE MCSocketLifecycle --------------------------
(* View and symmetry for SocketLifecycle.                                  *)
EXTENDS SocketLifecycle, TLC

\* States that differ in the history alone are explored once: no action reads
\* it, and the property that reads it looks at its new value.
View == state

\* Native sockets are interchangeable, and so are the peers.
Symmetric == Permutations(Handles) \cup Permutations(Peers)
=============================================================================
