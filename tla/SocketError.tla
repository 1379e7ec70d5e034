---------------------------- MODULE SocketError -----------------------------
(* The SocketState that a Winsock error code stands for.                   *)

SocketStates == {"done", "in_progress", "closed", "error"}

ProgressErrors == {"would_block", "already_in_progress"}
ClosedErrors   == {"connection_aborted", "connection_reset", "timed_out",
                   "network_reset", "not_connected"}
DoneErrors     == {"is_connected", "none"}

\* Mutant: a reset connection is to be waited for.
ResetInProgress(error) ==
  CASE error \in ProgressErrors \cup {"connection_reset"} -> "in_progress"
    [] error \in ClosedErrors \ {"connection_reset"}      -> "closed"
    [] error \in DoneErrors                               -> "done"
    [] OTHER                                              -> "error"

\* Mutant: an attempt that is under way already is done.
AlreadyDone(error) ==
  CASE error = "would_block"                           -> "in_progress"
    [] error \in ClosedErrors                          -> "closed"
    [] error \in DoneErrors \cup {"already_in_progress"} -> "done"
    [] OTHER                                           -> "error"

to_state(error) ==
  CASE error \in ProgressErrors -> "in_progress"
    [] error \in ClosedErrors   -> "closed"
    [] error \in DoneErrors     -> "done"
    [] OTHER                    -> "error"
=============================================================================
