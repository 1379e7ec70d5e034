-------------------------- MODULE DatagramService ---------------------------
(***************************************************************************)
(* What UDP sockets promise programs that exchange packets: a packet that  *)
(* is received was posted to the end that receives it, whole, by the end   *)
(* that its address names; a reply to that address goes there; and what is *)
(* not a packet leaves the packet that a program holds as it is.  Packets  *)
(* may be lost, doubled and reordered.                                     *)
(***************************************************************************)

CONSTANTS
  Ends,     \* the ends that receive
  Bodies,   \* the payloads that packets may have
  Outside   \* everybody else; an address that names nobody is theirs

VARIABLES
  transit,  \* the packets under way: who posted them, to whom, the payload
  held,     \* the payload each end holds
  heard     \* whom an end's address names

dvars == <<transit, held, heard>>

Nothing == transit = {} /\ held = [e \in Ends |-> << >>]

\* A packet is posted to whom the address of its end names.  It may be lost.
Post(e, body) ==
  /\ transit' \in {transit, transit \cup
                     {[from |-> e, to |-> heard[e], body |-> body]}}
  /\ UNCHANGED <<held, heard>>

\* Others post what they like.
PostOutside(e, body) ==
  /\ transit' = transit \cup {[from |-> Outside, to |-> e, body |-> body]}
  /\ UNCHANGED <<held, heard>>

\* A packet is received; the network may keep a copy of it.
Take(m) ==
  /\ transit' \in {transit, transit \ {m}}
  /\ held'    = [held EXCEPT ![m.to] = m.body]
  /\ heard'   = [heard EXCEPT ![m.to] = m.from]

Lose(m) == transit' = transit \ {m} /\ UNCHANGED <<held, heard>>

\* Somebody sent what is not a packet: nothing is learnt but that.
Noise(e) ==
  /\ heard' = [heard EXCEPT ![e] = Outside]
  /\ UNCHANGED <<transit, held>>

\* A program turns to somebody else, or starts a packet over.
Turn(e, whom) == heard' = [heard EXCEPT ![e] = whom] /\ UNCHANGED <<transit, held>>

Serve ==
  \/ \E e \in Ends, body \in Bodies : Post(e, body) \/ PostOutside(e, body)
  \/ \E m \in transit : Lose(m) \/ (m.to \in Ends /\ Take(m))
  \/ \E e \in Ends : Noise(e) \/ \E whom \in Ends : Turn(e, whom)

ServiceSpec == Nothing /\ [][Serve]_dvars
=============================================================================
