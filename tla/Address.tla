------------------------------ MODULE Address -------------------------------
(***************************************************************************)
(* sws::Address: its conversions from and to the native form, and its      *)
(* string representation.  Texts are sequences of characters.              *)
(*                                                                         *)
(* A native address has a family, a host, a port in network byte order and *)
(* a scope, which tells interfaces apart that have link-local addresses.   *)
(* A host is written as inet_ntop writes it.                               *)
(***************************************************************************)
EXTENDS Integers, Sequences

CONSTANTS
  InetHosts,   \* the IPv4 hosts
  Inet6Hosts,  \* the IPv6 hosts
  PortRadix    \* values of a byte of a port; 256 in the code

\* The characters of numbers.
Numerals == <<"0", "1", "2", "3", "4", "5", "6", "7", "8", "9">>
Decimals == {Numerals[i] : i \in 1 .. 10}
Hexes    == Decimals \cup {"a", "b", "c", "d", "e", "f"}
               \cup {"A", "B", "C", "D", "E", "F"}

\* The texts that inet_ntop writes.  Of an IPv6 host it writes groups of digits
\* with colons between them, a pair of colons for the longest run of zeros, and
\* it may write the last four bytes with dots, like an IPv4 host.
InetText(c)  == c \in Seq(Decimals \cup {"."})
Inet6Text(c) ==
  /\ c \in Seq(Hexes \cup {":", "."})
  /\ \E i, j \in DOMAIN c : i < j /\ c[i] = ":" /\ c[j] = ":"
  /\ \A i \in 1 .. Len(c) - 2 : ~(c[i] = ":" /\ c[i + 1] = ":" /\ c[i + 2] = ":")
  /\ \A i, j \in DOMAIN c : c[i] = "." /\ c[j] = ":" => j < i

\* A port has 16 bits.
ASSUME AddressAssumption ==
  /\ PortRadix \in Nat
  /\ PortRadix >= 2 /\ PortRadix <= 256
  /\ \A c \in InetHosts  : InetText(c)
  /\ \A c \in Inet6Hosts : Inet6Text(c)

Ports == 0 .. PortRadix * PortRadix - 1

htons(n) == <<n \div PortRadix, n % PortRadix>>
ntohs(b) == PortRadix * b[1] + b[2]

HostsOf(family) == CASE family = "inet"  -> InetHosts
                     [] family = "inet6" -> Inet6Hosts
                     [] OTHER            -> {}

\* A default Address: no family.
DefaultAddress == [address |-> << >>, port |-> 0, family |-> "none"]

Native(family, host, port, scope) ==
  [family |-> family, host |-> host, port |-> htons(port), scope |-> scope]

\* Whatever the stack hands out has the four fields, and two bytes of port.
PortByte    == 0 .. PortRadix - 1
IsNative(n) ==
  /\ n = [family |-> n.family, host |-> n.host, port |-> n.port, scope |-> n.scope]
  /\ n.port \in PortByte \X PortByte

-----------------------------------------------------------------------------
(* Conversions.                                                            *)

\* Mutant: the port stays in network byte order.
PortUnswapped(n) ==
  [address |-> n.host, port |-> PortRadix * n.port[2] + n.port[1],
   family |-> n.family]

\* Only families that HostsOf knows are converted; others throw.
Supported(n)   == n.family \in {"inet", "inet6"}
from_native(n) == [address |-> n.host, port |-> ntohs(n.port),
                   family |-> n.family]

\* inet_pton takes what inet_ntop writes, and not the name of a host; the
\* other fields of sockaddr_in6, the scope among them, stay zero.
Translatable(a) == a.address \in HostsOf(a.family)
to_native(a)    == Native(a.family, a.address, a.port, 0)

\* What the natives that getaddrinfo found become: one that cannot be converted
\* makes the whole call throw.
get_addresses(found) ==
  [threw     |-> \E i \in DOMAIN found : ~Supported(found[i]),
   addresses |-> [i \in DOMAIN found |-> from_native(found[i])]]

\* The address with the name that getnameinfo found for it.
get_name(a, name) == [a EXCEPT !.address = name]

-----------------------------------------------------------------------------
(* Text.                                                                   *)

\* The digits of a port, and as many of them as it takes.
Tens       == <<1, 10, 100, 1000, 10000>>
Width(n)   == CHOOSE w \in 1 .. 5 : n < 10 * Tens[w] /\ (w = 1 \/ n >= Tens[w])
Decimal(n) == [i \in 1 .. Width(n) |->
                 Numerals[((n \div Tens[Width(n) + 1 - i]) % 10) + 1]]

\* The loops of is_numeric look at the characters only: no dot in front of the
\* first digit, no other characters, and at least one digit.
is_numeric(a) ==
  LET c == a.address
  IN CASE a.family = "inet" ->
            /\ \A i \in DOMAIN c :
                 \/ c[i] \in Decimals
                 \/ c[i] = "." /\ \E j \in 1 .. i - 1 : c[j] \in Decimals
            /\ \E i \in DOMAIN c : c[i] \in Decimals
       [] a.family = "inet6" ->
            /\ \A i \in DOMAIN c : c[i] \in Hexes \cup {":"}
            /\ \E i \in DOMAIN c : c[i] \in Hexes
       [] OTHER -> FALSE

\* Mutant: an IPv6 address is written like any other.
PlainString(a) ==
  IF a.port = 0 THEN a.address ELSE a.address \o <<":">> \o Decimal(a.port)

to_string(a) ==
  IF a.port = 0 THEN a.address
  ELSE IF a.family = "inet6" /\ is_numeric(a)
         THEN <<"[">> \o a.address \o <<"]", ":">> \o Decimal(a.port)
         ELSE a.address \o <<":">> \o Decimal(a.port)
=============================================================================
