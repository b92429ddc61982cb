----------------------------- MODULE ClientAddress -----------------------------
(***************************************************************************)
(* Whose request it is: what src/libs/util.rs makes of the connection's    *)
(* peer address and of the X-Forwarded-For lines that came with it.        *)
(***************************************************************************)
EXTENDS Naturals, Sequences

\* Peer addresses of the connection: loopback as IPv4, IPv6 and IPv4-mapped
\* IPv6, and an address that is not our proxy.
Peers == {"v4", "v6", "mapped", "direct"}

TrustedProxies == {"v4", "v6"}

to_canonical(peer) == IF peer = "mapped" THEN "v4" ELSE peer

\* Mutant: the peer address is compared as it was reported.
is_trusted_proxy_Raw(peer) == peer \in TrustedProxies

is_trusted_proxy(peer) == to_canonical(peer) \in TrustedProxies

-----------------------------------------------------------------------------
(* A header line: whether its bytes are visible ASCII (to_str), and what    *)
(* stands between its commas.  "junk" parses as no address; splitting gives *)
(* at least one element, so that no line is without elements.               *)

Lines(addresses) ==
    [readable : BOOLEAN, elements : Seq(addresses \cup {"junk"}) \ {<<>>}]

\* Mutant: the header's text is passed on whether it is an address or not.
client_ip_AsText(peer, lines) ==
    IF ~is_trusted_proxy(peer) \/ lines = <<>> THEN to_canonical(peer)
    ELSE LET e == lines[Len(lines)].elements IN e[Len(e)]

\* Mutant: the first line only, as HeaderMap::get returns it.
client_ip_FirstLine(peer, lines) ==
    IF ~is_trusted_proxy(peer) \/ lines = <<>> THEN to_canonical(peer)
    ELSE LET e == lines[1].elements IN
         IF ~lines[1].readable \/ e[Len(e)] = "junk" THEN to_canonical(peer) ELSE e[Len(e)]

Readable(lines) == {i \in DOMAIN lines : lines[i].readable}

\* The last element of the chain that all readable lines make together, which
\* is the last of the last readable line: TRUSTED_HOPS is 1.
VouchedElement(lines) ==
    LET elements == lines[CHOOSE i \in Readable(lines) : \A j \in Readable(lines) : j <= i].elements
    IN  elements[Len(elements)]

client_ip(peer, lines) ==
    IF ~is_trusted_proxy(peer) \/ Readable(lines) = {} \/ VouchedElement(lines) = "junk"
    THEN to_canonical(peer)
    ELSE VouchedElement(lines)
===============================================================================
