----------------------------- MODULE Addresses ------------------------------
(***************************************************************************)
(* Whose request it is (src/client_address.rs): the peer of the            *)
(* connection, or the address that trusted proxies report in a header that *)
(* the client may have begun.                                              *)
(*                                                                         *)
(* An address is a version and bits.  A header is the sequence of its      *)
(* tokens: marks, parameter names with their "=", and the names of         *)
(* addresses, of which the question says which address each one is.        *)
(***************************************************************************)
EXTENDS Questions

CONSTANTS
    W4, W6,         \* the widths of addresses
    Grouped,        \* the bits of an IPv6 address that one client has to itself
    MaxEntries,     \* MAX_FORWARDED_ENTRIES
    MaxLength       \* MAX_FORWARDED_BYTES, in tokens

ASSUME AddressesAssumption ==
    /\ {W4, W6, Grouped, MaxEntries, MaxLength} \subseteq Nat \ {0}
    /\ W4 < W6 /\ Grouped < W6

-----------------------------------------------------------------------------
(* Addresses and networks                                                   *)

IP(v, bits) == [v |-> v, bits |-> bits]
Width(a) == IF a.v = 4 THEN W4 ELSE W6
\* The IPv4-mapped addresses are the last of IPv6.
MappedFrom == 2 ^ W6 - 2 ^ W4
IsMapped(a) == a.v = 6 /\ a.bits >= MappedFrom
ToCanonical(a) == IF IsMapped(a) THEN IP(4, a.bits - MappedFrom) ELSE a
Masked(a, prefix) == LET span == 2 ^ (Width(a) - prefix) IN [a EXCEPT !.bits = (@ \div span) * span]

\* IpNetwork::parse and validate_trusted_proxies.  A prefix of -1 is none, of -2 is
\* no number.
ParseNetwork(e) ==
    LET prefix == IF e.prefix = -1 THEN Width(e.address) ELSE e.prefix IN
    IF \/ IsMapped(e.address) \/ prefix = -2 \/ prefix > Width(e.address)
       \/ Masked(e.address, prefix) # e.address \/ prefix = 0
    THEN {} ELSE {[address |-> e.address, prefix |-> prefix]}

Covers(n, a) ==
    LET c == ToCanonical(a) IN c.v = n.address.v /\ Masked(c, n.prefix) = n.address
IsTrusted(networks, a) == \E n \in networks : Covers(n, a)

\* rate_limit_source.
RateLimitSource(a) ==
    IF ToCanonical(a).v = 4 THEN ToCanonical(a) ELSE Masked(a, W6 - Grouped)

-----------------------------------------------------------------------------
(* The header                                                               *)

\* split_outside_quotes: the parts between the separators, or none at all when a
\* quoted string does not end.
ScanQuotes(text, separator) ==
    FoldLeft(LAMBDA s, t :
        IF ~s.escaped /\ ~s.quoted /\ t = separator
        THEN [s EXCEPT !.parts = Append(@, s.part), !.part = <<>>]
        ELSE [s EXCEPT !.part = Append(@, t), !.escaped = ~@ /\ s.quoted /\ t = "escape",
                       !.quoted = IF ~s.escaped /\ t = "quote" THEN ~@ ELSE @],
        [parts |-> <<>>, part |-> <<>>, quoted |-> FALSE, escaped |-> FALSE], text)

\* Mutant: a quoted string may end with the text.
SplitLeniently(text, separator) ==
    LET s == ScanQuotes(text, separator) IN <<Append(s.parts, s.part)>>

SplitOutsideQuotes(text, separator) ==
    LET s == ScanQuotes(text, separator) IN IF s.quoted THEN <<>> ELSE <<Append(s.parts, s.part)>>

\* parse_node: one address, perhaps with a port.
ParseNode(text, known) ==
    IF Len(text) \in 1 .. 2 /\ text[1] \in DOMAIN known /\ (Len(text) = 2 => text[2] = "port")
    THEN {known[text[1]]} ELSE {}

Unquoted(value) ==
    IF value = <<>> \/ value[1] # "quote" THEN {value}
    ELSE LET inner == SubSeq(value, 2, Len(value) - 1) IN
         IF Len(value) = 1 \/ Last(value) # "quote" \/ {"quote", "escape"} \cap ToSet(inner) # {}
         THEN {} ELSE {inner}

\* forwarded_for: pairs of a name and a value, one of which is that of "for".
ForwardedFor(element, known) ==
    LET pairs == SplitOutsideQuotes(element, ";")
        fors == SelectSeq(pairs[1], LAMBDA p : p # <<>> /\ p[1] = "for=")
    IN IF \/ pairs = <<>>
          \/ \E p \in ToSet(pairs[1]) : {"for=", "by="} \cap ToSet(p) = {}
          \/ Len(fors) # 1
       THEN {} ELSE UNION {ParseNode(v, known) : v \in Unquoted(Tail(fors[1]))}

\* The instances of the header make one list; one that is too long makes none.
Combined(instances) ==
    FoldLeft(LAMBDA c, text :
        IF c = <<>> \/ "other" \in ToSet(text) \/ Len(c[1]) + Len(text) + 1 > MaxLength THEN <<>>
        ELSE <<IF c[1] = <<>> THEN text ELSE c[1] \o <<",">> \o text>>, <<<<>>>>, instances)

\* forwarded_client: from the last entry to the first, past the trusted ones.
ClientAtBack(nodes, networks) ==
    LET stops == {i \in DOMAIN nodes : \A a \in nodes[i] : ~IsTrusted(networks, a)}
    IN IF stops = {} THEN {} ELSE {ToCanonical(a) : a \in nodes[Max(stops)]}

ForwardedClient(q) ==
    LET text == Combined(q.instances)
        entries == SplitOutsideQuotes(text[1], ",")
        Node(e) == IF q.header = "forwarded" THEN ForwardedFor(e, q.known) ELSE ParseNode(e, q.known)
    IN IF text = <<>> \/ text = <<<<>>>> \/ entries = <<>> THEN {}
       ELSE IF Len(entries[1]) > MaxEntries THEN {}
       ELSE ClientAtBack([i \in DOMAIN entries[1] |-> Node(entries[1][i])], q.networks)

\* client_address.
ClientAddress(q) ==
    LET peer == ToCanonical(q.peer)
        found == ForwardedClient(q)
    IN IF ~IsTrusted(q.networks, peer) \/ found = {} THEN peer ELSE CHOOSE a \in found : TRUE

\* sign_in_source.
ResolveAddress ==
    /\ Asked("address")
    /\ Reply([pc |-> "done", address |-> ClientAddress(question),
              source |-> RateLimitSource(ClientAddress(question))])

\* server.trusted_proxies is checked, and holds an address or not.
CheckNetwork ==
    /\ Asked("network")
    /\ Reply([pc |-> "done", networks |-> ParseNetwork(question.entry),
              trusts |-> IsTrusted(ParseNetwork(question.entry), question.address)])

AddressStep == ResolveAddress \/ CheckNetwork

-----------------------------------------------------------------------------
(* The proxies, as they are used                                            *)

\* A proxy adds the address that it was asked from to what it was sent: to the
\* header that there is, or as another one.
Element(q, name) ==
    IF q.header = "xff" THEN <<name>>
    ELSE IF q.style = "quoted" THEN <<"for=", "quote", name, "quote">>
    ELSE <<"for=", name, ";", "by=", "proxy">>
Forwarded(q, begun) ==
    LET named == IF q.proxies = 1 THEN <<"client">> ELSE <<"client", "inner">>
        added == FoldLeft(LAMBDA t, n : (IF t = <<>> THEN <<>> ELSE Append(t, ",")) \o Element(q, n),
                          <<>>, named)
    IN IF begun = <<>> THEN <<added>>
       ELSE IF q.separate THEN <<begun, added>> ELSE <<begun \o <<",">> \o added>>

-----------------------------------------------------------------------------
(* Properties                                                               *)

\* The bits of an address, first to last.
Bit(a, i) == (a.bits \div 2 ^ (Width(a) - i)) % 2

\* Whatever the client began the header with, a request that came through trusted
\* proxies is the client's or, when the header makes no sense, the peer's, never of
\* an address that the client chose; it is the client's when it began nothing; and a
\* network that may be configured trusts the addresses that share its bits alone
\* (client_address.rs, client_address and forwarded_client).
ClientIsNotForged ==
    /\ Done("address") =>
         LET client == ToCanonical(question.known["client"])
             peer == ToCanonical(question.peer)
         IN /\ Now.address \in {client, peer}
            /\ question.begun = <<>> => Now.address = client
            /\ Now.source \in {RateLimitSource(client), RateLimitSource(peer)}
    /\ Done("network") =>
         (Now.trusts <=> \E n \in Now.networks : LET a == ToCanonical(question.address) IN
             /\ a.v = n.address.v
             /\ \A i \in 1 .. n.prefix : Bit(a, i) = Bit(n.address, i))

=============================================================================
