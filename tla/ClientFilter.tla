---------------------------- MODULE ClientFilter ----------------------------
(***************************************************************************)
(* The client address filter: server/client_filter.rs with the addresses   *)
(* and prefixes of util.rs.  An address is its family and a number of      *)
(* Width bits; a prefix as written is an address and the length after the  *)
(* slash, NoLength when there is none.  IPv4-mapped addresses are the IPv6 *)
(* addresses whose high bits are Mapped.                                   *)
(***************************************************************************)
EXTENDS Integers, Sequences

CONSTANTS
  Width,      \* bits of an address of each family: 32 and 128 in the code
  Mapped,     \* the high bits of ::ffff:0:0/96
  Addresses   \* reading of an address in a header or a list, by its text

ASSUME WidthAssumption ==
  /\ Width[4] \in Nat \ {0} /\ Width[6] \in Nat /\ Width[4] < Width[6]
  /\ Mapped \in 0..(2^(Width[6] - Width[4]) - 1)

NoLength == -1
NoAddress == [v |-> 0, n |-> 0]

IsAddress(addr) == addr \in [v : {4, 6}, n : Nat] /\ addr.n < 2^Width[addr.v]

\* The text of a header that is not readable as text.
Unreadable == <<"bytes">>

ASSUME AddressAssumption ==
  /\ \A text \in DOMAIN Addresses : IsAddress(Addresses[text])
  /\ Unreadable[1] \notin DOMAIN Addresses

\* unmap.
Unmap(addr) ==
  IF addr.v = 6 /\ addr.n \div 2^Width[4] = Mapped
    THEN [v |-> 4, n |-> addr.n % 2^Width[4]]
    ELSE addr

\* n & (MAX << shift) in w bits; a shift takes its distance modulo w.
HighBits(n, w, shift) == n - (n % 2^(shift % w))

MaskShiftingByWidth(addr, bits) ==
  [addr EXCEPT !.n = HighBits(addr.n, Width[addr.v], Width[addr.v] - bits)]

\* mask.
Mask(addr, bits) ==
  [addr EXCEPT !.n = IF bits = 0 THEN 0
                     ELSE HighBits(addr.n, Width[addr.v], Width[addr.v] - bits)]

\* IpPrefix::parse: the length is checked against the family as written, and
\* only an address without one is unmapped.
PrefixValid(p) == p.addr # NoAddress /\ p.length <= Width[p.addr.v]

ParsePrefix(p) ==
  IF p.length = NoLength
    THEN [addr |-> Unmap(p.addr), bits |-> Width[Unmap(p.addr).v]]
    ELSE [addr |-> Mask(p.addr, p.length), bits |-> p.length]

\* IpPrefix::contains and is_allowed.
PrefixContains(prefix, addr) ==
  /\ Unmap(addr).v = prefix.addr.v
  /\ Mask(Unmap(addr), prefix.bits) = prefix.addr

IsAllowed(prefixes, addr) ==
  \E i \in DOMAIN prefixes : PrefixContains(prefixes[i], addr)

\* parse_client_addr.
ParseClientAddr(text) ==
  IF text \in DOMAIN Addresses THEN Unmap(Addresses[text]) ELSE NoAddress

\* IpAddr's to_string.
ShowAddr(addr) == CHOOSE text \in DOMAIN Addresses : Addresses[text] = addr

\* The text of the first header of that name; Unreadable bytes are no text.
HeaderStr(headers, name) ==
  IF name \in DOMAIN headers /\ headers[name][1] # Unreadable THEN headers[name][1] ELSE <<>>

\* first_forwarded_for and client_addr.  A header's text is the sequence of
\* what its commas separate.
HeaderAddr(headers, name) ==
  IF HeaderStr(headers, name) = <<>> THEN NoAddress
  ELSE ParseClientAddr(HeaderStr(headers, name)[1])

\* x-real-ip is read whole: with a comma in it, it is no address.
RealIp(headers) ==
  IF Len(HeaderStr(headers, "x-real-ip")) = 1 THEN HeaderAddr(headers, "x-real-ip")
  ELSE NoAddress

ClientAddr(headers, remote, trust) ==
  CASE trust /\ HeaderAddr(headers, "x-forwarded-for") # NoAddress ->
         HeaderAddr(headers, "x-forwarded-for")
    [] trust /\ HeaderAddr(headers, "x-forwarded-for") = NoAddress
             /\ RealIp(headers) # NoAddress -> RealIp(headers)
    [] OTHER -> remote

-----------------------------------------------------------------------------
(* What a network is, by the bits of its addresses: for properties. *)

\* The i-th bit from the left of a number of w bits.
Bit(n, w, i) == (n \div 2^(w - i)) % 2

\* Whether a network as written has an address: by the bits they share.  The
\* client's address is unmapped, that of a network with a length is not.
Has(network, client) ==
  LET addr == IF network.length = NoLength THEN Unmap(network.addr) ELSE network.addr
      bits == IF network.length = NoLength THEN Width[addr.v] ELSE network.length
  IN  /\ addr.v = client.v
      /\ \A i \in 1..bits : Bit(addr.n, Width[addr.v], i) = Bit(client.n, Width[addr.v], i)
=============================================================================
