------------------------------ MODULE Headers ------------------------------
(***************************************************************************)
(* The headers of a forwarded request: the hop-by-hop rules of             *)
(* server/mod.rs and what proxy_upstream (server/route.rs) adds and takes  *)
(* away.  A header map is a function from lower-case names to the values   *)
(* of that name, each the sequence of what its commas separate.            *)
(***************************************************************************)
EXTENDS SequencesExt

CONSTANT LowerCase   \* to_ascii_lowercase of the texts that have capitals

ASSUME LowerAssumption == "" \notin DOMAIN LowerCase

Lower(t) == IF t \in DOMAIN LowerCase THEN LowerCase[t] ELSE t

HopByHop == {"connection", "proxy-connection", "keep-alive", "proxy-authenticate",
             "proxy-authorization", "te", "trailer", "transfer-encoding", "upgrade"}

IdentityHeaders == {"forwarded", "via", "x-forwarded-for", "x-forwarded-host",
                    "x-forwarded-proto", "x-forwarded-protocol", "x-forwarded-ssl",
                    "x-real-ip"}

\* HeaderMap::remove, insert and get_all.
Without(headers, names) == [h \in DOMAIN headers \ names |-> headers[h]]
Put(headers, name, all) ==
  [h \in DOMAIN headers \cup {name} |-> IF h = name THEN all ELSE headers[h]]
Insert(headers, name, value) == Put(headers, name, <<<<value>>>>)
Tokens(headers, name) ==
  IF name \in DOMAIN headers THEN ToSet(FlattenSeq(headers[name])) ELSE {}

\* header_values_contain_token.
ContainsToken(headers, name, token) ==
  \E t \in Tokens(headers, name) : Lower(t) = token

\* upgrade_type: <<>> when no upgrade is requested.
UpgradeType(headers) ==
  IF ContainsToken(headers, "connection", "upgrade") /\ "upgrade" \in DOMAIN headers
    THEN headers["upgrade"][1] ELSE <<>>

\* remove_hop_by_hop: what Connection names is read before Connection goes.
Named(headers) == {Lower(t) : t \in Tokens(headers, "connection")}

RemoveHopByHopFirst(headers) ==
  LET rest == Without(headers, HopByHop) IN Without(rest, Named(rest))

RemoveHopByHop(headers) == Without(Without(headers, Named(headers)), HopByHop)

\* prepare_outbound_headers.
PrepareOutbound(headers, upgrade) ==
  LET bare == RemoveHopByHop(headers)
      te == IF ContainsToken(headers, "te", "trailers") THEN Insert(bare, "te", "trailers")
            ELSE bare
      up == IF upgrade = <<>> THEN te
            ELSE Put(Insert(te, "connection", "Upgrade"), "upgrade", <<upgrade>>)
  IN  Without(up, {"forwarded", "x-forwarded-for", "x-forwarded-host",
                   "x-forwarded-proto", "host"})

ForwardedFor(headers, own) ==
  Insert(Insert(Insert(headers, "x-forwarded-for", own.addr),
                "x-forwarded-host", own.host),
         "x-forwarded-proto", own.proto)

OutboundHeadersAddingNone(headers, hide, own, buffered) ==
  LET out == PrepareOutbound(headers, UpgradeType(headers))
      id == IF hide THEN out ELSE ForwardedFor(out, own)
  IN  IF buffered THEN Without(id, {"accept-encoding"}) ELSE id

\* The headers proxy_upstream sends: its own forwarding headers, or no
\* identity headers at all; a body it will read comes unencoded.
OutboundHeaders(headers, hide, own, buffered) ==
  LET out == PrepareOutbound(headers, UpgradeType(headers))
      id == IF hide THEN Without(out, IdentityHeaders) ELSE ForwardedFor(out, own)
  IN  IF buffered THEN Without(id, {"accept-encoding"}) ELSE id
=============================================================================
