---------------------------- MODULE ResourceUrl ----------------------------
(***************************************************************************)
(* Media URLs: how rewrite_url (rewrite.rs) turns one into a /_proxy/ URL  *)
(* of this proxy, and how proxy_resource (server/route.rs) finds scheme,   *)
(* host and path in it again.  URLs are sequences of symbols as in         *)
(* JsonScan, with one symbol per percent escape ("%20"; "%" alone begins a *)
(* malformed one), per fixed path segment ("_proxy", "http", "https") and  *)
(* for the signature segment ("sig"), whose signed pair of scheme and host *)
(* is kept beside the path.                                                *)
(***************************************************************************)
EXTENDS Integers, Sequences
LOCAL INSTANCE SequencesExt

CONSTANT PublicPath  \* path of the route's public URL, decoded

\* The outcomes of rewrite_url and proxy_resource that are not a URL.
NotRewritten == [ok |-> FALSE, status |-> 0]
Refused(status) == [ok |-> FALSE, status |-> status]
SentUpstream == [ok |-> FALSE, status |-> 200]

Unsigned == <<>>

-----------------------------------------------------------------------------
(* Splitting: Before and After the first c, the whole and nothing without. *)

First(s, c) == SelectInSeq(s, LAMBDA x : x = c)

Before(s, c) == IF First(s, c) = 0 THEN s ELSE SubSeq(s, 1, First(s, c) - 1)

After(s, c) == IF First(s, c) = 0 THEN <<>> ELSE SubSeq(s, First(s, c) + 1, Len(s))

AfterLast(s, c) == SubSeq(s, SelectLastInSeq(s, LAMBDA x : x = c) + 1, Len(s))

\* trim_start_matches('/') and trim_matches('/').
TrimStart(s) ==
  LET i == SelectInSeq(s, LAMBDA x : x # "/")
  IN  IF i = 0 THEN <<>> ELSE SubSeq(s, i, Len(s))

Trim(s) == SubSeq(TrimStart(s), 1, SelectLastInSeq(TrimStart(s), LAMBDA x : x # "/"))

-----------------------------------------------------------------------------
(* Percent escapes. *)

\* Characters escape_path escapes, with their escapes.
Escaped == {<<" ", "%20">>, <<"%", "%25">>, <<"?", "%3F">>, <<"#", "%23">>,
            <<"[", "%5B">>, <<"]", "%5D">>, <<"!", "%21">>, <<"\"", "%22">>,
            <<"\\", "%5C">>, <<"chr", "%chr">>, <<"astral", "%astral">>,
            <<"fffd", "%fffd">>}

\* Escapes of characters that escape_path leaves alone, and of a byte that is
\* not UTF-8, which percent_decode replaces.
OtherEscapes == {<<"/", "%2F">>, <<"x", "%78">>, <<"fffd", "%FF">>}

Escapes == Escaped \cup OtherEscapes

IsEscape(c) == \E e \in Escapes : e[2] = c

EscapeChar(c) ==
  IF \E e \in Escaped : e[1] = c THEN (CHOOSE e \in Escaped : e[1] = c)[2] ELSE c

UnescapeChar(c) ==
  IF IsEscape(c) THEN (CHOOSE e \in Escapes : e[2] = c)[1] ELSE c

\* escape_path.
EscapePath(s) == [i \in 1..Len(s) |-> EscapeChar(s[i])]

\* percent_decode of a path, when WellEscaped.
WellEscaped(s) == ~Contains(s, "%")
PercentDecode(s) == [i \in 1..Len(s) |-> UnescapeChar(s[i])]

-----------------------------------------------------------------------------
(* rewrite_url *)

UrlDigits == {"0", "1", "2", "8"}

PortOk(port) ==
  port = <<>> \/ (port[1] = ":" /\ \A i \in 2..Len(port) : port[i] \in UrlDigits)

\* valid_host.
ValidHost(host) ==
  /\ host # <<>>
  /\ \A i \in 1..Len(host) : ~IsEscape(host[i]) /\ host[i] \notin {"%", " ", "\"", "\\"}
  /\ LET bracket == First(host, "]")
         colon == SelectLastInSeq(host, LAMBDA x : x = ":")
     IN  IF host[1] = "["
           THEN bracket # 0 /\ PortOk(SubSeq(host, bracket + 1, Len(host)))
           ELSE colon = 0 \/ PortOk(SubSeq(host, colon, Len(host)))

\* join_url_path: outer slashes of a part go, and so do empty parts.
JoinUrlPath(parts) ==
  LET kept == SelectSeq([i \in 1..Len(parts) |-> Trim(parts[i])], LAMBDA p : p # <<>>)
  IN  FlattenSeq([i \in 1..Len(kept) |-> <<"/">> \o kept[i]])

\* The parts of an absolute URL, without its fragment.
UrlScheme(raw) == IF raw[1] = "https:" THEN "https" ELSE "http"
UrlRest(raw) == Before(SubSeq(raw, 4, Len(raw)), "#")
UrlQuery(raw) == After(UrlRest(raw), "?")
UrlAuthority(raw) == Before(Before(UrlRest(raw), "?"), "/")
UrlHostWithUser(raw) == UrlAuthority(raw)
UrlHost(raw) == AfterLast(UrlAuthority(raw), "@")
UrlPath(raw) == LET rest == Before(UrlRest(raw), "?")
                IN  SubSeq(rest, Len(UrlAuthority(raw)) + 1, Len(rest))

\* rewrite_url of a URL that keeps the query and loses user and fragment.
RewriteUrl(raw, signed) ==
  LET scheme == UrlScheme(raw)
      host == UrlHost(raw)
      segments == <<PublicPath, <<"_proxy">>>> \o (IF signed THEN <<<<"sig">>>> ELSE <<>>)
                    \o <<<<scheme>>, host, TrimStart(PercentDecode(UrlPath(raw)))>>
  IN  IF Contains(raw, "ctl") \/ ~ValidHost(host) \/ ~WellEscaped(UrlPath(raw))
        THEN NotRewritten
        ELSE [ok |-> TRUE, scheme |-> scheme, host |-> host,
              path |-> EscapePath(JoinUrlPath(segments)),
              query |-> UrlQuery(raw),
              sig |-> IF signed THEN <<scheme, host>> ELSE Unsigned]

-----------------------------------------------------------------------------
(* route_request and proxy_resource *)

IsHttpScheme(s) == s \in {<<"http">>, <<"https">>}

\* The path after RESOURCE_PREFIX is split at slashes: signature, scheme and
\* host.  A signed URL needs the signature of this very scheme and host; a
\* session's token, which an unsigned one needs, is taken as given.
ProxyResource(path, query, sig, signed, hosts) ==
  LET rest == SubSeq(path, 4, Len(path))
      first == Before(rest, "/")
      skip == signed /\ ~IsHttpScheme(first) /\ First(rest, "/") # 0
      tail == IF skip THEN After(rest, "/") ELSE rest
      scheme == Before(tail, "/")
      remainder == After(tail, "/")
      host == Before(remainder, "/")
  IN  CASE First(tail, "/") = 0 \/ ~IsHttpScheme(scheme) -> Refused(400)
        [] First(remainder, "/") = 0 \/ host = <<>> -> Refused(400)
        [] signed /\ ~IsHttpScheme(first) /\ sig # <<scheme[1], host>> -> Refused(403)
        [] host \notin hosts -> Refused(403)
        [] OTHER -> [ok |-> TRUE, scheme |-> scheme[1], host |-> host,
                     path |-> <<"/">> \o After(remainder, "/"), query |-> query]

\* route_request: what is not below RESOURCE_PREFIX is no resource and goes to
\* the media server as it is.
RouteRequest(path, query, sig, signed, hosts) ==
  IF SubSeq(path, 1, 3) = <<"/", "_proxy", "/">>
    THEN ProxyResource(path, query, sig, signed, hosts)
    ELSE SentUpstream
=============================================================================
