---------------------------- MODULE RequestRules ----------------------------
(***************************************************************************)
(* What the proxy reads in a request line: the path rules of               *)
(* server/auth_gate.rs, server/route.rs and stats.rs, the access token     *)
(* (auth.rs), and the query with its form in the logs (util.rs).  A path   *)
(* is what its slashes separate after the first.  A query is what its      *)
(* ampersands separate: a key, a value and whether "=" is between them,    *)
(* both sequences of symbols with one symbol per percent escape ("%" alone *)
(* begins a malformed one).                                                *)
(***************************************************************************)
EXTENDS Integers, Headers, Orders

CONSTANTS
  ByteOrder,   \* the symbols of queries in the order of their bytes
  TokenWords   \* words token="value" of Authorization headers: their values

ASSUME ByteOrderAssumption == ByteOrder \in Seq(STRING)

-----------------------------------------------------------------------------
(* Paths *)

LowerAll(s) == [i \in DOMAIN s |-> Lower(s[i])]

Suffix(s, i) == SubSeq(s, i, Len(s))

\* trim_matches('/').
TrimSlashes(path) ==
  LET first == SelectInSeq(path, LAMBDA s : s # "")
  IN  IF first = 0 THEN <<>>
      ELSE SubSeq(path, first, SelectLastInSeq(path, LAMBDA s : s # ""))

\* emby_path_segments.
EmbyPathSegments(path) ==
  LET segments == LowerAll(TrimSlashes(path))
  IN  IF segments # <<>> /\ segments[1] \in {"emby", "mediabrowser"} THEN Tail(segments)
      ELSE segments

MatchSegments(segments, want) ==
  /\ Len(segments) = Len(want)
  /\ \A i \in DOMAIN want : want[i] = "*" \/ segments[i] = want[i]

LoginSegments(segments) ==
  \/ MatchSegments(segments, <<"users", "authenticatebyname">>)
  \/ MatchSegments(segments, <<"users", "*", "authenticate">>)

IsLoginPathAtRoot(path) == LoginSegments(EmbyPathSegments(path))

\* is_login_path.
IsLoginPath(path) ==
  LET segments == EmbyPathSegments(path)
  IN  \E i \in DOMAIN segments : LoginSegments(Suffix(segments, i))

PublicPaths ==
  {<<"favicon.ico">>, <<"system", "info", "public">>, <<"system", "ping">>,
   <<"users", "authenticatebyname">>, <<"users", "*", "authenticate">>,
   <<"branding", "configuration">>, <<"branding", "css">>, <<"branding", "css.css">>}

\* is_public_emby_path.
IsPublicEmbyPath(method, segments) ==
  \/ segments = <<>>
  \/ \E want \in PublicPaths : MatchSegments(segments, want)
  \/ segments[1] = "web"
  \/ method \in {"GET", "HEAD"} /\ Contains(segments, "images")

\* is_playback_info_path, RESOURCE_PREFIX and classify.
IsPlaybackInfoPath(path) == Contains(LowerAll(path), "playbackinfo")

IsResourcePath(path) == Len(path) > 1 /\ path[1] = "_proxy"

Classify(path) ==
  LET segments == LowerAll(SelectSeq(path, LAMBDA s : s # ""))
      rest == IF segments # <<>> /\ segments[1] \in {"emby", "mediabrowser"}
                THEN Tail(segments) ELSE segments
      marks == SelectSeq(Suffix(rest, 2), LAMBDA s : s \in {"images", "download"})
  IN  CASE IsResourcePath(path) -> "media"
        [] ~IsResourcePath(path) /\ rest = <<>> -> "api"
        [] ~IsResourcePath(path) /\ rest # <<>> /\ rest[1] \in {"videos", "audio"} -> "media"
        [] OTHER -> CASE marks = <<>> -> "api"
                      [] marks # <<>> /\ marks[1] = "images" -> "image"
                      [] OTHER -> "media"

\* join_path, of a base path and a request path, which starts with a slash.
JoinPath(base, path) ==
  IF base # <<>> /\ Last(base) = "" THEN Front(base) \o path ELSE base \o path

-----------------------------------------------------------------------------
(* Queries *)

EscapedByte == [s \in {" ", "%", "&", "+", ";", "="} |->
                  CASE s = " " -> "%20" [] s = "%" -> "%25" [] s = "&" -> "%26"
                    [] s = "+" -> "%2B" [] s = ";" -> "%3B" [] OTHER -> "%3D"]

Unescaped(c) ==
  CASE \E s \in DOMAIN EscapedByte : EscapedByte[s] = c ->
         CHOOSE s \in DOMAIN EscapedByte : EscapedByte[s] = c
    [] c = "+" -> " "
    [] OTHER -> c

\* percent_decode with '+' for a space, and query_escape.
WellEscapedQuery(s) == ~Contains(s, "%")
QueryDecode(s) == [i \in DOMAIN s |-> Unescaped(s[i])]

EscapeByte(c) ==
  CASE c = " " -> "+"
    [] c \in DOMAIN EscapedByte /\ c # " " -> EscapedByte[c]
    [] OTHER -> c
QueryEscapeKeepingPlus(s) == [i \in DOMAIN s |-> IF s[i] = "+" THEN "+" ELSE EscapeByte(s[i])]

QueryEscape(s) == [i \in DOMAIN s |-> EscapeByte(s[i])]

\* parse_query: the parts that give its pairs, and whether one was malformed.
PartValid(part) ==
  /\ ~Contains(part.key, ";") /\ ~Contains(part.value, ";")
  /\ WellEscapedQuery(part.key) /\ WellEscapedQuery(part.value)

PartEmpty(part) == part.key = <<>> /\ part.value = <<>> /\ ~part.eq

PartKept(part) == ~PartEmpty(part) /\ PartValid(part)

Pair(part) == [key |-> QueryDecode(part.key), value |-> QueryDecode(part.value)]

Malformed(query) == \E i \in DOMAIN query : ~PartEmpty(query[i]) /\ ~PartValid(query[i])

SensitiveQueryKeys ==
  {<<"api", "_", "key">>, <<"api", "key">>, <<"access", "_", "token">>, <<"token">>,
   <<"auth">>, <<"password">>}

Sensitive(key) == LowerAll(key) \in SensitiveQueryKeys

\* The order of byte strings.
Position(c) == SelectInSeq(ByteOrder, LAMBDA b : b = c)

KeyBefore(a, b) ==
  \E n \in {m \in 0..Len(a) : m < Len(b)} :
    /\ \A m \in 1..n : a[m] = b[m]
    /\ n < Len(a) => Position(a[n + 1]) < Position(b[n + 1])

\* sanitize_raw_query: of a sensitive key only the first pair stays, redacted;
\* the pairs are sorted by key, and stay in order where keys are the same.
Retained(query) ==
  {i \in DOMAIN query :
     /\ PartKept(query[i])
     /\ Sensitive(Pair(query[i]).key) =>
          \A j \in 1..(i - 1) : PartKept(query[j]) => Pair(query[j]).key # Pair(query[i]).key}

SortedByKey(query) ==
  {p \in Retained(query) \X Retained(query) :
     LET a == Pair(query[p[1]]).key
         b == Pair(query[p[2]]).key
     IN  KeyBefore(a, b) \/ (a = b /\ p[1] < p[2])}

LogPart(part) ==
  LET pair == Pair(part)
  IN  [key |-> QueryEscape(pair.key), eq |-> TRUE,
       value |-> QueryEscape(IF Sensitive(pair.key) THEN <<"redacted">> ELSE pair.value)]

SanitizeRawQuery(query) ==
  LET order == InOrder(Retained(query), SortedByKey(query))
  IN  IF Malformed(query) THEN query ELSE [k \in DOMAIN order |-> LogPart(query[order[k]])]

\* What a query says: the keys it names, and the values it gives one of them.
KeysOf(query) == {Pair(query[i]).key : i \in {j \in DOMAIN query : PartKept(query[j])}}

ValuesOf(query, key) ==
  LET given == {i \in DOMAIN query : PartKept(query[i]) /\ Pair(query[i]).key = key}
      place == InOrder(given, Less(given))
  IN  [k \in DOMAIN place |-> Pair(query[place[k]]).value]

\* join_query, of the upstream URL's query and the request's.
JoinQuery(base, query) == base \o query

-----------------------------------------------------------------------------
(* The access token: request_token *)

NoToken == <<>>

TokenQueryKeys ==
  {<<"api", "_", "key">>, <<"api", "key">>, <<"x-emby-token">>, <<"x-mediabrowser-token">>}

\* The first header of a name, when it is text that is not blank.
HeaderTokenEvenBlank(headers, name) ==
  IF name \in DOMAIN headers /\ headers[name][1] # <<"bytes">>
    THEN headers[name][1] ELSE NoToken

HeaderToken(headers, name) ==
  IF name \in DOMAIN headers /\ headers[name][1] \notin {<<"bytes">>, <<"">>, <<" ">>}
    THEN headers[name][1] ELSE NoToken

\* authorization_token: the words of the header are what begins after a space,
\* a tab or a comma, inside quotes too; the first that gives a token has it.
AuthorizationToken(headers, name) ==
  LET words == IF name \in DOMAIN headers THEN headers[name][1] ELSE <<>>
      i == SelectInSeq(words, LAMBDA w : w \in DOMAIN TokenWords /\ TokenWords[w] # "")
  IN  IF i = 0 THEN NoToken ELSE <<TokenWords[words[i]]>>

\* The first of parse_query's pairs that gives a token.
QueryToken(query) ==
  LET i == SelectInSeq(query, LAMBDA p : /\ PartKept(p)
                                         /\ LowerAll(Pair(p).key) \in TokenQueryKeys
                                         /\ Pair(p).value \notin {<<>>, <<" ">>})
  IN  IF i = 0 THEN NoToken ELSE Pair(query[i]).value

RequestToken(headers, query) ==
  LET places == <<HeaderToken(headers, "x-emby-token"),
                  HeaderToken(headers, "x-mediabrowser-token"),
                  AuthorizationToken(headers, "x-emby-authorization"),
                  AuthorizationToken(headers, "authorization"),
                  QueryToken(query)>>
      i == SelectInSeq(places, LAMBDA t : t # NoToken)
  IN  IF i = 0 THEN NoToken ELSE places[i]
=============================================================================
