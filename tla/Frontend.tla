------------------------------ MODULE Frontend ------------------------------
(***************************************************************************)
(* From the command line to the upstream request: a process loads its      *)
(* configuration (Config) and answers requests with it, through            *)
(* Server::handle (server/mod.rs), the client filter, the paths and tokens *)
(* of the allowed-users check and the headers of proxy_upstream            *)
(* (server/route.rs).  Sessions are in AuthGate, resource URLs in          *)
(* ResourceUrl: here one token is valid, and a resource request is handed  *)
(* on.                                                                     *)
(***************************************************************************)
EXTENDS Config, RequestRules

CONSTANTS
  HostTexts,       \* texts of hosts: their symbols
  ValidToken,      \* the token of a session of every route
  RequestsFor(_)   \* the requests a configuration is tried on

\* handle_login keeps no empty token.
ASSUME TokenAssumption == ValidToken # NoToken

VARIABLES
  request,    \* being answered
  answer      \* to it

frontendVars == <<configVars, request, answer>>

Idle == <<>>

Init ==
  /\ ConfigInit
  /\ request = Idle
  /\ answer = Idle

\* A request as it is received: segments of a path, the address of a connection,
\* values of headers and parts of a query, with keys of known bytes.
IsRequest(r) ==
  /\ r.path \in Seq(STRING)
  /\ r.remote \in DOMAIN Addresses
  /\ \A h \in DOMAIN r.headers : r.headers[h] \in Seq(Seq(STRING)) /\ r.headers[h] # <<>>
  /\ r.query \in Seq([key : Seq(STRING), eq : BOOLEAN, value : Seq(STRING)])
  /\ \A i \in DOMAIN r.query : ToSet(Pair(r.query[i]).key) \subseteq ToSet(ByteOrder)

LoadStep == Load /\ UNCHANGED <<request, answer>>

\* request_host.
RequestHost(r) ==
  CASE r.authority # "" -> r.authority
    [] r.authority = "" /\ HeaderStr(r.headers, "host") # <<>> -> HeaderStr(r.headers, "host")[1]
    [] OTHER -> ""

\* The routes of Server::handle's map, by lower-cased public hostname: a later
\* route would replace an earlier one of the same name.
RouteOfAsWritten(r) ==
  SelectLastInSeq(config.routes,
                  LAMBDA route : route.host = Hostname(HostTexts[RequestHost(r)]))

RouteOf(r) ==
  LET key == LowerHost(Hostname(HostTexts[RequestHost(r)]))
  IN  SelectLastInSeq(config.routes, LAMBDA route : route.host = key)

Remote(r) == Unmap(Addresses[r.remote])

\* The answer without an upstream request, and with one.
Refuse(i, status, r) ==
  [route |-> i, status |-> status, headers |-> <<>>, path |-> <<>>, query |-> <<>>,
   login |-> FALSE, kind |-> Classify(r.path), logged |-> SanitizeRawQuery(r.query)]

GateOn == config.allowed_users # <<>>

ProxyUpstream(i, r) ==
  LET login == GateOn /\ IsLoginPath(r.path)
      buffered == login \/ IsPlaybackInfoPath(r.path)
      own == [addr |-> ShowAddr(Remote(r)), host |-> RequestHost(r),
              proto |-> IF r.tls THEN "https" ELSE "http"]
  IN  [Refuse(i, "forwarded", r) EXCEPT
         !.headers = OutboundHeaders(r.headers, config.hide_client, own, buffered),
         !.path = JoinPath(config.routes[i].upstream.path, r.path),
         !.query = JoinQuery(config.routes[i].upstream.query, r.query),
         !.login = login]

\* handle_with_auth and route_request, behind the client filter.
RouteRequest(i, r) ==
  LET segments == EmbyPathSegments(r.path)
  IN  CASE IsResourcePath(r.path) -> Refuse(i, "resource", r)
        [] ~IsResourcePath(r.path) /\ GateOn
             /\ MatchSegments(segments, <<"users", "public">>) -> Refuse(i, "nobody", r)
        [] ~IsResourcePath(r.path) /\ GateOn
             /\ ~MatchSegments(segments, <<"users", "public">>)
             /\ ~IsPublicEmbyPath(r.method, segments)
             /\ RequestToken(r.headers, r.query) # ValidToken -> Refuse(i, "401", r)
        [] OTHER -> ProxyUpstream(i, r)

HandleChecked(i, r) ==
  IF /\ config.allowed_clients # <<>>
     /\ ~IsAllowed(config.allowed_clients,
                   ClientAddr(r.headers, Remote(r), config.trust_proxy_headers))
    THEN Refuse(i, "403", r)
    ELSE RouteRequest(i, r)

\* Server::handle.
Handle ==
  /\ step = "serving"
  /\ request = Idle
  /\ \E r \in RequestsFor(config) :
       /\ IsRequest(r)
       /\ request' = r
       /\ answer' = IF RouteOf(r) = 0 THEN Refuse(0, "404", r)
                    ELSE HandleChecked(RouteOf(r), r)
  /\ UNCHANGED configVars

\* The answer is sent.
Answered ==
  /\ request # Idle
  /\ request' = Idle
  /\ answer' = Idle
  /\ UNCHANGED configVars

\* The usage, the version or the error is shown, and the process has ended.
Exited == step \in {"help", "version", "invalid"} /\ UNCHANGED frontendVars

Next == LoadStep \/ Handle \/ Answered \/ Exited

Spec == Init /\ [][Next]_frontendVars

-----------------------------------------------------------------------------
(* Properties *)

Forwarded == answer # Idle /\ answer.status = "forwarded"

Statuses == {"forwarded", "resource", "nobody", "401", "403", "404"}

\* The type of every variable (Values, Cli, Config, the answers of handle).
TypeOK ==
  /\ step \in {"flags", "file", "env", "cli", "check", "serving", "help", "version", "invalid"}
  /\ at \in 1..(Len(sources.args) + 1)
  /\ DOMAIN flags \subseteq DOMAIN FlagNames
  /\ DOMAIN raw \subseteq DOMAIN Kinds
  /\ DOMAIN values = DOMAIN Defaults
  /\ step = "serving" => config.response_header_timeout \in Nat \cup {NoTimeout}
  /\ answer # Idle => /\ answer.status \in Statuses
                      /\ answer.route \in 0..Len(config.routes)
                      /\ answer.kind \in {"media", "image", "api"}

\* The headers of a request that claim an address for its client.
Claims(r) ==
  {h \in {"x-forwarded-for", "x-real-ip"} \cap DOMAIN r.headers :
     /\ r.headers[h][1] # <<>> /\ r.headers[h][1][1] \in DOMAIN Addresses
     /\ h = "x-real-ip" => Len(r.headers[h][1]) = 1}

\* The address a request is judged by: its connection's, unless headers are
\* trusted and one of them has an address.
Judged(r) ==
  IF ~values.trust_proxy_headers \/ Claims(r) = {} THEN Unmap(Addresses[r.remote])
  ELSE LET by == CHOOSE h \in Claims(r) : h = "x-real-ip" => Claims(r) = {h}
       IN  Unmap(Addresses[r.headers[by][1][1]])

\* A client is turned away exactly when networks are listed and none has its
\* address, at every prefix length from none of the bits to all of them
\* (filter_client, client_addr, IpPrefix, mask).
ClientsExact ==
  answer # Idle /\ answer.route # 0 =>
    (answer.status = "403" <=>
       /\ DOMAIN values.allowed_clients # {}
       /\ \A i \in DOMAIN values.allowed_clients :
            ~Has(Networks[values.allowed_clients[i]], Judged(request)))

\* The headers that prepare_outbound_headers and proxy_upstream set themselves.
OwnHeaders == {"te", "connection", "upgrade", "x-forwarded-for", "x-forwarded-host",
               "x-forwarded-proto"}

\* No hop-by-hop header of the client reaches the upstream, listed or named in
\* Connection, but for a request for trailers and for the upgrade the client
\* asks for; every other header arrives as it was sent (remove_hop_by_hop,
\* prepare_outbound_headers).
HopsRemoved ==
  Forwarded =>
    LET sent == request.headers
        hops == HopByHop \cup Named(sent)
        ended == hops \cup IdentityHeaders \cup {"host", "accept-encoding"}
    IN  /\ (DOMAIN answer.headers) \cap hops \subseteq OwnHeaders
        /\ "te" \in DOMAIN answer.headers <=> ContainsToken(sent, "te", "trailers")
        /\ "te" \in DOMAIN answer.headers => answer.headers["te"] = <<<<"trailers">>>>
        /\ \A h \in {"connection", "upgrade"} :
             h \in DOMAIN answer.headers <=> UpgradeType(sent) # <<>>
        /\ \A h \in DOMAIN sent \ ended :
             h \in DOMAIN answer.headers /\ answer.headers[h] = sent[h]

\* When clients are hidden none of IDENTITY_HEADERS reaches the upstream.
\* Otherwise Forwarded does not, and X-Forwarded-For, -Host and -Proto say what
\* the proxy itself saw, whatever the client claims; the others of the list,
\* X-Real-IP among them, arrive as the client sent them, unless its Connection
\* header names them (proxy_upstream).
ForwardedOwn ==
  Forwarded =>
    IF config.hide_client
      THEN (DOMAIN answer.headers) \cap IdentityHeaders = {}
      ELSE /\ "forwarded" \notin DOMAIN answer.headers
           /\ answer.headers["x-forwarded-for"] = <<<<ShowAddr(Remote(request))>>>>
           /\ answer.headers["x-forwarded-host"] = <<<<RequestHost(request)>>>>
           /\ answer.headers["x-forwarded-proto"] = <<<<IF request.tls THEN "https" ELSE "http">>>>
           /\ \A h \in {"via", "x-real-ip", "x-forwarded-protocol", "x-forwarded-ssl"} :
                /\ h \in DOMAIN answer.headers <=>
                     h \in DOMAIN request.headers /\ h \notin Named(request.headers)
                /\ h \in DOMAIN answer.headers => answer.headers[h] = request.headers[h]

\* The last segments of a path, as the upstream server matches them.
EndsIn(path, want) ==
  /\ Len(path) >= Len(want)
  /\ MatchSegments(LowerAll(Suffix(path, Len(path) - Len(want) + 1)), want)

\* With allowed users, a login that reaches the upstream without a session is
\* one whose answer the proxy reads, and it is not asked for encoded, whatever
\* comes before it in the path (is_public_emby_path, is_login_path).
LoginsRead ==
  Forwarded /\ GateOn /\ RequestToken(request.headers, request.query) # ValidToken
    /\ (\/ EndsIn(request.path, <<"users", "authenticatebyname">>)
        \/ EndsIn(request.path, <<"users", "*", "authenticate">>))
  => answer.login /\ "accept-encoding" \notin DOMAIN answer.headers

\* The tokens a request carries, wherever clients put them: in headers of their
\* own, in words of an Authorization header and in the query, blank ones aside.
Carried(r) ==
  {r.headers[h][1] : h \in {n \in DOMAIN r.headers :
                              /\ n \in {"x-emby-token", "x-mediabrowser-token"}
                              /\ r.headers[n][1] \notin {<<"bytes">>, <<"">>, <<" ">>}}}
    \cup {<<TokenWords[w]>> : w \in {v \in DOMAIN TokenWords :
            /\ TokenWords[v] # ""
            /\ \E h \in {"x-emby-authorization", "authorization"} :
                 h \in DOMAIN r.headers /\ v \in ToSet(r.headers[h][1])}}
    \cup {Pair(p).value : p \in {q \in ToSet(r.query) :
            PartKept(q) /\ LowerAll(Pair(q).key) \in TokenQueryKeys
              /\ Pair(q).value \notin {<<>>, <<" ">>}}}

\* With allowed users, a request for anything that is not public passes if the
\* session's token is the only one it carries, in whatever place, and not
\* without that token (handle_with_auth, request_token).
TokensFound ==
  answer # Idle /\ GateOn =>
    /\ answer.status = "401" => Carried(request) # {ValidToken}
    /\ Forwarded /\ ~IsPublicEmbyPath(request.method, EmbyPathSegments(request.path))
         => ValidToken \in Carried(request)

\* A well-formed query is logged with what it said, and with one redacted value
\* in place of all values of a key of SENSITIVE_QUERY_KEYS: in its capitals and
\* escapes no such value gets through, and no other value is changed
\* (sanitize_raw_query, query_escape, parse_query).
LogsRedacted ==
  answer # Idle /\ ~Malformed(request.query) =>
    /\ ~Malformed(answer.logged)
    /\ KeysOf(answer.logged) = KeysOf(request.query)
    /\ \A key \in KeysOf(request.query) :
         ValuesOf(answer.logged, key) =
           IF Sensitive(key) THEN <<<<"redacted">>>> ELSE ValuesOf(request.query, key)

-----------------------------------------------------------------------------
(* Statements of the documentation. *)

\* README: with hide_client "Do not send `X-Forwarded-*` client/proxy headers
\* to the upstream Emby server".
ClientHidden ==
  Forwarded /\ config.hide_client =>
    (DOMAIN answer.headers) \cap
      {"x-forwarded-for", "x-forwarded-host", "x-forwarded-proto", "x-forwarded-protocol",
       "x-forwarded-ssl", "x-forwarded-port"} = {}

\* README: requests are logged "without logging common token query values".
\* The values a query shows of some keys.
Shown(query, Among(_)) ==
  {Pair(p).value : p \in {q \in ToSet(query) : PartKept(q) /\ Among(Pair(q).key)}}
    \ {<<>>, <<"redacted">>}

\* The keys request_token takes tokens from, in queries that are well formed.
TokensUnlogged ==
  answer # Idle /\ ~Malformed(request.query) =>
    Shown(answer.logged, LAMBDA key : LowerAll(key) \in TokenQueryKeys) = {}

\* The keys of SENSITIVE_QUERY_KEYS, in queries that are not (sanitize_raw_query).
MalformedUnlogged ==
  answer # Idle /\ Malformed(request.query) => Shown(answer.logged, Sensitive) = {}

\* parse_required_url refuses a public URL that does not "include a host": the
\* routes of a process that serves have names to be reached by.
PublicNamed ==
  step = "serving" => \A i \in DOMAIN config.routes : config.routes[i].host # <<>>

\* README: "If `-c` or `--config` points to a missing or invalid config file,
\* startup fails".
ConfigFileRead ==
  step = "serving" /\ "config" \in DOMAIN flags =>
    ConfigPath \in DOMAIN sources.files /\ sources.files[ConfigPath].wellFormed
=============================================================================
