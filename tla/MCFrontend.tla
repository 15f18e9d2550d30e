----------------------------- MODULE MCFrontend -----------------------------
(***************************************************************************)
(* The command lines, environments, files and requests the front end is    *)
(* tried on, and what they mean: a source says in `meant` which options    *)
(* its author set and to what, or that it is to be refused.                *)
(***************************************************************************)
EXTENDS Frontend, FiniteSets, SequencesExt

-----------------------------------------------------------------------------
(* Texts *)

LowerCaseTable ==
  ("Emby" :> "emby") @@ ("Users" :> "users") @@ ("Images" :> "images") @@ ("A" :> "a")
    @@ ("AuthenticateByName" :> "authenticatebyname") @@ ("PlaybackInfo" :> "playbackinfo")
    @@ ("Upgrade" :> "upgrade") @@ ("Trailers" :> "trailers") @@ ("HTTP" :> "http")
    @@ ("X-Custom" :> "x-custom") @@ ("API" :> "api")

AddressWidth == (4 :> 3) @@ (6 :> 5)

\* Addresses in the order of their numbers; ::x.0 to ::x.7 are the mapped ones.
V4Texts == <<"x.0", "x.1", "x.2", "x.3", "x.4", "x.5", "x.6", "x.7">>
V6Texts == <<"::0", "::1", "::2", "::3", "::4", "::5", "::6", "::7",
             "::x.0", "::x.1", "::x.2", "::x.3", "::x.4", "::x.5", "::x.6", "::x.7",
             "2::0", "2::1", "2::2", "2::3", "2::4", "2::5", "2::6", "2::7",
             "3::0", "3::1", "3::2", "3::3", "3::4", "3::5", "3::6", "3::7">>

AddressTable ==
  LET table == {<<V4Texts[i], [v |-> 4, n |-> i - 1]>> : i \in DOMAIN V4Texts}
                 \cup {<<V6Texts[i], [v |-> 6, n |-> i - 1]>> : i \in DOMAIN V6Texts}
  IN  [t \in {e[1] : e \in table} |-> (CHOOSE e \in table : e[1] = t)[2]] @@ <<>>

\* Networks of every length, up to one too long for the family.
Network(version, number, length) == [addr |-> [v |-> version, n |-> number], length |-> length]

NetworkTable ==
  ("x.5" :> Network(4, 5, NoLength)) @@ ("x.5/0" :> Network(4, 5, 0))
    @@ ("x.5/1" :> Network(4, 5, 1)) @@ ("x.5/2" :> Network(4, 5, 2))
    @@ ("x.5/3" :> Network(4, 5, 3)) @@ ("x.5/4" :> Network(4, 5, 4))
    @@ ("x.2/1" :> Network(4, 2, 1)) @@ ("x.2/2" :> Network(4, 2, 2))
    @@ ("::x.5" :> Network(6, 13, NoLength)) @@ ("::x.5/0" :> Network(6, 13, 0))
    @@ ("::x.5/2" :> Network(6, 13, 2)) @@ ("::x.5/3" :> Network(6, 13, 3))
    @@ ("::x.5/5" :> Network(6, 13, 5)) @@ ("2::5" :> Network(6, 21, NoLength))
    @@ ("2::5/1" :> Network(6, 21, 1)) @@ ("2::5/2" :> Network(6, 21, 2))
    @@ ("2::5/4" :> Network(6, 21, 4)) @@ ("2::5/5" :> Network(6, 21, 5))
    @@ ("2::5/6" :> Network(6, 21, 6))

Url(scheme, authority, path) ==
  [scheme |-> scheme, authority |-> authority, path |-> path, query |-> <<>>]

UrlTable ==
  ("http://a" :> Url("http", <<"a">>, <<>>))
    @@ ("HTTP://A:8/" :> Url("HTTP", <<"A", ":", "8">>, <<"">>))
    @@ ("https://u@b/hosts" :> Url("https", <<"u", "@", "b">>, <<"hosts">>))
    @@ ("http://b/base/?x" :> [Url("http", <<"b">>, <<"base", "">>) EXCEPT
                              !.query = <<[key |-> <<"x">>, eq |-> FALSE, value |-> <<>>]>>])
    @@ ("http://[::1]:8" :> Url("http", <<"[", ":", ":", "1", "]", ":", "8">>, <<>>))
    @@ ("http://::1" :> Url("http", <<":", ":", "1">>, <<>>))
    @@ ("http://:8" :> Url("http", <<":", "8">>, <<>>))
    @@ ("http://" :> Url("http", <<>>, <<>>))
    @@ ("http://a b" :> Url("http", <<"a", " ", "b">>, <<>>))
    @@ ("ftp://a" :> Url("ftp", <<"a">>, <<>>))
    @@ ("http://a^" :> Url("http", <<"a", "ctl">>, <<>>))
    @@ ("http://a/^" :> Url("http", <<"a">>, <<"ctl">>))

HostTable ==
  ("" :> <<>>) @@ ("a" :> <<"a">>) @@ ("A:8" :> <<"A", ":", "8">>) @@ ("b" :> <<"b">>)
    @@ ("[::1]:8" :> <<"[", ":", ":", "1", "]", ":", "8">>) @@ (":8" :> <<":", "8">>)
    @@ ("[::1]" :> <<"[", ":", ":", "1", "]">>) @@ ("::1" :> <<":", ":", "1">>)
    @@ ("c:8" :> <<"c", ":", "8">>) @@ (" b " :> <<" ", "b", " ">>)

\* The name each of them is about; "" where the host is a port only.
UrlName ==
  ("http://a" :> "a") @@ ("HTTP://A:8/" :> "a") @@ ("https://u@b/hosts" :> "b")
    @@ ("http://b/base/?x" :> "b") @@ ("http://[::1]:8" :> "::1") @@ ("http://::1" :> "::1")
    @@ ("http://:8" :> "")
HostName ==
  ("" :> "") @@ ("a" :> "a") @@ ("A:8" :> "a") @@ ("b" :> "b") @@ ("[::1]:8" :> "::1")
    @@ (":8" :> "") @@ ("[::1]" :> "::1") @@ ("::1" :> "::1") @@ ("c:8" :> "c")
    @@ (" b " :> "b")

\* The constants: names of tables, which TLC evaluates once.
MCLowerCase == LowerCaseTable
MCWidth == AddressWidth
MCAddresses == AddressTable
MCNetworks == NetworkTable
MCUrls == UrlTable
MCHostTexts == HostTable

MCByteOrder == <<" ", "%", "&", "+", ";", "=", "API", "_", "api", "key", "q", "token", "x-emby-token">>

MCTokenWords == ("Token=tok" :> "tok") @@ ("token=" :> "") @@ ("token=bad" :> "bad")

MCValidToken == <<"tok">>

-----------------------------------------------------------------------------
(* Sources *)

\* What is meant: an outcome, and options of a configuration that is served.
Meaning(outcome, options) == [outcome |-> outcome, options |-> options]

File(content) == [wellFormed |-> TRUE, raw |-> content]

Source(args, env, content, meant) ==
  [args |-> args, env |-> env, files |-> ("default" :> File(content)), meant |-> meant]

Arg(dashes, name, t) == [dashes |-> dashes, name |-> name, text |-> t]
RouteRaw(upstream, public) == [upstream |-> upstream, public |-> public, domain |-> ""]
OneRoute == ("routes" :> <<RouteRaw("http://a", "http://a")>>)

(* Command lines: every three of these arguments. *)

ArgForms ==
  {Arg(0, "", Word("f")), Arg(2, "", NoText), Arg(1, "", NoText), Arg(3, "d", NoText),
   Arg(1, "", Word("x")), Arg(2, "nope", NoText), Arg(1, "help", NoText),
   Arg(2, "help", NoText), Arg(1, "version", NoText), Arg(2, "version", Word("false")),
   Arg(1, "h", NoText), Arg(2, "http-addr", Word(" x ")),
   Arg(1, "d", NoText), Arg(2, "debug", Word("F")), Arg(2, "debug", Word("maybe")),
   Arg(1, "c", NoText), Arg(2, "config", Word("f")), Arg(2, "config", Word(" ")),
   Arg(2, "config", Word("broken")),
   Arg(2, "response-header-timeout", Word("5")), Arg(2, "response-header-timeout", Word("x"))}

Switches == {"d", "debug", "help", "version"}
Settings == {"h", "http-addr", "c", "config", "response-header-timeout"}

\* Whether argument k is the value of the one before it.
IsValue(args) ==
  LET value[k \in 1..Len(args)] ==
        k > 1 /\ ~value[k - 1] /\ args[k - 1].dashes \in {1, 2}
          /\ args[k - 1].name \in Settings /\ args[k - 1].text = NoText
  IN  value

SettingText(args, k) ==
  CASE args[k].text # NoText -> Trim(Plain(args[k].text))
    [] args[k].text = NoText /\ args[k].name \in Switches -> "true"
    [] OTHER -> IF args[k + 1].dashes = 0 THEN Plain(args[k + 1].text) ELSE "-flag"

ArgGood(args, k) ==
  \/ IsValue(args)[k]
  \/ /\ args[k].dashes \in {1, 2}
     /\ \/ /\ args[k].name \in Switches
           /\ args[k].text # NoText => Plain(args[k].text) \in {"false", "F"}
        \/ /\ args[k].name \in Settings
           /\ args[k].text = NoText => k < Len(args)
           /\ args[k].name = "response-header-timeout" => args[k].text = Word("5")
  \/ args[k] = Arg(2, "", NoText) /\ k = Len(args)

\* What the last of these flags says, or what holds without any.
LastSays(args, names, otherwise) ==
  LET at_ == {k \in DOMAIN args : ~IsValue(args)[k] /\ args[k].name \in names}
  IN  IF at_ = {} THEN otherwise
      ELSE SettingText(args, CHOOSE k \in at_ : \A j \in at_ : j <= k)

CommandMeans(args) ==
  LET path == LastSays(args, {"c", "config"}, "default")
  IN  CASE \/ \E k \in DOMAIN args : ~ArgGood(args, k) \/ args[k] = Arg(1, "help", NoText)
             -> Meaning("invalid", <<>>)
        [] OTHER ->
             CASE LastSays(args, {"help"}, "false") = "true" -> Meaning("help", <<>>)
               [] OTHER ->
                    CASE LastSays(args, {"version"}, "false") = "true" -> Meaning("version", <<>>)
                      [] OTHER ->
                           Meaning(IF path \in {"default", "f"} THEN "serving" ELSE "invalid",
                             [http_addr |-> LastSays(args, {"h", "http-addr"}, ":8080"),
                              log_level |-> IF LastSays(args, {"d", "debug"}, "F") = "true"
                                              THEN "debug" ELSE "info",
                              response_header_timeout |->
                                IF LastSays(args, {"response-header-timeout"}, "") = "5"
                                  THEN 5 ELSE 60,
                              hide_client |-> path = "f"])

CommandSources ==
  {[args |-> args, env |-> ("routes" :> <<<<"http://a", "http://a">>>>),
    files |-> ("f" :> File("hide_client" :> TRUE))
                @@ ("broken" :> [wellFormed |-> FALSE, raw |-> <<>>]),
    meant |-> CommandMeans(args)] : args \in SeqOf(ArgForms, 3)}

(* Layers: an option in the file, the environment and a flag. *)

Said(t, v) == [text |-> t, says |-> "value", v |-> v]
Silent(t, v) == [text |-> t, says |-> "nothing", v |-> v]
Wrong(t, v) == [text |-> t, says |-> "refused", v |-> v]

InFile(o) ==
  CASE Kinds[o] = "address" -> {Said(" x ", "x"), Said(" ", Defaults[o])}
    [] Kinds[o] = "text" -> {Said(" x ", "x"), Said(" ", "")}
    [] Kinds[o] = "bool" -> {Said(TRUE, TRUE), Said(FALSE, FALSE)}
    [] Kinds[o] = "int" -> {Said(7, 7), Said(0, 0), Said(-1, -1)}
    [] Kinds[o] = "list" -> {Said(<<" ", " x ">>, <<"x">>), Said(<<>>, <<>>)}

InEnv(o) ==
  CASE Kinds[o] = "address" -> {Said(Word("y"), "y"), Silent(Word(" "), "")}
    [] o = "stats_addr" -> {Said(Word("y"), "y"), Said(Word(" "), "")}
    [] Kinds[o] = "text" /\ o # "stats_addr" -> {Said(Word(" x "), "x"), Silent(Word(" "), "")}
    [] Kinds[o] = "bool" -> {Said(Word("Yes"), TRUE), Said(Word(" true"), TRUE),
                             Said(Word(" "), FALSE), Said(Word("x"), FALSE)}
    [] Kinds[o] = "int" -> {Said(Word(" 5 "), 5), Silent(Word(" "), 0), Wrong(Word("-1"), 0),
                            Wrong(Word("x"), 0),
                            IF o = "playbackinfo_max_bytes" THEN Wrong(Word("0"), 0)
                            ELSE Said(Word("0"), 0)}
    [] Kinds[o] = "list" -> {Said(<<<<"y", " ", "z">>>>, <<"y", "z">>), Silent(Word(" "), <<>>),
                             Said(<<<<" ", "">>>>, <<>>)}

InFlag(o) ==
  CASE Kinds[o] = "address" -> {Said(Word("z"), "z"), Said(Word(" "), Defaults[o])}
    [] Kinds[o] = "text" -> {Said(Word("z"), "z"), Said(Word(" "), "")}
    [] Kinds[o] = "bool" -> {Said(Word("T"), TRUE), Said(Word("0"), FALSE),
                             Wrong(Word("yes"), TRUE), Wrong(Word(" true"), TRUE)}
    [] Kinds[o] = "int" -> {Said(Word("+5"), 5), Said(Word("0"), 0), Said(Word("-1"), -1),
                            Wrong(Word("x"), 0)}
    [] Kinds[o] = "list" -> {Said(<<<<"z", " ">>>>, <<"z">>), Said(Word(" "), <<>>)}

Least == [o \in DOMAIN Defaults |-> IF o = "playbackinfo_max_bytes" THEN 1 ELSE 0]

LayersMean(o, layers) ==
  LET heard == SelectSeq(layers, LAMBDA l : l.says # "nothing")
      v == IF heard = <<>> THEN Defaults[o] ELSE Last(heard).v
  IN  IF \/ \E i \in DOMAIN layers : layers[i].says = "refused"
         \/ Kinds[o] = "int" /\ v < Least[o]
        THEN Meaning("invalid", <<>>) ELSE Meaning("serving", o :> v)

LayerSource(o, f, e, c, name) ==
  Source(IF c.says = "nothing" THEN <<>> ELSE <<Arg(2, name, c.text)>>,
         IF e.text = <<>> THEN <<>> ELSE (o :> e.text),
         OneRoute @@ IF f.says = "nothing" THEN <<>> ELSE (o :> f.text),
         LayersMean(o, <<f, e, c>>))

LayeredOptions == DOMAIN Defaults \ {"routes", "allowed_clients", "log_level", "log_format"}

LayerSources ==
  UNION {{LayerSource(o, f, e, c, name) :
            f \in InFile(o) \cup {Silent(Defaults[o], Defaults[o])},
            e \in InEnv(o) \cup {Silent(<<>>, Defaults[o])},
            c \in InFlag(o) \cup {Silent(<<>>, Defaults[o])},
            name \in FlagNames[o]} : o \in LayeredOptions}

\* debug and log_level in each layer.
LevelLayers == {<<>>, [debug |-> TRUE], [debug |-> FALSE], [log_level |-> "warn"],
                [debug |-> TRUE, log_level |-> "warn"], [log_level |-> "loud"]}

LayerLevel(l) ==
  CASE "log_level" \in DOMAIN l -> l.log_level
    [] "log_level" \notin DOMAIN l /\ "debug" \in DOMAIN l ->
         IF l.debug THEN "debug" ELSE "info"
    [] OTHER -> ""

LevelText(l) ==
  [o \in DOMAIN l |-> IF o = "log_level" THEN Word(l[o])
                      ELSE IF l[o] THEN Word("true") ELSE Word("false")]

LevelSources ==
  {LET texts == LevelText(c)
       heard == SelectSeq(<<LayerLevel(f), LayerLevel(e), LayerLevel(c)>>, LAMBDA l : l # "")
       level == IF heard = <<>> THEN "info" ELSE Last(heard)
   IN  Source((IF "debug" \in DOMAIN c THEN <<Arg(1, "d", texts.debug)>> ELSE <<>>)
                \o (IF "log_level" \in DOMAIN c THEN <<Arg(2, "log-level", texts.log_level)>>
                    ELSE <<>>),
              LevelText(e), OneRoute @@ f,
              IF level = "loud" THEN Meaning("invalid", <<>>)
              ELSE Meaning("serving", "log_level" :> level)) :
     f \in LevelLayers, e \in LevelLayers, c \in LevelLayers}

(* Routes: in the file, and as flags. *)

PublicTexts == DOMAIN UrlTable \cup {"junk", " "}

RouteSources ==
  {Source(<<>>, <<>>, "routes" :> [i \in DOMAIN publics |->
                                     RouteRaw("https://u@b/hosts", publics[i])],
          IF /\ publics # <<>>
             /\ \A i \in DOMAIN publics :
                  publics[i] \in DOMAIN UrlName /\ UrlName[publics[i]] # ""
             /\ \A i, j \in DOMAIN publics :
                  i # j => UrlName[publics[i]] # UrlName[publics[j]]
            THEN Meaning("serving", <<>>) ELSE Meaning("invalid", <<>>)) :
     publics \in SeqOf(PublicTexts, 2)}

RouteEntry(good, parts) == [good |-> good, parts |-> parts]
RouteEntryForms ==
  {RouteEntry(TRUE, <<"http://b/base/?x", "http://a">>), RouteEntry(TRUE, <<" ">>),
   RouteEntry(TRUE, <<"http://a", "https://u@b/hosts", "x">>), RouteEntry(FALSE, <<"http://a">>),
   RouteEntry(FALSE, <<" ", "http://a">>), RouteEntry(FALSE, <<"http://a", "http://a", "">>),
   RouteEntry(FALSE, <<"http://a", "http://a", "x", "x">>)}

RouteFlagSources ==
  {LET routed == SelectSeq(entries, LAMBDA e : Len(e.parts) > 1)
   IN  Source([i \in DOMAIN entries |-> Arg(2, "route", <<entries[i].parts>>)],
              <<>>, <<>>,
              IF /\ routed # <<>>
                 /\ \A i \in DOMAIN entries : entries[i].good
                 /\ \A i, j \in DOMAIN routed : i # j => routed[i] # routed[j]
                THEN Meaning("serving", <<>>) ELSE Meaning("invalid", <<>>)) :
     entries \in SeqOf(RouteEntryForms, 3)}

(* Clients: each network; and the allowed-users check. *)

ClientLists ==
  {<<t>> : t \in DOMAIN NetworkTable} \cup {<<"2::5/2", "x.2/2">>, <<"x.5", "junk">>}

ClientSources ==
  {Source(<<>>, "allowed_clients" :> <<list>>,
          OneRoute @@ ("trust_proxy_headers" :> trust),
          IF ToSet(list) \cap {"x.5/4", "2::5/6", "junk"} = {}
            THEN Meaning("serving", <<>>) ELSE Meaning("invalid", <<>>)) :
     list \in ClientLists, trust \in BOOLEAN}

GateSources ==
  {Source(<<>>, <<>>,
          [routes |-> <<RouteRaw("http://b/base/?x", "http://a")>>, allowed_users |-> users,
           hide_client |-> hide], Meaning("serving", <<>>)) :
     users \in {<<>>, <<"x">>}, hide \in BOOLEAN}

MCSources ==
  CommandSources \cup LayerSources \cup LevelSources \cup RouteSources
    \cup RouteFlagSources \cup ClientSources \cup GateSources

-----------------------------------------------------------------------------
(* Requests *)

Here == "x.5"
There == "x.2"

Plainly(path) ==
  [authority |-> "", method |-> "GET", path |-> path, headers |-> ("host" :> <<<<"a">>>>),
   query |-> <<>>, remote |-> Here, tls |-> FALSE]

HostRequests ==
  {[Plainly(<<"x">>) EXCEPT !.authority = h] : h \in DOMAIN HostTable \ {"", " b "}}
    \cup {[Plainly(<<"x">>) EXCEPT !.headers = ("host" :> <<<<h>>>>)] : h \in DOMAIN HostTable}
    \cup {[Plainly(<<"x">>) EXCEPT !.headers = hs] : hs \in {<<>>, "host" :> <<Unreadable>>}}

AddressRequests == {[Plainly(<<"x">>) EXCEPT !.remote = t] : t \in DOMAIN AddressTable}

ClaimedAddresses ==
  {<<>>, <<<<Here>>>>, <<<<There>>>>, <<<<There, Here>>>>, <<<<"junk", Here>>>>,
   <<<<Here>>, <<There>>>>, <<Unreadable>>, <<<<"::x.5">>>>}

Header(name, headerValues) == IF headerValues = <<>> THEN <<>> ELSE (name :> headerValues)

ClaimRequests ==
  {[Plainly(<<"x">>) EXCEPT
      !.remote = t,
      !.headers = @ @@ Header("x-forwarded-for", f) @@ Header("x-real-ip", p)] :
     t \in {Here, There}, f \in ClaimedAddresses, p \in ClaimedAddresses}

Segments == {"Emby", "mediabrowser", "Users", "AuthenticateByName", "authenticate", "public",
             "web", "Images", "PlaybackInfo", "_proxy", "videos", "download", "x", ""}
MorePaths ==
  {<<"base", "Emby", "Users", "x", "authenticate">>, <<"web", "Users", "x", "authenticate">>,
   <<"", "Emby", "Users", "AuthenticateByName", "">>, <<"system", "info", "public">>,
   <<"x", "Emby", "Images", "Users", "AuthenticateByName">>}

WithToken(r) == [r EXCEPT !.headers = @ @@ ("x-emby-token" :> <<<<"tok">>>>)]

PathRequests ==
  LET requests == {[Plainly(path) EXCEPT
                      !.method = m, !.headers = @ @@ ("accept-encoding" :> <<<<"gzip">>>>)] :
                     path \in SeqOf(Segments, 3) \cup MorePaths, m \in {"GET", "POST"}}
  IN  requests \cup {WithToken(r) : r \in {q \in requests : q.method = "POST"}}

ConnectionTokens == {"Upgrade", "close", "X-Custom", "x-forwarded-for", "te"}

HeaderRequests ==
  {[Plainly(path) EXCEPT
      !.tls = Len(te) = 0,
      !.headers = @ @@ Header("connection", connection) @@ Header("te", te)
                    @@ Header("upgrade", upgrade) @@ identity
                    @@ ("x-custom" :> <<<<"x">>>>) @@ ("accept-encoding" :> <<<<"gzip">>>>)
                    @@ ("keep-alive" :> <<<<"5">>>>) @@ ("x-emby-token" :> <<<<"tok">>>>)] :
     path \in {<<"x">>, <<"PlaybackInfo">>, <<"Users", "AuthenticateByName">>},
     connection \in {<<c>> : c \in SeqOf(ConnectionTokens, 2) \ {<<>>}}
                      \cup {<<>>, <<<<"close">>, <<"Upgrade", "X-Custom">>>>},
     te \in {<<>>, <<<<"Trailers">>>>, <<<<"gzip">>, <<"x", "trailers">>>>, <<<<"gzip">>>>},
     upgrade \in {<<>>, <<<<"websocket">>>>},
     identity \in {<<>>, [h \in IdentityHeaders \cup {"x-forwarded-port"} |-> <<<<There>>>>]}}

Part(key, eq, v) == [key |-> key, eq |-> eq, value |-> v]

QueryParts ==
  {Part(key, TRUE, v) :
     key \in {<<"api", "_", "key">>, <<"API", "key">>, <<"token">>, <<"q">>, <<"q", "%26">>,
              <<"x-emby-token">>},
     v \in {<<>>, <<"tok">>, <<"+">>, <<"%2B">>, <<"q", "%">>, <<"q", ";">>, <<"%3D", "%26">>}}
    \cup {Part(<<"q">>, FALSE, <<>>), Part(<<"%">>, FALSE, <<>>), Part(<<>>, FALSE, <<>>)}

QueryRequests ==
  {[Plainly(<<"x">>) EXCEPT !.query = q] :
     q \in SeqOf(QueryParts, 2)
             \cup SeqOf({Part(k, TRUE, <<v>>) : k \in {<<"token">>, <<"q">>}, v \in {"q", "tok"}}, 3)}

TokenHeaders == {<<>>, <<<<"tok">>>>, <<<<"bad">>>>, <<<<" ">>>>, <<Unreadable>>,
                 <<<<" ">>, <<"tok">>>>}
AuthorizationHeaders ==
  {<<>>, <<<<"Client=a", "Token=tok">>>>, <<<<"Client=a", "AccessToken=tok">>>>,
   <<<<"token=", "Token=tok">>>>, <<<<"token=bad", "Token=tok">>>>}

TokenRequests ==
  {[Plainly(<<"x">>) EXCEPT
      !.headers = @ @@ Header("x-emby-token", h) @@ Header("x-mediabrowser-token", m)
                    @@ Header("x-emby-authorization", x) @@ Header("authorization", a),
      !.query = q] :
     h \in TokenHeaders, m \in TokenHeaders, x \in AuthorizationHeaders,
     a \in AuthorizationHeaders,
     q \in {<<>>, <<Part(<<"API", "_", "key">>, TRUE, <<"tok">>)>>,
            <<Part(<<"x-emby-token">>, TRUE, <<"bad">>), Part(<<"api", "key">>, TRUE, <<"tok">>)>>}}

\* Routes, networks and the allowed-users check have their own requests; other
\* configurations are tried on one.
MCRequestsFor(c) ==
  CASE c.allowed_clients # <<>> -> IF c.trust_proxy_headers THEN ClaimRequests
                                   ELSE AddressRequests \cup ClaimRequests
    [] c.routes[1].upstream.path = <<"hosts">> -> HostRequests
    [] c.routes[1].upstream.path = <<"base", "">> ->
         PathRequests \cup HeaderRequests \cup QueryRequests \cup TokenRequests
    [] OTHER -> {Plainly(<<"x">>)}

-----------------------------------------------------------------------------
(* Properties *)

\* Every option is as the strongest layer that sets it says: a flag before the
\* environment, the environment before the file, the file before the default;
\* debug and log_level are one option (apply_raw, apply_env, parse_flags).
Layered ==
  step = "serving" =>
    \A o \in DOMAIN sources.meant.options : values[o] = sources.meant.options[o]

\* Three things that are wrong and pass all the same: a second "--" at the end,
\* a blank file name, and a public URL whose host is a port only.
PassedBy(s) ==
  \/ Len(s.args) > 1 /\ \A k \in {0, 1} : s.args[Len(s.args) - k] = Arg(2, "", NoText)
  \/ \E k \in DOMAIN s.args : s.args[k] = Arg(2, "config", Word(" "))
  \/ \E path \in DOMAIN s.files :
       /\ "routes" \in DOMAIN s.files[path].raw
       /\ \E i \in DOMAIN s.files[path].raw.routes :
            s.files[path].raw.routes[i].public = "http://:8"

\* Nothing well formed is refused, and nothing unknown, malformed or left over
\* is passed by but for the three cases of PassedBy: a process serves, shows
\* help or ends with an error as its sources say (parse_flags, apply_env,
\* config, parse_routes).
RefusalsExact ==
  /\ step = "invalid" => sources.meant.outcome = "invalid"
  /\ step \in {"serving", "help", "version"} /\ ~PassedBy(sources) =>
       step = sources.meant.outcome

\* A request goes to the route whose public URL has its host's name, and each
\* route gets all of these (parse_routes, Server::handle, hostname).
RoutedExactly ==
  answer # Idle =>
    \A i \in DOMAIN values.routes :
      answer.route = i <=> UrlName[values.routes[i].public] = HostName[RequestHost(request)]
=============================================================================
