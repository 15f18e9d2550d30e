------------------------------- MODULE Config -------------------------------
(***************************************************************************)
(* Loading the configuration (config.rs): the flags are read one by one,   *)
(* then defaults, the TOML file, the environment and the flags are laid    *)
(* over each other, and the result is checked.  A text on the command line *)
(* or in the environment is what semicolons separate, each of it what      *)
(* commas separate: <<<<"x">>>> is a plain word.  Texts of URLs, addresses *)
(* and capitals have their readings in the constants.                      *)
(***************************************************************************)
EXTENDS ClientFilter, Headers, Orders

CONSTANTS
  Sources,    \* what a process is started with: args, env and files
  Urls,       \* URL texts: scheme, authority, path and query
  Networks    \* texts of client addresses and networks: addr and length

\* Options of a file that are given have the type of their fields in Raw, and
\* texts are texts.
ASSUME SourceAssumption ==
  \A s \in Sources :
    /\ s.args \in Seq([dashes : Nat, name : STRING, text : Seq(Seq(STRING))])
    /\ \A o \in DOMAIN s.env : s.env[o] \in Seq(Seq(STRING))
    /\ \A path \in DOMAIN s.files :
         LET given == s.files[path].raw
         IN  /\ "routes" \in DOMAIN given =>
                  given.routes \in Seq([upstream : STRING, public : STRING, domain : STRING])
             /\ "response_header_timeout" \in DOMAIN given =>
                  given.response_header_timeout \in Int

ASSUME NetworkAssumption ==
  \A text \in DOMAIN Networks :
    /\ Networks[text].addr = NoAddress \/ IsAddress(Networks[text].addr)
    /\ Networks[text].length \in Nat \cup {NoLength}

VARIABLES
  sources,    \* of this process
  step,       \* of from_sources
  at,         \* next argument
  flags,      \* text given last for each flag, all texts of --route joined
  raw,        \* the flags as options
  values,     \* Values so far
  config      \* the Config, once loaded

configVars == <<sources, step, at, flags, raw, values, config>>

-----------------------------------------------------------------------------
(* Options *)

\* How each option of Raw is read and merged.
Kinds ==
  [routes |-> "routes", http_addr |-> "address", tls_enable |-> "bool",
   tls_addr |-> "address", acme_email |-> "text", acme_cache_dir |-> "address",
   allowed_hosts |-> "list", playbackinfo_max_bytes |-> "int",
   response_header_timeout |-> "int", allowed_clients |-> "list",
   trust_proxy_headers |-> "bool", hide_client |-> "bool", allowed_users |-> "list",
   auth_state_file |-> "text", stats_enable |-> "bool", stats_addr |-> "text",
   stats_file |-> "text", debug |-> "bool", log_level |-> "text",
   log_format |-> "text", log_time |-> "bool"]

\* Values::default.
Defaults ==
  [routes |-> <<>>, http_addr |-> ":8080", tls_enable |-> FALSE, tls_addr |-> ":443",
   acme_email |-> "", acme_cache_dir |-> ".acme-cache", allowed_hosts |-> <<>>,
   playbackinfo_max_bytes |-> 8, response_header_timeout |-> 60,
   allowed_clients |-> <<>>, trust_proxy_headers |-> FALSE, hide_client |-> FALSE,
   allowed_users |-> <<>>, auth_state_file |-> "", stats_enable |-> FALSE,
   stats_addr |-> "127.0.0.1:9180", stats_file |-> "", log_level |-> "info",
   log_format |-> "text", log_time |-> TRUE]

\* FLAGS.
FlagNames ==
  [config |-> {"c", "config"}, routes |-> {"route"}, http_addr |-> {"h", "http-addr"},
   tls_enable |-> {"tls-enable"}, tls_addr |-> {"tls-addr"}, acme_email |-> {"acme-email"},
   acme_cache_dir |-> {"acme-cache-dir"}, allowed_hosts |-> {"a", "allowed-hosts"},
   playbackinfo_max_bytes |-> {"playbackinfo-max-bytes"},
   allowed_clients |-> {"allowed-clients"}, trust_proxy_headers |-> {"trust-proxy-headers"},
   hide_client |-> {"hide-client"}, allowed_users |-> {"allowed-users"},
   auth_state_file |-> {"auth-state-file"}, debug |-> {"d", "debug"},
   log_level |-> {"log-level"}, log_format |-> {"log-format"}, log_time |-> {"log-time"},
   response_header_timeout |-> {"response-header-timeout"},
   stats_enable |-> {"stats-enable"}, stats_addr |-> {"stats-addr"},
   stats_file |-> {"stats-file"}, help |-> {"help"}, version |-> {"version"}]

FlagKind(o) ==
  CASE o = "config" -> "text" [] o \in {"help", "version"} -> "bool" [] OTHER -> Kinds[o]

-----------------------------------------------------------------------------
(* Texts *)

\* trim, of the texts that have spaces around them.
Padded == (" " :> "") @@ (" x " :> "x") @@ (" 5 " :> "5") @@ (" true" :> "true")
Trim(t) == IF t \in DOMAIN Padded THEN Padded[t] ELSE t

\* clean_strings, which split_csv also does to what commas separate.
CleanStrings(list) ==
  SelectSeq([i \in 1..Len(list) |-> Trim(list[i])], LAMBDA t : t # "")

Word(t) == <<<<t>>>>
Plain(text) == text[1][1]
Blank(text) == Len(text) = 1 /\ Len(text[1]) = 1 /\ Trim(Plain(text)) = ""

\* parse_go_bool and parse_bool.
GoTrue == {"1", "t", "T", "TRUE", "true", "True"}
GoFalse == {"0", "f", "F", "FALSE", "false", "False"}
ParseBool(t) == Trim(t) \in GoTrue \cup {"y", "yes", "on", "Yes"}

Integer == [t \in {"-1", "0", "5", "+5"} |->
              CASE t = "-1" -> -1 [] t = "0" -> 0 [] OTHER -> 5]
IsInteger(t) == Trim(t) \in DOMAIN Integer
ParseInt(t) == Integer[Trim(t)]

LogLevels == ("debug" :> "debug") @@ ("info" :> "info") @@ ("warn" :> "warn")
               @@ ("WARNING" :> "warn") @@ ("error" :> "error")
LogFormats == ("text" :> "text") @@ ("JSON" :> "json") @@ ("json" :> "json")

\* parse_route_values: blank entries are skipped, and there is another.
RouteEntries(text) ==
  LET given == {i \in DOMAIN text : ~Blank(<<text[i]>>)}
      place == InOrder(given, Less(given))
  IN  [k \in DOMAIN place |-> text[place[k]]]

RouteValuesValid(text) ==
  /\ RouteEntries(text) # <<>>
  /\ \A i \in DOMAIN RouteEntries(text) :
       LET parts == RouteEntries(text)[i]
       IN  Len(parts) \in {2, 3} /\ \A k \in DOMAIN parts : Trim(parts[k]) # ""

ParseRouteValues(text) ==
  [i \in DOMAIN RouteEntries(text) |->
     LET parts == RouteEntries(text)[i]
     IN  [upstream |-> Trim(parts[1]), public |-> Trim(parts[2]),
          domain |-> IF Len(parts) = 3 THEN Trim(parts[3]) ELSE ""]]

-----------------------------------------------------------------------------
(* The flags: parse_flags *)

\* An argument is a word, with no dashes, or a flag with its name and the text
\* after its "="; NoText when there is none.
NoText == <<>>

StopsFlags(a) == a.dashes = 0 \/ (a.dashes = 1 /\ a.name = "" /\ a.text = NoText)
EndsFlags(a) == a.dashes = 2 /\ a.name = "" /\ a.text = NoText

ArgText(a) == IF a.dashes = 0 THEN a.text ELSE Word("-flag")

FlagOf(a) == {o \in DOMAIN FlagNames : a.name \in FlagNames[o]}

TakesNext(a) == \E o \in FlagOf(a) : FlagKind(o) # "bool" /\ a.text = NoText

\* The text of a flag and the position after it.
FlagText(args, i) ==
  CASE args[i].text # NoText -> args[i].text
    [] TakesNext(args[i]) -> ArgText(args[i + 1])
    [] OTHER -> Word("true")

FlagGood(args, i) ==
  /\ args[i].dashes < 3 /\ args[i].name # ""
  /\ TakesNext(args[i]) => i < Len(args)
  /\ \E o \in FlagOf(args[i]) :
       /\ FlagKind(o) = "bool" => Plain(FlagText(args, i)) \in GoTrue \cup GoFalse
       /\ FlagKind(o) = "int" => IsInteger(Plain(FlagText(args, i)))

Fail == step' = "invalid" /\ UNCHANGED <<sources, at, flags, raw, values, config>>

AnyHelp(args) == \E i \in DOMAIN args : args[i].dashes = 1 /\ args[i].name = "help"

MoreFlags ==
  /\ step = "flags"
  /\ ~AnyHelp(sources.args)
  /\ at <= Len(sources.args)
  /\ ~StopsFlags(sources.args[at]) /\ ~EndsFlags(sources.args[at])

\* One turn of the loop.
ParseFlag ==
  /\ MoreFlags
  /\ LET args == sources.args IN
       \/ ~FlagGood(args, at) /\ Fail
       \/ /\ FlagGood(args, at)
          /\ \E o \in FlagOf(args[at]) :
               flags' = Put(flags, o, IF o = "routes" /\ o \in DOMAIN flags
                                        THEN flags[o] \o FlagText(args, at)
                                        ELSE FlagText(args, at))
          /\ at' = at + (IF TakesNext(args[at]) THEN 2 ELSE 1)
          /\ UNCHANGED <<sources, step, raw, values, config>>

\* The options the flags say.
RawValue(o, text) ==
  CASE Kinds[o] = "bool" -> Plain(text) \in GoTrue
    [] Kinds[o] = "int" -> ParseInt(Plain(text))
    [] Kinds[o] = "list" -> CleanStrings(text[1])
    [] Kinds[o] = "routes" -> ParseRouteValues(text)
    [] OTHER -> Plain(text)

Asked(o) == o \in DOMAIN flags /\ Plain(flags[o]) \in GoTrue

\* What follows the loop: no argument may be left, "--" aside.
LeftOverBeforeDashes(args) == at <= Len(args) /\ ~EndsFlags(args[at])

LeftOver(args) ==
  LET n == IF at <= Len(args) /\ EndsFlags(args[at]) THEN at + 1 ELSE at
      m == IF n <= Len(args) /\ EndsFlags(args[n]) THEN n + 1 ELSE n
  IN  m <= Len(args)

EndFlags ==
  /\ step = "flags"
  /\ ~MoreFlags
  /\ \/ /\ \/ AnyHelp(sources.args)
           \/ LeftOver(sources.args)
           \/ "routes" \in DOMAIN flags /\ ~RouteValuesValid(flags.routes)
        /\ Fail
     \/ /\ ~AnyHelp(sources.args) /\ ~LeftOver(sources.args)
        /\ "routes" \in DOMAIN flags => RouteValuesValid(flags.routes)
        /\ raw' = [o \in DOMAIN flags \ {"config", "help", "version"} |->
                     RawValue(o, flags[o])]
        /\ step' = CASE Asked("help") -> "help"
                     [] Asked("version") /\ ~Asked("help") -> "version"
                     [] OTHER -> "file"
        /\ UNCHANGED <<sources, at, flags, values, config>>

-----------------------------------------------------------------------------
(* The layers *)

\* apply_raw of one option.
Applied(o, v) ==
  CASE Kinds[o] = "address" -> IF Trim(v) = "" THEN Defaults[o] ELSE Trim(v)
    [] Kinds[o] = "text" -> Trim(v)
    [] Kinds[o] = "list" -> CleanStrings(v)
    [] OTHER -> v

\* apply_raw: debug is read before log_level.
ApplyRawDebugLast(old, layer) ==
  [o \in DOMAIN Defaults |->
     CASE o = "log_level" /\ "debug" \in DOMAIN layer ->
            IF layer.debug THEN "debug" ELSE Defaults.log_level
       [] o \in DOMAIN layer /\ ~(o = "log_level" /\ "debug" \in DOMAIN layer) ->
            Applied(o, layer[o])
       [] OTHER -> old[o]]

ApplyRawKeepingDebug(old, layer) ==
  [o \in DOMAIN old \cup DOMAIN layer |->
     IF o \in DOMAIN layer THEN Applied(o, layer[o]) ELSE old[o]]

ApplyRaw(old, layer) ==
  [o \in DOMAIN Defaults |->
     CASE o \in DOMAIN layer -> Applied(o, layer[o])
       [] o = "log_level" /\ o \notin DOMAIN layer /\ "debug" \in DOMAIN layer ->
            IF layer.debug THEN "debug" ELSE Defaults.log_level
       [] OTHER -> old[o]]

\* from_sources: a file named by --config must be there and well formed, the
\* default one may be missing, and a blank name reads none.
ConfigPath == IF "config" \in DOMAIN flags THEN Trim(Plain(flags.config)) ELSE "default"

\* raw_from_toml_file: the options of a well-formed file, by section and name.
FileRaw(path) == sources.files[path].raw

LoadFile ==
  /\ step = "file"
  /\ LET missing == ConfigPath \notin DOMAIN sources.files IN
       \/ /\ ConfigPath # "" /\ missing /\ "config" \in DOMAIN flags
          /\ Fail
       \/ /\ ConfigPath # "" /\ ~missing
          /\ ~sources.files[ConfigPath].wellFormed
          /\ Fail
       \/ /\ ConfigPath = "" \/ (missing /\ "config" \notin DOMAIN flags)
          /\ step' = "env"
          /\ UNCHANGED <<sources, at, flags, raw, values, config>>
       \/ /\ ConfigPath # "" /\ ~missing
          /\ sources.files[ConfigPath].wellFormed
          /\ values' = ApplyRaw(values, FileRaw(ConfigPath))
          /\ step' = "env"
          /\ UNCHANGED <<sources, at, flags, raw, config>>

\* apply_env: a blank variable says nothing, but for the switches, which it
\* turns off, and stats_addr, which it clears.
EnvGiven(env) ==
  {o \in DOMAIN env : Kinds[o] = "bool" \/ o = "stats_addr" \/ ~Blank(env[o])}

EnvGood(env) ==
  \A o \in EnvGiven(env) :
    /\ Kinds[o] = "routes" => RouteValuesValid(env[o])
    /\ Kinds[o] = "int" =>
         /\ IsInteger(Plain(env[o]))
         /\ ParseInt(Plain(env[o])) >= IF o = "playbackinfo_max_bytes" THEN 1 ELSE 0

EnvRaw(env) ==
  [o \in EnvGiven(env) |->
     IF Kinds[o] = "bool" THEN ParseBool(Plain(env[o])) ELSE RawValue(o, env[o])]

ApplyEnv ==
  /\ step = "env"
  /\ \/ ~EnvGood(sources.env) /\ Fail
     \/ /\ EnvGood(sources.env)
        /\ values' = ApplyRaw(values, EnvRaw(sources.env))
        /\ step' = "cli"
        /\ UNCHANGED <<sources, at, flags, raw, config>>

ApplyCli ==
  /\ step = "cli"
  /\ values' = ApplyRaw(values, raw)
  /\ step' = "check"
  /\ UNCHANGED <<sources, at, flags, raw, config>>

-----------------------------------------------------------------------------
(* The checks: Values::config and parse_routes *)

\* trim, of the symbols of a host.
TrimHost(host) ==
  LET from == SelectInSeq(host, LAMBDA c : c # " ")
  IN  IF from = 0 THEN <<>>
      ELSE SubSeq(host, from, SelectLastInSeq(host, LAMBDA c : c # " "))

\* hostname: a host without its port, or within its brackets.
Hostname(written) ==
  LET host == TrimHost(written)
      colon == SelectLastInSeq(host, LAMBDA c : c = ":")
      bracket == SelectInSeq(host, LAMBDA c : c = "]")
  IN  CASE host # <<>> /\ host[1] = "[" ->
             SubSeq(host, 2, IF bracket = 0 THEN Len(host) ELSE bracket - 1)
        [] host # <<>> /\ host[1] # "[" /\ colon # 0
             /\ ~Contains(SubSeq(host, 1, colon - 1), ":") -> SubSeq(host, 1, colon - 1)
        [] OTHER -> host

LowerHost(host) == [i \in DOMAIN host |-> Lower(host[i])]

\* HttpUrl::parse and parse_required_url.  "ctl" is a control character of a
\* host, or a segment of a path with one in it.
UrlHost(t) ==
  LET authority == Urls[t].authority
  IN  SubSeq(authority, SelectLastInSeq(authority, LAMBDA c : c = "@") + 1, Len(authority))

UrlValid(t) ==
  /\ Trim(t) \in DOMAIN Urls
  /\ ~Contains(UrlHost(Trim(t)), " ") /\ ~Contains(UrlHost(Trim(t)), "ctl")
  /\ ~Contains(Urls[Trim(t)].path, "ctl")
  /\ Lower(Urls[Trim(t)].scheme) \in {"http", "https"}
  /\ UrlHost(Trim(t)) # <<>>

PublicHost(r) == LowerHost(Hostname(UrlHost(Trim(r.public))))

RoutesValid(routes) ==
  /\ routes # <<>>
  /\ \A i \in DOMAIN routes : UrlValid(routes[i].upstream) /\ UrlValid(routes[i].public)
  /\ \A i, j \in DOMAIN routes :
       i # j => PublicHost(routes[i]) # PublicHost(routes[j])

ParseRoute(r) ==
  [upstream |-> [host |-> UrlHost(Trim(r.upstream)), path |-> Urls[Trim(r.upstream)].path,
                  query |-> Urls[Trim(r.upstream)].query],
   host |-> PublicHost(r),
   domain |-> IF Trim(r.domain) = "" THEN PublicHost(r) ELSE LowerHost(<<Trim(r.domain)>>)]

\* The domains certificates are asked for, each once.
AcmeDomains(routes) ==
  LET domains == [i \in DOMAIN routes |-> ParseRoute(routes[i]).domain]
  IN  FoldLeft(LAMBDA seen, d : IF Contains(seen, d) THEN seen ELSE Append(seen, d),
               <<>>, domains)

ConfigValid(v) ==
  /\ v.playbackinfo_max_bytes > 0
  /\ v.response_header_timeout >= 0
  /\ \A i \in DOMAIN v.allowed_clients :
       v.allowed_clients[i] \in DOMAIN Networks /\ PrefixValid(Networks[v.allowed_clients[i]])
  /\ RoutesValid(v.routes)
  /\ ~(v.tls_enable /\ AcmeDomains(v.routes) = <<>>)
  /\ v.log_level \in DOMAIN LogLevels
  /\ v.log_format \in DOMAIN LogFormats

NoTimeout == -1

MakeConfig(v) ==
  LET checked == [v EXCEPT !.routes = [i \in DOMAIN v.routes |-> ParseRoute(v.routes[i])],
                           !.allowed_clients = [i \in DOMAIN v.allowed_clients |->
                                                  ParsePrefix(Networks[v.allowed_clients[i]])],
                           !.response_header_timeout = IF @ > 0 THEN @ ELSE NoTimeout,
                           !.log_level = LogLevels[@],
                           !.log_format = LogFormats[@]]
  IN  Put(checked, "acme_domains", AcmeDomains(v.routes))

Check ==
  /\ step = "check"
  /\ \/ ~ConfigValid(values) /\ Fail
     \/ /\ ConfigValid(values)
        /\ config' = MakeConfig(values)
        /\ step' = "serving"
        /\ UNCHANGED <<sources, at, flags, raw, values>>

-----------------------------------------------------------------------------
ConfigInit ==
  /\ sources \in Sources
  /\ step = "flags"
  /\ at = 1
  /\ flags = <<>>
  /\ raw = <<>>
  /\ values = Defaults
  /\ config = <<>>

Load == ParseFlag \/ EndFlags \/ LoadFile \/ ApplyEnv \/ ApplyCli \/ Check
=============================================================================
