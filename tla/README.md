# A TLA+ model of proxemby

proxemby is a reverse proxy for Emby media servers. It routes requests by host
name, keeps the proxy to a list of allowed upstream users, rewrites media URLs
in `PlaybackInfo` answers so that they flow through `/_proxy/`, counts traffic,
and shuts down gracefully. This directory holds models of its parts, from the
command line to the exit, the TLC configurations that check them, and proofs
that TLAPS checks.

## Inventory

| Component | State | Operations | What is hard |
| --- | --- | --- | --- |
| Session store (`auth.rs`, `write_private_file` in `util.rs`) | map token -> session, signing secret, state file | open, add, remove, is_valid, sign, verify, save | a save fails after memory changed; crashes; restarts |
| Allowed-users gate (`server/route.rs`, `server/auth_gate.rs`) | one task per request | login, logout, gated request, resource request, detached logout of a rejected login | check before an await, effect after it; clients that leave; upstream timeouts |
| Resource hosts (`hosts.rs`) | per route: hosts `/_proxy/` may reach | allow on rewrite, lookup on request | lost on restart while signatures survive |
| Rewriter (`rewrite.rs`) | scanner position, path, strings found, output | scan, rewrite a URL, splice | escapes and numbers at the end of the text; nesting limit; slices; URLs that must be found again |
| Statistics (`stats.rs`, `server/body.rs`) | sharded atomic counters, history under a mutex, stats file | count, stream start/end, flush, report, scrape | unsynchronised scans; two flushes; midnight; failing writes; restart |
| Admin listener (`server/admin.rs`) | none of its own | `/stats`, `/metrics` | reads race flushes |
| Process (`main.rs`, `server/mod.rs`, `server/tls.rs`, `server/shutdown.rs`) | listeners, connections, tunnels, the flush task, the shutdown channels | accept, handshake, serve, drain, final flush, exit | accept races the signal; grace period; tunnels hold no signal |
| Configuration (`config.rs`) | flags, layers of values | parse flags, load file, apply environment and flags, check | which layer wins; arguments left over; duplicate routes |
| Request handling (`server/mod.rs`, `server/route.rs`, `server/client_filter.rs`, `server/auth_gate.rs`, `auth.rs`) | none of its own | choose the route, filter the client, match the path, find the token, rewrite headers | order of removals and additions; boundary cases of prefixes, paths and queries |
| Logging (`logging.rs`), `stats` subcommand, ACME | none of their own | formatting; one HTTP request; the rustls-acme library | - |

The components meet in few places. Every request handler shares the store and
its route's registry; the store is behind an `RwLock` whose write guard spans
the change and the save, the registry behind another. Handlers and response
bodies add to the counters without a lock; the minute flush, the flush on exit
and the admin endpoints read them. Whatever must finish before the exit holds a
clone of `ShutdownSignal`.

What makes each part correct:

- store and gate: a protected request carries a token accepted on its route;
  an answered login is durable; a saved logout is final; the secret is stable;
- registry and signatures: a resource request goes to a configured or discovered
  host only, a signed one with a signature for its route, scheme and host, and
  signatures outlive the process;
- statistics: nothing recorded twice, nothing lost but the last unflushed
  minute, the history bounded, reports consistent with flushes;
- process: a shutdown reported as clean is clean, its flush covers everything,
  and it always ends;
- rewriter: a body is changed in its URL values and nowhere else, never reads or
  cuts outside the text, and a rewritten URL leads back to its origin;
- configuration: the strongest layer wins, and what is wrong stops the start;
- requests: routed by name, filtered by the address the configuration trusts,
  forwarded with the proxy's own headers, logged without secrets.

## Modules

`SessionStore` models `auth.rs`: `Open`, `Add`, `Remove`, `IsValid`, `Sign`,
`Verify`, `Save`. An operation is one step because the write lock is held from
the insertion to the end of the save and the file is replaced by a rename. The
`ok` parameter is the result of the save; a failed one leaves the change in
memory. Secrets are numbered as they are drawn. A signature is a record of the
secret and of what was signed: the route, the scheme and the host.

`AuthGate` extends it with requests in flight. A request occupies a slot and
moves `sent -> answered -> body`; every action runs from one await of the
handler to the next. `Forward` is `handle_with_auth` up to the upstream call,
`ForwardResource` is `proxy_resource`; their guards are the refusals (401, 403,
400), which change nothing and are no actions. `LogoutDone` is the tail of
`handle_with_auth`; `LoginAccepted` and `LoginRejected` are the two ends of
`handle_login_response`; `RewritePlayback` is `rewrite_playback_info`;
`RevokeDone` and `RevokeFails` are `logout_upstream`. `SendFails` is the header
timeout or a transport error, with the upstream server having acted or not.
`Disconnect` is hyper dropping a handler whose client left. `Start` and `Halt`
are a restart, possibly with other allowed users. The Emby server is external:
it hands out a user's token, closes sessions, names media URLs. A media URL is a
record of scheme, host and path (`Media`); `RewriteUrl` hands it out with the
signature that `rewrite_url` gives it.

`Stats` models `stats.rs`. `Count` adds on any shard; a flush is `Call` (reads
the date), `Lock`, then per cell `ScanShard`s, `Advance`, `Credit`, and one
`Write`; a report is `Call`, `Lock`, `ScanShard`s, `ReadGauge`, `GaugeShard`s,
`Answer`; `Scrape` is `prometheus`, which takes no lock. A cell is a route and
kind; one number stands for the three fields of `Totals`, which the code treats
alike. `Restart` is `Stats::open` in a new process.

`Lifecycle` models the process. `listener[l]` follows the biased select of
`accept`; `conn[c]` the task of a connection; `tunnel[c]` the detached task of a
WebSocket; `flusher` is `flush_stats` with its flush on a blocking thread;
`main` is `run`. `Holders` are the tasks that keep `done.recv()` from returning.
The traffic of a connection is one unit per response.

`DurableMap` is what the store promises: a map that changes one key at a time,
whose changes are saved whole or not yet, and that a restart takes back to the
saved copy. `AuthGate!ImplementsMap` is the refinement, with the sessions in
memory for the map and the sessions on disk for the copy.

`Ledger` is what the statistics promise: traffic is served one response at a
time, a flush files some of what was served and is not filed yet, and a restart
forgets what is not filed. Locks, scans, days and failing writes are not in it.
`Stats!ImplementsLedger` is the refinement, with the file's record and what the
process counted since for the served traffic.

`JsonScan` models the scanner of `rewrite.rs`, one action per turn of its
loops; the recursion of `value`, `object` and `array` is the stack `frames`
that the code keeps anyway. A text is a sequence of symbols: characters that
the code tells apart, with one symbol for a literal, for `http:`, for a control
character, for any other character. `Reject` stands for every `return None`.
`ResourceUrl` has `rewrite_url` and `proxy_resource` as operators, down to
`valid_host`, `join_url_path`, `escape_path` and `percent_decode`, and
`route_request`, which takes a path for a resource only when it starts with
`/_proxy/`. `Rewriter`
puts them together as `rewrite_playback_info`: `ScanStep`, a `Splice` per URL
found, `Finish`.

`Config` models `from_sources`: `ParseFlag` is one turn of the loop of
`parse_flags`, `EndFlags` what follows it, then `LoadFile`, `ApplyEnv`,
`ApplyCli` and `Check`. Every option of `Raw` is there under its name, with its
kind; texts are what semicolons and commas separate. `ClientFilter` has
addresses and prefixes as numbers of a few bits, with the shift of `mask` as the
machine does it. `Headers` has the hop-by-hop rules, `RequestRules` the path,
query and token rules, `Orders` puts the elements of a set in sequence.
`Frontend` composes them: a process loads its
configuration and then answers requests with it, `Handle` being
`Server::handle` with all it calls up to the upstream request.

`AuthGateProofs`, `LifecycleProofs`, `RewriterProofs`, `StatsProofs` and
`FrontendProofs` hold the proofs about the specifications. `ClientFilterProofs`
and `QueryLogProofs` hold the facts about the operators of `ClientFilter` and
`RequestRules` that the last one cites, `SumTheorems` those about sums and least
elements. The `MC` modules give the constants their values; `MCRewriter` and
`MCFrontend` also build, without the code's way of working, what each of their
inputs should come to. Variables grouped under "History" are read by properties only and guard no
action. An operator that stands before a definition and changes it in one place
is a mutant: a run must fail with it in the definition's place.

## Runs

| Run | Shows |
| --- | --- |
| `gate_sessions` | `GateSound`, `AckedDurable`, `LogoutFinal`, `SecretStable`, `ImplementsMap`: two concurrent requests, two tokens, two routes, failing saves, disconnects, restarts |
| `gate_users` | `TypeOK`, `StrangersOut`, `LogoutTakesEffect`: an allowed and a foreign user, both login paths, logouts with failing upstreams, under fairness |
| `gate_resources` | `ResourceSound`, `SignaturesVerify`: signed and unsigned resource requests, two routes and schemes, a configured and a discovered host, restarts and disconnects |
| `stats_flush` | `TypeOK`, `ImplementsLedger`, `FlushCovers`, `KeptDays`: two flushes, three days of which two are kept, failing writes, restarts |
| `stats_report` | `ScanBounds`, `ReportConsistent`, `GaugeBounds`: a report or scrape against a flush, traffic and streams on two shards |
| `life_shutdown` | `TypeOK`, `DrainedClean`, `OneLateAccept`, `CleanExitFiled`, `FileGrows`, `ShutdownEnds`, under fairness |
| `rewriter` | `TypeOK`, `InBounds`, `SpliceSafe`, `ScanExact`, `OutputExact`, `RoundTrip`, `Advances`: documents, token sequences, numbers, strings and URLs, signed and unsigned |
| `frontend` | `TypeOK`, `Layered`, `RefusalsExact` of configurations; `RoutedExactly`, `ClientsExact`, `HopsRemoved`, `ForwardedOwn`, `LoginsRead`, `TokensFound`, `LogsRedacted` of requests |

Four runs show a disagreement between the README of the repository and the code
and are expected to be violated:

| Run | README | Code |
| --- | --- | --- |
| `signed_urls_restart` | "logins and signatures survive restarts" | signatures verify after a restart, but the registry is not saved, so their URLs get 403 until the host is rewritten again |
| `user_removed` | only logins by the allowed users are accepted | saved sessions are not compared with the allowed users of the new start |
| `rejected_login` | other users' "upstream session is logged out" | one try in a detached task that an exit drops; the run assumes an upstream server that accepts every logout |
| `websocket_error` | "WebSocket traffic is counted when the connection closes" | only when it closes without an error |

Nine more configurations show further disagreements, each with one property that
states the sentence quoted; TLC reports every one of them violated within
half a minute. They are not among the runs of `PROJECT.json` and are started by hand
(`tlc -config <name>.cfg <module>`):

| Configuration | Module, property | README, comment or message | Code |
| --- | --- | --- | --- |
| `signed_path` | `MCAuthGate`, `OnlyHandedOut` | README: "`/_proxy/` only serves URLs handed out in an authorized `PlaybackInfo` response" | a signature covers route, scheme and host, not the path; relative URLs below a handed-out one work because of it |
| `json_plus_escape` | `MCRewriter`, `ValidatedJson` | `rewrite.rs`: "Validates `text` as JSON", `None` otherwise | a `\u` escape may have a plus sign for its first digit |
| `ipv6_refused` | `MCRewriter`, `DiscoveredAllowed` | README: hosts discovered in PlaybackInfo "are allowed automatically" | an IPv6 host is escaped in the rewritten path and looked up as it stands there: 403 |
| `public_path` | `MCRewriter`, `BaseServed` | README: `public_url` is the URL clients use, rewritten URLs "use this base URL" | the path of `public_url` stands before `/_proxy/`, where `route_request` does not look for it |
| `empty_host` | `MCFrontend`, `PublicNamed` | `config.rs`: the public URL "must include a host" | `http://:8` passes and serves requests without a host |
| `blank_config` | `MCFrontend`, `ConfigFileRead` | README: with `-c` and a missing file "startup fails" | a blank path reads no file |
| `hidden_port` | `MCFrontend`, `ClientHidden` | README: "Do not send `X-Forwarded-*`" | `x-forwarded-port` is not in `IDENTITY_HEADERS` |
| `token_logged` | `MCFrontend`, `TokensUnlogged` | README: "without logging common token query values" | `x-emby-token` and `x-mediabrowser-token`, which the gate reads, are not in `SENSITIVE_QUERY_KEYS` |
| `malformed_logged` | `MCFrontend`, `MalformedUnlogged` | the same sentence | a query with a malformed part is logged as it is |

The properties of the passing runs leave these cases out: `RoundTrip` is sure of
an answer only for URLs with a path and a host that needs no escape, and holds
the others to a refusal (`UnsureTexts`); `ScanExact` and `OutputExact` do not
judge texts with signs in `\u` escapes (`SignedEscapes`); `RefusalsExact` does
not judge a second `--`, a blank `-c` and a public URL without a name
(`PassedBy`); `ForwardedOwn` is about `IDENTITY_HEADERS` and `LogsRedacted`
about well-formed queries and `SENSITIVE_QUERY_KEYS`.

### Bounds

Two slots are enough for the races of the gate: each is between one handler
that checked and one that changes. Two tokens distinguish a session from
another one whose save carries it along; two routes distinguish a token or a
signature from its use elsewhere. `Media` has one URL per scheme and host, so
that a signature can be presented with another of either; `signed_path` has two
paths on one host, and the runs about sessions have none. `MaxSecrets` is the number of starts that may
draw a secret, `MaxRevokes` the logout tasks per token. In `Stats`, two cells
with one shard exercise the flush order, one cell with two shards the torn
scans; `KeepDays` is 2 with three days, so that pruning happens;
`MaxTraffic` bounds the traffic of a cell over all processes. In `Lifecycle`,
a TLS listener, two connections and one unit of traffic per kind let a late
accept, a busy connection, a tunnel and both flushes overlap; a plain listener
is one whose handshakes are over at once, and its safety is proved with any
others. Symmetry is used for slots and flushers, in runs without liveness.

In `rewriter`, documents are containers of up to two values, nested twice without
white space and once with it, holding literals and URLs, and single chains up to
one level beyond `MaxDepth` = 2 (`MAX_DEPTH` is 512); in addition all sequences of up to `MaxTokens` tokens, all
texts of up to `MaxNumber` symbols of numbers, strings of escapes, surrogates
and their truncations, and URLs of every combination of scheme, user, host, path
and tail from small sets. Whether a text is JSON and what it contains is known
from how it was generated, not from scanning it.

In `frontend`, command lines are all sequences of up to three of 21 forms of
arguments; every option is set in every combination of file, environment and
flag, with good, blank and bad texts; `debug` and `log_level` likewise in all
layers at once; pairs of routes over all forms of public URLs. Addresses have 3
bits in IPv4 and 5 in IPv6 with the high bits `Mapped` for mapped ones, and
every prefix length of both is tried, 0 and the full width included. Paths are
all of up to three segments that a rule names, headers all combinations of
`Connection` tokens with the headers they name, queries up to two parts.

The runs of `Lifecycle` do not check deadlock: after the exit nothing happens.

### Fairness

`AuthGate!FairSpec` assumes that a wait for response headers ends, which
`response_header_timeout` guarantees when it is set (it is by default), and that
a logout task ends, which its ten-second limit guarantees. Reading a body has no
deadline in the code and no fairness in the model. In `gate_users` clients
stay connected: a client that leaves cancels its own logout.

`Lifecycle!FairSpec` assumes that the grace timer fires and that a file write
ends. The flush on exit gets strong fairness: it competes for the mutex with a
flush that runs once a minute at most. Connections, handshakes, clients,
upstream servers and tunnels have no fairness.

## Proofs

TLAPS proves the following for every value of the constants.

`AuthGateProofs`: `TypeCorrect`, `GateSoundness`, `StrangersStayOut`,
`LoginDurability`, `LogoutIsFinal`, `SignaturesOutlive`, `ResourceSoundness` and
`SecretNeverChanges`, for any sets of tokens, routes, users, hosts, media URLs and slots,
with and without a state file (the runs all have one), from `StoreAssumption` and `GateAssumption`
(tokens, media URLs and the markers are distinct; allowed hosts are hosts; every
configuration names some user). The inductive invariant is `GateInv`. The
properties alone are not inductive: `GateSound` needs `Grounded` (every session
in memory *and on disk* comes from an accepted login, or a restart would bring
back others); `AckedDurable` needs `SecretSaved` and `NothingOwed` (what is
promised when the process ends without a file); `SignaturesVerify` needs
`SecretSaved` (a running process has a secret, and with a state file it is the
one on disk) and `SignaturesMatch` (a signature handed out with a URL is for its
scheme and host); `ResourceSound` needs `SignaturesMatch` and `RegistryExact`.
`RequestShape` ties a request in flight to the values its answer can have.
The invariant is split into `RestInv` and a part per slot, `SlotInv`, so that
most actions need one lemma about the slot they move (`RequestStep`).

`LifecycleProofs`: `TypeCorrect`, `ShutdownIsClean`, `OneAcceptAfterStop`,
`CleanExitLosesNothing` and `FileNeverShrinks`, for any listeners, connections
and traffic. The inductive invariant `LifeInv` adds `LateOnce` (a listener past
the signal check has accepted nothing late) and `Accounts` (a flush in progress
has read at least what the file holds; the flush after a clean shutdown has read
everything served).

`AuthGateProofs!Refinement`: the gate implements `DurableMap`, every step of a
request being a change of one key, a restart or a stutter. It needs no more than
the type invariant: a save writes the whole map in memory.

`RewriterProofs`: `RewriterTypes`, `ScanInBounds`, `SplicesAreSafe` and
`RewriterAdvances`, for any set of texts over any symbols and any nesting limit,
from `ScanAssumption` and `RewriterAssumption`. The inductive invariant
`SpliceInv` adds to the three invariants where the current string began: at a
quote, behind every string found, so that the next one found cannot overlap
them, and that the splice starts at the beginning. `RewriterAdvances` follows
from the rank of the scanner's states at one position.

`StatsProofs`: `StatsTypeCorrect`, `StatsNeverOvercounts`,
`StatsImplementsLedger`, `StatsFlushCovers`,
`StatsScanBounds`, `StatsReportConsistent`, `StatsKeptDays` and
`StatsGaugeBounds`, for any number of cells, shards, days and kept days, any
flushes and readers and any traffic, from `StatsAssumption` (these numbers are
positive; a flush is not a reader and neither is the marker for nobody). The
inductive invariant `StatsInv` has these parts:

- `Placed`: who is past its wait for the mutex holds it, which makes flushes and
  reports exclude each other;
- `Scanning` and `Gauging`: what a scan has read and what it has *still to read*
  lie together between the total at its start and the total now. The bound on
  the sum alone is not inductive, as traffic arrives on shards on both sides of
  the scan;
- `Watermark`: the holder of the mutex found every cell flushed no further than
  what it counted when it took the mutex, and takes it at least that far, cell
  by cell. This is what `FlushCovers` needs, since the scans are not one step;
- `Books`: recorded days, pruned days and a difference taken but not yet
  credited add up to what is flushed. `NeverOvercounts` and `ReportConsistent`
  are its readings; without the part in flight it does not survive `Advance`;
- `Pruned`: below everything gone there are `KEEP_DAYS` later days, in memory
  *and* on disk, and below every day that is on disk only. `KeptDays` alone
  does not survive a failed write followed by a restart.

`StatsImplementsLedger` maps every step to one of `Ledger` or to a stutter: a
`Count` serves, a successful `Write` files, a `Restart` forgets. That a write
files no more than was served is `Books`; that it never takes back what an
earlier one filed needs one invariant more (`DiskBehind`): the file is never
ahead of what the memory records of a cell, pruned days included. Each amount is
counted in one lemma for the history and the refinement (`CountServes`).

`SumTheorems` has no induction theorem to cite, since those take the predicate
as an operator: a property of the sums that failed for some set would fail for
one of least size (`LeastOf`, from `WFMin`), and that one is refuted. The table
that `SumFunctionOnSet` chooses is shown to exist the same way (`TableExists`,
`TableUnique`), after which a sum can be split, changed in one place and
compared (`SumTake`, `SumSplit`, `SumChange`).

`FrontendProofs`: for every configuration, every request and every reading of
texts in the constants, from `LowerAssumption` (an empty text has no capitals),
`TokenAssumption` (no session has an empty token, which `handle_login` sees to),
`WidthAssumption`, `AddressAssumption` and `NetworkAssumption` (a text that is
read as an address is read as one of its family's width), `ByteOrderAssumption`
and `SourceAssumption` (arguments and variables are texts, options of a file
have the types of `Raw`):

- `FrontHopsRemoved` and `FrontForwardedOwn`: what `prepare_outbound_headers`
  leaves (`Prepared`) and what `proxy_upstream` makes of that (`Outbound`), name
  by name, for any header map. With `hide_client` no header of
  `IDENTITY_HEADERS` is left; without it the four of them that the proxy does
  not set itself arrive as the client sent them;
- `FrontLoginsRead`: `trim_matches` and the dropped prefix take no segment of a
  login at the end of a path (`SegmentsEnd`), so `is_login_path` finds every
  path that ends in one (`LoginEnds`);
- `FrontTokensFound`: the first token of five places is one of those carried,
  and missing only if all five have none (`TokenCarried`);
- `FrontStrongestSays`: flags before environment before file before default, for
  every option and any sources, `debug` speaking for `log_level` within its
  layer. It is the general form of what `Layered` checks on texts;
- `FrontRoutesApart`: served routes have different host names;
- `FrontRoutedByHost`: a request is answered by the one route with its host
  name, and with 404 exactly when there is none. It is the general form of what
  `RoutedExactly` checks, down to how a name is read from a URL and a header;
- `FrontClientsExact`: the client filter, for networks and addresses of any
  width, from `ClientFilterProofs!PrefixExact`;
- `FrontLogsRedacted`: what is logged of a well-formed query, from
  `QueryLogProofs!QueryLogged`;
- `FrontTypeOK`: the position in the arguments, the layers, the configuration
  and the answers.

The invariants are `FrontInv` (an answer is one to a request under the served
configuration, a forwarded one comes from `ProxyUpstream` past the token check),
`LayerInv` (which layers lie in `values` at each step, and what is served was
checked), `ClientInv`, `LogInv` and `AnswerInv` (what the filter, the log and
the map of routes say of an answer) and `TypeInv`. `TypeOK` alone is not
inductive: that a served timeout is a number needs that the flag's text was
checked to be one when it was read, by the only flag of that name
(`FlagsApart`), and that an environment that was applied had passed its checks.

`ClientFilterProofs`: `PrefixExact` says that `ParsePrefix` and `PrefixContains`,
with the shift of `mask` as the machine does it, compare exactly the leading bits
that the network names. That 2^k is positive and doubles with k is read off the
number of subsets of k elements (`PowerFacts`), since no induction is at hand;
equality of quotients and equality of the bits above are then two readings of
the same fact (`SameQuotient`, `SharedBits`), as there is no least number of
leading bits for which they differ.

`QueryLogProofs`: `QueryLogged` rests on three groups of lemmas. `Ordered` and
`SameOrder` say what `InOrder` makes of a set and a total relation: every element
once, in the order of the relation, and the same sequence through an increasing
bijection, which is what a stable sort keeps of the values of one key.
`KeysOrdered` shows that the order of keys is total, by the first place where two
differ. `EscapedBack` and `TextBack` show that decoding undoes escaping of
whatever decoding can yield. The log of a query can therefore be read back as
the query with its sensitive values replaced.

Only model-checked:

- the liveness properties `LogoutTakesEffect` and `ShutdownEnds`: fairness and
  ENABLED are beyond TLAPS;
- `ScanExact`, `OutputExact`, `RoundTrip`: they compare the code's algorithms
  with recursive reference definitions;
- `Layered`, `RefusalsExact`, `RoutedExactly`: they compare with the meaning that
  `MCFrontend` gives each of its texts, which exists for those only. What of
  them can be said of every text is proved as `FrontStrongestSays` and
  `FrontRoutedByHost`.

## Observed

The models are of the code as it is; these of its corners came up while
modelling, and no document of the repository speaks of them:

- a rewritten URL without a path is answered with 400; slashes at both ends of a
  path are lost and `%FF` becomes U+FFFD (`RoundTrip`);
- a second `--` is passed by; a blank list in the environment is ignored while
  `,` clears it (`RefusalsExact`, `Layered`);
- the check that TLS has a certificate domain can never fail, since every route
  has one;
- a network of mapped addresses with a prefix length matches no client
  (`ClientsExact`);
- without `hide_client` the client's `Via` and `X-Real-IP` reach the upstream
  server as they are (`ForwardedOwn`).

## Left out

- A request that is refused, or answered locally as `/Users/Public` is, changes
  no state.
- The scheme that the registry remembers with a host: `proxy_resource` only asks
  whether there is one.
- A report's split into today and this month: `Stats` has their common part, the
  traffic not yet flushed and the stored days together.
- In `AuthGate` paths are classes of endpoints, `Frontend` has the paths; a
  path that is public and a `PlaybackInfo` path at once is not enumerated in
  `AuthGate`.
- An upstream server that acts on a request after the proxy gave up on it is
  modelled as having acted before.
- A token collision between users, `created_at`, the wording of log lines, the
  headers of answers.
- A body that is not UTF-8 is handed on as it is; texts are symbols. `Frontend`
  answers one request at a time and has one valid token: concurrent requests and
  sessions are in `AuthGate`, and a request of `Frontend` for `/_proxy/` is
  handed to `ResourceUrl`.
- A target that is no URI gets 502 or 400 before a request is sent.
- TOML is parsed by a library; a file is its options or malformed.
- `sanitize_url_string` and the tables of `stats` format; the certificate state
  machine is that of rustls-acme; `proxemby stats` is one HTTP request.
- Power loss: the file is synced, its directory is not.
- A server without statistics has no flush task; `Lifecycle` always has one.
- Failures while starting (a port in use, an unreadable file) end the process
  before it serves and change no file.

## Plan

1. done: `SessionStore`, `AuthGate`, `Stats`, `Lifecycle`, their runs, and the
   proofs of `AuthGate` and `Lifecycle`.
2. done: `JsonScan`, `ResourceUrl`, `Rewriter` with their proofs; `Config`,
   `ClientFilter`, `Headers`, `RequestRules`, `Frontend`; `DurableMap` and its
   refinement.
3. done: the proofs of `Stats`, with the sums it needs; of `Frontend` those of
   headers, logins, tokens and layers.
4. done: `Ledger` and its refinement; the client filter for any width; the log
   of every query; types and routing of `Frontend`.

Not planned: the shutdown as a refinement of a drain in one step, which would
say little more than `DrainedClean` and `CleanExitFiled`; the directory sync
after a rename, which the code leaves out.
