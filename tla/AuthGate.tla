------------------------------ MODULE AuthGate ------------------------------
(***************************************************************************)
(* The allowed-users gate of a running proxy: requests handled             *)
(* concurrently by the route proxies (server/route.rs), the session store  *)
(* they share, the per-route registry of resource hosts (hosts.rs), the    *)
(* upstream media server, clients that go away, and restarts.              *)
(*                                                                         *)
(* A request occupies a slot p.  Its handler runs without interruption     *)
(* between two awaits, so one action covers everything from one await to   *)
(* the next.  A request that is refused (401, 403, 400), or answered       *)
(* locally as /Users/Public is, changes no state and is not an action: the *)
(* refusals are the guards of Forward and ForwardResource.                 *)
(***************************************************************************)
EXTENDS SessionStore

CONSTANTS
  Slots,          \* requests handled at the same time
  Classes,        \* the endpoints clients call in this instance
  Hosts,          \* resource hosts
  Media,          \* media URLs: the scheme, the host and the path
  AllowedHosts,   \* PROXEMBY_ALLOWED_HOSTS
  AllowedConfigs, \* the values PROXEMBY_ALLOWED_USERS takes over restarts
  Owner,          \* the upstream user a token is issued to
  Disconnects,    \* whether clients may close a connection mid-request
  LogoutsFail,    \* whether a rejected login's upstream logout may fail
  MaxRevokes,     \* bound on logout tasks per token
  None            \* no token, user, host, signature or route

\* Endpoints by the rules that treat them differently (server/auth_gate.rs).
\* "baseLogin" is a login below an extra base path: is_login_path accepts it,
\* is_public_emby_path does not.
LoginClasses == {"login", "baseLogin"}
PublicClasses == {"login", "public"}
AllClasses == LoginClasses \cup {"public", "api", "logout", "playback", "resource"}

Schemes == {"http", "https"}

Signatures == [route : Routes, scheme : Schemes, host : Hosts, key : Secrets \ {NoSecret}]

Requests == [pc : {"idle", "sent", "answered", "body"},
             class : AllClasses \cup {None},
             route : Routes \cup {None},
             tok : Tokens \cup {None},      \* token the client presented
             user : Users \cup {None},      \* credentials of a login
             url : Media \cup {None},       \* URL of a resource
             sig : Signatures \cup {None},  \* signature of a resource URL
             got : Tokens \cup Media \cup {None}] \* what the upstream answered

ASSUME GateAssumption ==
  /\ Classes \subseteq AllClasses
  /\ AllowedHosts \subseteq Hosts
  /\ Media \subseteq [scheme : Schemes, host : Hosts, path : STRING]
  /\ AllowedConfigs \subseteq SUBSET Users
  /\ {} \notin AllowedConfigs
  /\ Owner \in [Tokens -> Users]
  /\ Disconnects \in BOOLEAN
  /\ LogoutsFail \in BOOLEAN
  /\ MaxRevokes \in Nat
  /\ None \notin Tokens \cup Users \cup Media \cup Routes \cup Signatures \cup AllClasses
  /\ Tokens \cap Media = {}

VARIABLES
  req,        \* the request of each slot
  registry,   \* per route, the hosts /_proxy/ may forward to
  revoking,   \* per token, running logout_upstream tasks
  allowed,    \* allowed users of the running process
  live,       \* sessions the upstream server has open (external)
  handed,     \* URLs clients have received in PlaybackInfo answers, signed
  \* History, read by properties only.
  granted,    \* <<token, route>> pairs of accepted logins
  acked,      \* per token, the route of the login answered with 200
  loggedOut,  \* tokens whose logout was carried out and saved
  issued      \* <<route, host>> pairs rewritten since the process started

gateVars == <<req, registry, revoking, allowed, live, handed>>
history == <<granted, acked, loggedOut, issued>>
vars == <<storeVars, gateVars, history>>

Idle == [pc |-> "idle", class |-> None, route |-> None, tok |-> None,
         user |-> None, url |-> None, sig |-> None, got |-> None]

\* The type of every variable (auth.rs, server/route.rs, hosts.rs).
TypeOK ==
  /\ StoreTypeOK
  /\ req \in [Slots -> Requests]
  /\ registry \in [Routes -> SUBSET Hosts]
  /\ revoking \in [Tokens -> Nat]
  /\ allowed \in AllowedConfigs
  /\ live \subseteq Tokens
  /\ handed \subseteq [url : Media, sig : Signatures]
  /\ granted \subseteq Tokens \X Routes
  /\ acked \in [Tokens -> Routes \cup {None}]
  /\ loggedOut \subseteq Tokens
  /\ issued \subseteq Routes \X Hosts

Init ==
  /\ StoreInit
  /\ req = [p \in Slots |-> Idle]
  /\ registry = [r \in Routes |-> {}]
  /\ revoking = [t \in Tokens |-> 0]
  /\ allowed \in AllowedConfigs
  /\ live = {}
  /\ handed = {}
  /\ granted = {}
  /\ acked = [t \in Tokens |-> None]
  /\ loggedOut = {}
  /\ issued = {}

-----------------------------------------------------------------------------
(* Start and stop of the process. *)

\* RouteProxy::new: each route has a registry of its own, with the configured
\* hosts only.
NewRegistries == [r \in Routes |-> AllowedHosts]

\* run and Server::with_stats: open the store, then build the routes.
Start ==
  /\ Open
  /\ registry' = NewRegistries
  /\ allowed' \in AllowedConfigs
  /\ UNCHANGED <<req, revoking, live, handed, history>>

\* Exit or crash: every request and every spawned task is dropped.  Without a
\* state file nothing outlives the process.
Halt ==
  /\ Stop
  /\ req' = [p \in Slots |-> Idle]
  /\ revoking' = [t \in Tokens |-> 0]
  /\ registry' = [r \in Routes |-> {}]
  /\ issued' = {}
  /\ acked' = IF StateFile THEN acked ELSE [t \in Tokens |-> None]
  /\ UNCHANGED <<allowed, live, handed, granted, loggedOut>>

-----------------------------------------------------------------------------
(* A request arrives: handle_with_auth and the start of send_upstream. *)

Become(p, r) == req' = [req EXCEPT ![p] = r]

Forward(p, route, class, tok, user) ==
  /\ up
  /\ req[p].pc = "idle"
  /\ class \in PublicClasses \/ IsValid(tok, route)
  /\ Become(p, [Idle EXCEPT !.pc = "sent", !.class = class, !.route = route,
                            !.tok = tok, !.user = user])
  /\ UNCHANGED <<storeVars, registry, revoking, allowed, live, handed, history>>

\* proxy_resource: a signed URL needs a signature of its route, scheme and
\* host, an unsigned one a valid token; in both cases the route must know the
\* host.  The path is forwarded as it is.
ForwardResource(p, route, tok, sig, url) ==
  /\ up
  /\ req[p].pc = "idle"
  /\ \/ sig = None /\ IsValid(tok, route)
     \/ sig # None /\ Verify(sig, route, url.scheme, url.host)
  /\ url.host \in registry[route]
  /\ Become(p, [Idle EXCEPT !.pc = "sent", !.class = "resource", !.route = route,
                            !.tok = tok, !.url = url, !.sig = sig])
  /\ UNCHANGED <<storeVars, registry, revoking, allowed, live, handed, history>>

\* The inputs: any token with a request, credentials with a login, any
\* signature handed out so far with any resource URL.
Arrive(p) ==
  \E route \in Routes :
    \/ \E class \in Classes \ {"resource"} :
         \E tok \in IF class \in PublicClasses THEN {None} ELSE Tokens,
            user \in IF class \in LoginClasses THEN Users ELSE {None} :
           Forward(p, route, class, tok, user)
    \/ /\ "resource" \in Classes
       /\ \E url \in Media :
            \/ \E tok \in Tokens : ForwardResource(p, route, tok, None, url)
            \/ \E h \in handed : ForwardResource(p, route, None, h.sig, url)

-----------------------------------------------------------------------------
(* The upstream server acts on a request it received (external). *)

\* It opens a session, or gives out the one the user's device already has; a
\* 200 without a token is possible too.
UpstreamLogin(p, t) ==
  /\ req[p].pc = "sent"
  /\ req[p].class \in LoginClasses
  /\ t # None => Owner[t] = req[p].user
  /\ live' = live \cup ({t} \ {None})
  /\ Become(p, [req[p] EXCEPT !.pc = "answered", !.got = t])
  /\ UNCHANGED <<storeVars, registry, revoking, allowed, handed, history>>

UpstreamLogout(p) ==
  /\ req[p].pc = "sent"
  /\ req[p].class = "logout"
  /\ live' = live \ {req[p].tok}
  /\ Become(p, [req[p] EXCEPT !.pc = "answered"])
  /\ UNCHANGED <<storeVars, registry, revoking, allowed, handed, history>>

\* PlaybackInfo JSON that names a media URL.
UpstreamPlayback(p, url) ==
  /\ req[p].pc = "sent"
  /\ req[p].class = "playback"
  /\ Become(p, [req[p] EXCEPT !.pc = "answered", !.got = url])
  /\ UNCHANGED <<storeVars, registry, revoking, allowed, live, handed, history>>

-----------------------------------------------------------------------------
(* The handler resumes. *)

\* proxy_upstream and proxy_resource stream the answer on as it is: every
\* answer that is neither a login's 200 nor PlaybackInfo JSON.
PassThrough(p) ==
  /\ req[p].pc = "sent"
  /\ req[p].class # "logout"
  /\ Become(p, Idle)
  /\ UNCHANGED <<storeVars, registry, revoking, allowed, live, handed, history>>

\* send_upstream gives up: no headers within the timeout (504) or an error
\* (502), whether or not the upstream acted on the request.
SendFails(p) ==
  /\ req[p].pc \in {"sent", "answered"}
  /\ req[p].class # "logout"
  /\ Become(p, Idle)
  /\ UNCHANGED <<storeVars, registry, revoking, allowed, live, handed, history>>

\* handle_with_auth after proxy_upstream: a logout drops the session whatever
\* the upstream answered, and even when it did not answer.
LogoutAnsweredOnly(p, ok) ==
  /\ req[p].pc \in {"sent", "answered"}
  /\ req[p].class = "logout"
  /\ IF req[p].pc = "sent"
       THEN UNCHANGED <<storeVars, acked, loggedOut>>
       ELSE /\ Remove(req[p].tok, ok)
            /\ acked' = [acked EXCEPT ![req[p].tok] = None]
            /\ UNCHANGED loggedOut
  /\ Become(p, Idle)
  /\ UNCHANGED <<registry, revoking, allowed, live, handed, granted, issued>>

LogoutDone(p, ok) ==
  /\ req[p].pc \in {"sent", "answered"}
  /\ req[p].class = "logout"
  /\ LET t == req[p].tok IN
       /\ Remove(t, ok)
       /\ acked' = [acked EXCEPT ![t] = None]
       /\ loggedOut' = IF sessions[t] # NoSession /\ ok
                         THEN loggedOut \cup {t} ELSE loggedOut
  /\ Become(p, Idle)
  /\ UNCHANGED <<registry, revoking, allowed, live, handed, granted, issued>>

\* The headers of a login or PlaybackInfo answer arrived; read_body follows,
\* without a deadline.
ReadHeaders(p) ==
  /\ req[p].pc = "answered"
  /\ req[p].class # "logout"
  /\ Become(p, [req[p] EXCEPT !.pc = "body"])
  /\ UNCHANGED <<storeVars, registry, revoking, allowed, live, handed, history>>

\* read_body fails or the body exceeds the limit: 502.
BodyFails(p) ==
  /\ req[p].pc = "body"
  /\ Become(p, Idle)
  /\ UNCHANGED <<storeVars, registry, revoking, allowed, live, handed, history>>

\* handle_login_response decides on the user the upstream named.
LoginHasToken(r) == r.got # None

LoginAllowed(r) == r.got # None /\ Owner[r.got] \in allowed

\* An accepted login is stored before it is answered: 200 when the save
\* succeeded, 502 when it failed.
LoginWithoutRoute(p, ok) ==
  /\ req[p].pc = "body"
  /\ req[p].class \in LoginClasses
  /\ LoginAllowed(req[p])
  /\ LET t == req[p].got
     IN  /\ Add(t, [route |-> None, user |-> Owner[t]], ok)
         /\ granted' = granted \cup {<<t, req[p].route>>}
         /\ acked' = [acked EXCEPT ![t] = None]
         /\ loggedOut' = loggedOut \ {t}
  /\ Become(p, Idle)
  /\ UNCHANGED <<registry, revoking, allowed, live, handed, issued>>

LoginAccepted(p, ok) ==
  /\ req[p].pc = "body"
  /\ req[p].class \in LoginClasses
  /\ LoginAllowed(req[p])
  /\ LET t == req[p].got
         r == req[p].route
     IN  /\ Add(t, [route |-> r, user |-> Owner[t]], ok)
         /\ granted' = granted \cup {<<t, r>>}
         /\ acked' = [acked EXCEPT ![t] = IF ok \/ acked[t] = r THEN r ELSE None]
         /\ loggedOut' = loggedOut \ {t}
  /\ Become(p, Idle)
  /\ UNCHANGED <<registry, revoking, allowed, live, handed, issued>>

\* Any other login gets 401; a task is spawned to close its upstream session.
LoginRejected(p) ==
  /\ req[p].pc = "body"
  /\ req[p].class \in LoginClasses
  /\ ~LoginAllowed(req[p])
  /\ LET t == req[p].got IN
       \/ t = None /\ UNCHANGED revoking
       \/ /\ t # None
          /\ revoking[t] < MaxRevokes
          /\ revoking' = [revoking EXCEPT ![t] = @ + 1]
  /\ Become(p, Idle)
  /\ UNCHANGED <<storeVars, registry, allowed, live, handed, history>>

\* Registry::allow: the host joins the hosts of the route.
AllowHost(r, h) == registry' = [registry EXCEPT ![r] = @ \cup {h}]

\* rewrite_url: the host is allowed and the URL goes to the client with a
\* signature of the route, its scheme and its host.
RewriteUrl(r, url) ==
  /\ AllowHost(r, url.host)
  /\ handed' = handed \cup {[url |-> url, sig |-> Sign(r, url.scheme, url.host)]}
  /\ issued' = issued \cup {<<r, url.host>>}

\* rewrite_playback_info, once the body is read.
RewritePlayback(p) ==
  /\ req[p].pc = "body"
  /\ req[p].class = "playback"
  /\ RewriteUrl(req[p].route, req[p].got)
  /\ Become(p, Idle)
  /\ UNCHANGED <<storeVars, revoking, allowed, live, granted, acked, loggedOut>>

\* The client closes its connection: hyper drops the handler at its await.
Disconnect(p) ==
  /\ Disconnects
  /\ req[p].pc # "idle"
  /\ Become(p, Idle)
  /\ UNCHANGED <<storeVars, registry, revoking, allowed, live, handed, history>>

\* logout_upstream: one attempt with a ten-second limit, no retry.
RevokeDone(t) ==
  /\ revoking[t] > 0
  /\ revoking' = [revoking EXCEPT ![t] = @ - 1]
  /\ live' = live \ {t}
  /\ UNCHANGED <<storeVars, req, registry, allowed, handed, history>>

RevokeFails(t) ==
  /\ LogoutsFail
  /\ revoking[t] > 0
  /\ revoking' = [revoking EXCEPT ![t] = @ - 1]
  /\ UNCHANGED <<storeVars, req, registry, allowed, live, handed, history>>

-----------------------------------------------------------------------------
UpstreamActs(p) ==
  \/ \E t \in Tokens \cup {None} : UpstreamLogin(p, t)
  \/ UpstreamLogout(p)
  \/ \E url \in Media : UpstreamPlayback(p, url)

\* The steps of a handler that no body read separates from their cause.
HeaderWaitEnds(p) ==
  \/ PassThrough(p)
  \/ SendFails(p)
  \/ ReadHeaders(p)
  \/ \E ok \in BOOLEAN : LogoutDone(p, ok)

BodyRead(p) ==
  \/ BodyFails(p)
  \/ \E ok \in BOOLEAN : LoginAccepted(p, ok)
  \/ LoginRejected(p)
  \/ RewritePlayback(p)

Next ==
  \/ Start
  \/ Halt
  \/ \E p \in Slots :
       Arrive(p) \/ UpstreamActs(p) \/ HeaderWaitEnds(p) \/ BodyRead(p) \/ Disconnect(p)
  \/ \E t \in Tokens : RevokeDone(t) \/ RevokeFails(t)

Spec == Init /\ [][Next]_vars

\* response_header_timeout is set, so a wait for headers ends; a logout task
\* ends within its limit.  Reading a body has no deadline and no fairness.
FairSpec ==
  /\ Spec
  /\ \A p \in Slots : WF_vars(HeaderWaitEnds(p))
  /\ \A t \in Tokens : WF_vars(RevokeDone(t) \/ RevokeFails(t))

-----------------------------------------------------------------------------
(* Properties *)

\* Requests at the upstream server that only a session's token may send there.
Protected(r) ==
  /\ r.pc # "idle"
  /\ \/ r.class \in {"baseLogin", "api", "logout", "playback"}
     \/ r.class = "resource" /\ r.sig = None

\* A request that needs a session is at the upstream server only with a token
\* whose login was accepted on this very route (handle_with_auth), over any
\* number of restarts, failed saves and logouts of other clients.
GateSound ==
  \A p \in Slots : Protected(req[p]) => <<req[p].tok, req[p].route>> \in granted

EverAllowed == UNION AllowedConfigs

\* A user no configuration ever allowed has no session, in memory or on disk,
\* however the upstream server answers logins (handle_login_response).
StrangersOut ==
  \A t \in Tokens : Owner[t] \notin EverAllowed =>
    /\ sessions[t] = NoSession
    /\ file.sessions[t] = NoSession

\* A login answered with 200 is valid on its route until a logout or a login
\* elsewhere replaces it: while the process runs, and with a state file on
\* disk as well, whichever saves of other sessions failed and whenever the
\* process stopped (Store::add saves before the answer).
AckedDurable ==
  \A t \in Tokens : acked[t] # None =>
    /\ up => IsValid(t, acked[t])
    /\ StateFile => /\ file.sessions[t] # NoSession
                    /\ file.sessions[t].route = acked[t]

\* A logout that was saved is final: no save of another session, no restart
\* and no concurrent handler brings the session back before the next login
\* with that token (Store::remove, handle_with_auth).
LogoutFinal ==
  \A t \in loggedOut : sessions[t] = NoSession /\ file.sessions[t] = NoSession

\* A secret in the state file is never replaced (Store::open draws one only
\* when the file has none), so signatures outlive the process.
SecretStable == [][file.secret # NoSecret => file'.secret = file.secret]_vars

\* A signature in a client's hands is worth what it was: with a state file
\* it is made with the secret on disk, so it verifies for the URL it came with
\* in this process and in every later one, however often the process stopped
\* and whichever saves failed in between (Store::open, save, sign, verify).
SignaturesVerify ==
  StateFile => \A h \in handed :
    /\ h.sig.key = file.secret
    /\ up => Verify(h.sig, h.sig.route, h.url.scheme, h.url.host)

\* A resource request reaches a host only if the host was configured or is in
\* a URL rewritten on this route since the start; a signed request only if a
\* URL of this route, scheme and host was handed out under the secret in use
\* (proxy_resource).
ResourceSound ==
  \A p \in Slots : req[p].pc # "idle" /\ req[p].class = "resource" =>
    LET url == req[p].url IN
      /\ url.host \in AllowedHosts \/ <<req[p].route, url.host>> \in issued
      /\ req[p].sig # None =>
           \E h \in handed :
             /\ h.sig = [route |-> req[p].route, scheme |-> url.scheme,
                         host |-> url.host, key |-> secret]
             /\ h.url.scheme = url.scheme
             /\ h.url.host = url.host

\* A logout that passed the gate ends the session even when the upstream
\* server never answers, as long as the client stays (handle_with_auth).
LogoutTakesEffect ==
  \A t \in Tokens :
    (\E p \in Slots : req[p].class = "logout" /\ req[p].tok = t)
      ~> (sessions[t] = NoSession)

\* The store with its file, seen as a map with a saved copy.  A process that
\* is down has what its file holds.
Map == INSTANCE DurableMap
         WITH Keys <- Tokens, Values <- Session, Absent <- NoSession, Durable <- StateFile,
              current <- IF up THEN sessions ELSE file.sessions, saved <- file.sessions

\* Logins, logouts, failed saves and restarts, in any interleaving of the
\* handlers, change the sessions only as a map with a saved copy does: one at
\* a time, and back to a state that was once current (Store::open, add, remove,
\* save).
ImplementsMap == Map!Spec

-----------------------------------------------------------------------------
(* The inductive invariant behind the safety properties. *)

\* What a request in flight has got from its arrival and from its answer.
RequestShape ==
  \A p \in Slots : req[p].pc # "idle" =>
    /\ up
    /\ req[p].route \in Routes
    /\ req[p].class \in AllClasses
    /\ req[p].class = "logout" => req[p].tok \in Tokens
    /\ req[p].class \in LoginClasses => req[p].got \in Tokens \cup {None}
    /\ req[p].class = "resource" => req[p].url \in Media
    /\ req[p].class = "playback" /\ req[p].pc # "sent" => req[p].got \in Media

\* A stored session comes from an accepted login of a user allowed once.
Grounded(map) ==
  \A t \in Tokens : map[t] # NoSession =>
    <<t, map[t].route>> \in granted /\ Owner[t] \in EverAllowed

\* The secret is on disk before it is used; without a path nothing is.
SecretSaved ==
  /\ up => secret # NoSecret
  /\ up /\ StateFile => file.secret = secret
  /\ ~StateFile => file = [secret |-> NoSecret, sessions |-> EmptyMap]

\* No rewritten URL, and without a state file no login, is promised beyond the
\* end of the process.
NothingOwed ==
  ~up => /\ issued = {}
         /\ ~StateFile => \A t \in Tokens : acked[t] = None

\* A registry holds configured hosts and those handed out since the start.
RegistryExact ==
  \A r \in Routes : \A h \in registry[r] : h \in AllowedHosts \/ <<r, h>> \in issued

\* A signature was made for the scheme and the host of the URL it is in.
SignaturesMatch ==
  \A h \in handed : h.sig.scheme = h.url.scheme /\ h.sig.host = h.url.host

GateInv ==
  /\ TypeOK
  /\ RequestShape
  /\ Grounded(sessions)
  /\ Grounded(file.sessions)
  /\ GateSound
  /\ SecretSaved
  /\ NothingOwed
  /\ AckedDurable
  /\ LogoutFinal
  /\ RegistryExact
  /\ SignaturesMatch
  /\ SignaturesVerify
  /\ ResourceSound

(* Statements of the documentation. *)

\* README: with a state file "logins and signatures survive restarts".  A
\* signature that verifies under the running process' secret is on a URL that
\* /_proxy/ serves.
SignedUrlsSurvive ==
  \A h \in handed : up /\ h.sig.key = secret => h.url.host \in registry[h.sig.route]

\* README: rewritten URLs carry a signature, so "`/_proxy/` only serves URLs
\* handed out in an authorized `PlaybackInfo` response": a signed request is
\* for a URL that was handed out with its signature.
OnlyHandedOut ==
  \A p \in Slots : req[p].pc # "idle" /\ req[p].class = "resource" /\ req[p].sig # None =>
    [url |-> req[p].url, sig |-> req[p].sig] \in handed

\* README: a request needs an access token from a login by "those upstream
\* users" that PROXEMBY_ALLOWED_USERS names.
OnlyAllowedUsers ==
  \A p \in Slots : Protected(req[p]) => Owner[req[p].tok] \in allowed

\* README: logins by other users "get 401 and their upstream session is
\* logged out", here with an upstream server that accepts every logout.
RejectedLoggedOut ==
  \A t \in Tokens : (revoking[t] > 0) ~> (t \notin live)
=============================================================================
