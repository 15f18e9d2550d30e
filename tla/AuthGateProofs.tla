--------------------------- MODULE AuthGateProofs ---------------------------
(***************************************************************************)
(* Proofs that the safety properties of AuthGate hold for every number of  *)
(* tokens, routes, users, hosts and concurrent requests, with and without  *)
(* a state file.  GateInv is inductive: each action preserves it.          *)
(***************************************************************************)
EXTENDS AuthGate, TLAPS

\* What ResourceSound says of one resource request.
ServedRightly(r) ==
  /\ r.url.host \in AllowedHosts \/ <<r.route, r.url.host>> \in issued
  /\ r.sig # None =>
       \E h \in handed :
         /\ h.sig = [route |-> r.route, scheme |-> r.url.scheme,
                     host |-> r.url.host, key |-> secret]
         /\ h.url.scheme = r.url.scheme
         /\ h.url.host = r.url.host

\* The part of GateInv that speaks of one request at a time.
SlotInv(r) ==
  /\ r \in Requests
  /\ r.pc # "idle" =>
       /\ up
       /\ r.route \in Routes
       /\ r.class \in AllClasses
       /\ r.class = "logout" => r.tok \in Tokens
       /\ r.class \in LoginClasses => r.got \in Tokens \cup {None}
       /\ r.class = "playback" /\ r.pc # "sent" => r.got \in Media
       /\ r.class = "resource" => r.url \in Media /\ ServedRightly(r)
  /\ Protected(r) => <<r.tok, r.route>> \in granted

\* The part of GateInv that speaks of everything but the requests.
RestInv ==
  /\ StoreTypeOK
  /\ registry \in [Routes -> SUBSET Hosts]
  /\ revoking \in [Tokens -> Nat]
  /\ allowed \in AllowedConfigs
  /\ live \subseteq Tokens
  /\ handed \subseteq [url : Media, sig : Signatures]
  /\ granted \subseteq Tokens \X Routes
  /\ acked \in [Tokens -> Routes \cup {None}]
  /\ loggedOut \subseteq Tokens
  /\ issued \subseteq Routes \X Hosts
  /\ Grounded(sessions)
  /\ Grounded(file.sessions)
  /\ SecretSaved
  /\ NothingOwed
  /\ AckedDurable
  /\ LogoutFinal
  /\ RegistryExact
  /\ SignaturesMatch
  /\ SignaturesVerify

SlotsInv == req \in [Slots -> Requests] /\ \A p \in Slots : SlotInv(req[p])

\* The invariant falls into those two parts.
LEMMA SplitInv == GateInv <=> RestInv /\ SlotsInv
  BY DEF GateInv, TypeOK, RestInv, SlotsInv, SlotInv, RequestShape, GateSound,
         ResourceSound, ServedRightly

\* The same in the next state.
LEMMA SplitInvNext == GateInv' <=> RestInv' /\ SlotsInv'
  BY SplitInv, PTL

\* A slot that is free satisfies its part whatever the rest of the state is.
LEMMA IdleSlot == SlotInv(Idle) /\ Idle \in Requests /\ Idle.pc = "idle"
  BY DEF SlotInv, Idle, Requests, Protected

LEMMA IdleSlotNext == SlotInv(Idle)'
  BY IdleSlot, PTL

\* The empty secret and the empty map are values of their types.
LEMMA EmptyValues == NoSecret \in Secrets /\ EmptyMap \in SessionMap
<1>1. NoSecret \in Secrets
  BY StoreAssumption DEF StoreAssumption, NoSecret, Secrets
<1>2. EmptyMap \in SessionMap
  BY DEF EmptyMap, SessionMap
<1> QED BY <1>1, <1>2

\* Initially the store is empty and no request is in flight.
LEMMA InitInv == Init => GateInv
<1> SUFFICES ASSUME Init PROVE GateInv
  OBVIOUS
<1> USE StoreAssumption, GateAssumption DEF StoreAssumption, GateAssumption
<1>1. RestInv
  <2>1. StoreTypeOK
    <3> HIDE StoreAssumption, GateAssumption DEF StoreAssumption, GateAssumption
    <3>1. drawn \in Secrets /\ secret \in Secrets
      BY EmptyValues DEF Init, StoreInit, NoSecret
    <3>2. file \in [secret : Secrets, sessions : SessionMap]
      BY EmptyValues DEF Init, StoreInit
    <3> QED BY <3>1, <3>2, EmptyValues DEF Init, StoreInit, StoreTypeOK
  <2>2. /\ registry \in [Routes -> SUBSET Hosts] /\ revoking \in [Tokens -> Nat]
        /\ allowed \in AllowedConfigs /\ live \subseteq Tokens /\ handed \subseteq [url : Media, sig : Signatures]
        /\ granted \subseteq Tokens \X Routes /\ loggedOut \subseteq Tokens
        /\ acked \in [Tokens -> Routes \cup {None}] /\ issued \subseteq Routes \X Hosts
    BY DEF Init
  <2>3. Grounded(sessions) /\ Grounded(file.sessions)
    BY DEF Init, StoreInit, Grounded, EmptyMap
  <2>4. SecretSaved /\ NothingOwed /\ AckedDurable /\ LogoutFinal
    BY DEF Init, StoreInit, SecretSaved, NothingOwed, AckedDurable, LogoutFinal, EmptyMap
  <2>5. RegistryExact /\ SignaturesMatch /\ SignaturesVerify
    BY DEF Init, RegistryExact, SignaturesMatch, SignaturesVerify
  <2> QED BY <2>1, <2>2, <2>3, <2>4, <2>5 DEF RestInv
<1>2. SlotsInv
  BY IdleSlot DEF Init, SlotsInv
<1> QED BY <1>1, <1>2, SplitInv

-----------------------------------------------------------------------------
(* What the actions have in common. *)

\* Nothing but the requests, the upstream sessions and the logout tasks change.
LEMMA RestKept ==
  ASSUME RestInv,
         UNCHANGED <<storeVars, registry, allowed, handed, history>>,
         revoking' \in [Tokens -> Nat],
         live' \subseteq Tokens
  PROVE  RestInv'
<1> USE DEF storeVars, history
<1>1. StoreTypeOK' /\ SecretSaved' /\ NothingOwed' /\ LogoutFinal'
  BY DEF RestInv, StoreTypeOK, SecretSaved, NothingOwed, LogoutFinal
<1>2. AckedDurable'
  BY DEF RestInv, AckedDurable, IsValid
<1>3. Grounded(sessions)' /\ Grounded(file.sessions)'
  BY DEF RestInv, Grounded
<1>4. RegistryExact' /\ SignaturesMatch' /\ SignaturesVerify'
  BY DEF RestInv, RegistryExact, SignaturesMatch, SignaturesVerify, Verify, Sign
<1> QED BY <1>1, <1>2, <1>3, <1>4 DEF RestInv

\* A request moves on, and its new value satisfies its part.
LEMMA SlotsMove ==
  ASSUME SlotsInv, NEW p \in Slots, NEW r, SlotInv(r), Become(p, r),
         UNCHANGED <<up, secret, granted, issued, handed>>
  PROVE  SlotsInv'
<1>1. r \in Requests
  BY DEF SlotInv
<1>2. req' \in [Slots -> Requests] /\ \A q \in Slots : req'[q] = IF q = p THEN r ELSE req[q]
  BY <1>1 DEF SlotsInv, Become
<1>3. ASSUME NEW q \in Slots PROVE SlotInv(req[q])'
  <2>1. SlotInv(req'[q])
    BY <1>2 DEF SlotsInv
  <2> QED BY <2>1 DEF SlotInv, Protected, ServedRightly
<1> QED BY <1>2, <1>3 DEF SlotsInv

\* A request ends while logins, URLs and signatures accumulate.
LEMMA SlotsFree ==
  ASSUME SlotsInv, NEW p \in Slots, Become(p, Idle),
         UNCHANGED <<up, secret>>,
         granted \subseteq granted', issued \subseteq issued', handed \subseteq handed'
  PROVE  SlotsInv'
<1>1. req' \in [Slots -> Requests] /\ \A q \in Slots : req'[q] = IF q = p THEN Idle ELSE req[q]
  BY IdleSlot DEF SlotsInv, Become
<1>2. ASSUME NEW q \in Slots PROVE SlotInv(req[q])'
  <2>1. SlotInv(req'[q])
    BY <1>1, IdleSlot DEF SlotsInv
  <2> QED BY <2>1 DEF SlotInv, Protected, ServedRightly
<1> QED BY <1>1, <1>2 DEF SlotsInv

\* A step of one request that leaves the store and the registries alone.
LEMMA RequestStep ==
  ASSUME GateInv, NEW p \in Slots, NEW r, SlotInv(r), Become(p, r),
         UNCHANGED <<storeVars, registry, allowed, handed, history>>,
         revoking' \in [Tokens -> Nat],
         live' \subseteq Tokens
  PROVE  GateInv'
<1>1. RestInv'
  BY SplitInv, RestKept
<1>2. SlotsInv'
  BY SplitInv, SlotsMove DEF storeVars, history
<1> QED BY <1>1, <1>2, SplitInvNext

-----------------------------------------------------------------------------
(* The actions, in the order of the specification. *)

\* A request passes the gate with the token of a session of its route.
LEMMA ForwardInv ==
  ASSUME GateInv, NEW p \in Slots, NEW route \in Routes, NEW class \in Classes \ {"resource"},
         NEW tok \in Tokens \cup {None}, NEW user \in Users \cup {None},
         class \notin PublicClasses => tok \in Tokens,
         Forward(p, route, class, tok, user)
  PROVE  GateInv'
<1> DEFINE r == [Idle EXCEPT !.pc = "sent", !.class = class, !.route = route,
                            !.tok = tok, !.user = user]
<1>1. class \in AllClasses
  BY GateAssumption DEF GateAssumption
<1>2. r \in Requests /\ r.pc = "sent" /\ r.class = class /\ r.route = route
      /\ r.tok = tok /\ r.got = None /\ r.sig = None
  BY <1>1 DEF Idle, Requests
<1>3. Protected(r) => <<tok, route>> \in granted
  <2>1. Protected(r) => class \notin PublicClasses
    BY <1>2 DEF Protected, PublicClasses
  <2>2. IsValid(tok, route) => <<tok, route>> \in granted
    BY DEF GateInv, Grounded, IsValid
  <2> QED BY <2>1, <2>2 DEF Forward
<1>4. SlotInv(r)
  <2>1. class = "logout" => tok \in Tokens
    BY DEF PublicClasses
  <2>2. class # "resource"
    OBVIOUS
  <2> HIDE DEF r
  <2>3. up
    BY DEF Forward
  <2> QED BY <1>1, <1>2, <1>3, <2>1, <2>2, <2>3 DEF SlotInv
<1>5. Become(p, r) /\ UNCHANGED <<storeVars, registry, revoking, allowed, live, handed, history>>
  BY DEF Forward
<1>6. revoking' \in [Tokens -> Nat] /\ live' \subseteq Tokens
  BY <1>5 DEF GateInv, TypeOK
<1> HIDE DEF r
<1> QED BY <1>4, <1>5, <1>6, RequestStep

\* A resource request carries a signature handed out, or a session's token.
LEMMA ForwardResourceInv ==
  ASSUME GateInv, NEW p \in Slots, NEW route \in Routes, NEW url \in Media,
         NEW tok \in Tokens \cup {None}, NEW sig,
         sig = None \/ \E h \in handed : sig = h.sig,
         ForwardResource(p, route, tok, sig, url)
  PROVE  GateInv'
<1> DEFINE r == [Idle EXCEPT !.pc = "sent", !.class = "resource", !.route = route,
                            !.tok = tok, !.url = url, !.sig = sig]
<1>1. sig \in Signatures \cup {None}
  BY DEF GateInv, TypeOK
<1>2. r \in Requests /\ r.pc = "sent" /\ r.class = "resource" /\ r.route = route
      /\ r.tok = tok /\ r.url = url /\ r.sig = sig /\ r.got = None
  BY <1>1 DEF Idle, Requests, AllClasses
<1>3. Protected(r) => <<tok, route>> \in granted
  <2>1. Protected(r) => sig = None
    BY <1>2 DEF Protected
  <2>2. IsValid(tok, route) => <<tok, route>> \in granted
    BY DEF GateInv, Grounded, IsValid
  <2> QED BY <2>1, <2>2 DEF ForwardResource
<1>4. url.host \in AllowedHosts \/ <<route, url.host>> \in issued
  BY DEF ForwardResource, GateInv, RegistryExact
<1>5. ASSUME sig # None
      PROVE  \E h \in handed :
               /\ h.sig = [route |-> route, scheme |-> url.scheme,
                           host |-> url.host, key |-> secret]
               /\ h.url.scheme = url.scheme
               /\ h.url.host = url.host
  <2>1. PICK h \in handed : h.sig = sig
    BY <1>5
  <2>2. sig = [route |-> route, scheme |-> url.scheme, host |-> url.host, key |-> secret]
    BY <1>5 DEF ForwardResource, Verify, Sign
  <2>3. h.url.scheme = url.scheme /\ h.url.host = url.host
    BY <2>1, <2>2 DEF GateInv, SignaturesMatch
  <2> QED BY <2>1, <2>2, <2>3
<1>6. SlotInv(r)
  <2>1. up
    BY DEF ForwardResource
  <2> HIDE DEF r
  <2>2. ServedRightly(r)
    BY <1>2, <1>4, <1>5 DEF ServedRightly
  <2> QED BY <1>2, <1>3, <2>1, <2>2 DEF SlotInv, AllClasses, LoginClasses
<1>7. Become(p, r) /\ UNCHANGED <<storeVars, registry, revoking, allowed, live, handed, history>>
  BY DEF ForwardResource
<1>8. revoking' \in [Tokens -> Nat] /\ live' \subseteq Tokens
  BY <1>7 DEF GateInv, TypeOK
<1> HIDE DEF r
<1> QED BY <1>6, <1>7, <1>8, RequestStep

\* Whatever arrives, the invariant is kept.
LEMMA ArriveInv ==
  ASSUME GateInv, NEW p \in Slots, Arrive(p)
  PROVE  GateInv'
<1> PICK route \in Routes :
      \/ \E class \in Classes \ {"resource"} :
           \E tok \in IF class \in PublicClasses THEN {None} ELSE Tokens,
              user \in IF class \in LoginClasses THEN Users ELSE {None} :
             Forward(p, route, class, tok, user)
      \/ /\ "resource" \in Classes
         /\ \E url \in Media :
              \/ \E tok \in Tokens : ForwardResource(p, route, tok, None, url)
              \/ \E h \in handed : ForwardResource(p, route, None, h.sig, url)
  BY DEF Arrive
<1>1. ASSUME NEW class \in Classes \ {"resource"},
             NEW tok \in IF class \in PublicClasses THEN {None} ELSE Tokens,
             NEW user \in IF class \in LoginClasses THEN Users ELSE {None},
             Forward(p, route, class, tok, user)
      PROVE  GateInv'
  <2>1. tok \in Tokens \cup {None} /\ user \in Users \cup {None}
        /\ (class \notin PublicClasses => tok \in Tokens)
    OBVIOUS
  <2> QED BY <1>1, <2>1, ForwardInv
<1>2. ASSUME NEW url \in Media, NEW tok \in Tokens, ForwardResource(p, route, tok, None, url)
      PROVE  GateInv'
  BY <1>2, ForwardResourceInv
<1>3. ASSUME NEW url \in Media, NEW h \in handed, ForwardResource(p, route, None, h.sig, url)
      PROVE  GateInv'
  BY <1>3, ForwardResourceInv
<1> QED BY <1>1, <1>2, <1>3

\* The upstream server answers: the request keeps what it arrived with.
LEMMA UpstreamInv ==
  ASSUME GateInv, NEW p \in Slots, UpstreamActs(p)
  PROVE  GateInv'
<1> DEFINE answered(x) == [req[p] EXCEPT !.pc = "answered", !.got = x]
<1>1. SlotInv(req[p]) /\ req[p] \in Requests
  BY SplitInv DEF SlotsInv
<1>2. revoking \in [Tokens -> Nat] /\ live \subseteq Tokens
  BY DEF GateInv, TypeOK
<1>3. ASSUME NEW t \in Tokens \cup {None}, UpstreamLogin(p, t) PROVE GateInv'
  <2>1. SlotInv(answered(t))
    BY <1>1, <1>3 DEF UpstreamLogin, SlotInv, Requests, Protected, LoginClasses
  <2>2. live' \subseteq Tokens /\ revoking' \in [Tokens -> Nat]
    BY <1>2, <1>3 DEF UpstreamLogin
  <2> HIDE DEF answered
  <2>3. Become(p, answered(t))
    BY <1>3 DEF UpstreamLogin, answered
  <2>4. UNCHANGED <<storeVars, registry, allowed, handed, history>>
    BY <1>3 DEF UpstreamLogin
  <2> QED BY <2>1, <2>2, <2>3, <2>4, RequestStep
<1>4. CASE UpstreamLogout(p)
  <2> DEFINE r == [req[p] EXCEPT !.pc = "answered"]
  <2>1. SlotInv(r)
    BY <1>1, <1>4 DEF UpstreamLogout, SlotInv, Requests, Protected, LoginClasses
  <2>2. live' \subseteq Tokens /\ revoking' \in [Tokens -> Nat]
    BY <1>2, <1>4 DEF UpstreamLogout
  <2>3. Become(p, r) /\ UNCHANGED <<storeVars, registry, allowed, handed, history>>
    BY <1>4 DEF UpstreamLogout
  <2> HIDE DEF r
  <2> QED BY <2>1, <2>2, <2>3, RequestStep
<1>5. ASSUME NEW url \in Media, UpstreamPlayback(p, url) PROVE GateInv'
  <2>1. SlotInv(answered(url))
    BY <1>1, <1>5 DEF UpstreamPlayback, SlotInv, Requests, Protected, LoginClasses
  <2>2. live' \subseteq Tokens /\ revoking' \in [Tokens -> Nat]
    BY <1>2, <1>5 DEF UpstreamPlayback
  <2> HIDE DEF answered
  <2>3. Become(p, answered(url))
    BY <1>5 DEF UpstreamPlayback, answered
  <2>4. UNCHANGED <<storeVars, registry, allowed, handed, history>>
    BY <1>5 DEF UpstreamPlayback
  <2> QED BY <2>1, <2>2, <2>3, <2>4, RequestStep
<1> QED BY <1>3, <1>4, <1>5 DEF UpstreamActs

\* A body is read next.
LEMMA ReadHeadersInv ==
  ASSUME GateInv, NEW p \in Slots, ReadHeaders(p)
  PROVE  GateInv'
<1> DEFINE r == [req[p] EXCEPT !.pc = "body"]
<1>1. SlotInv(req[p]) /\ req[p] \in Requests
  BY SplitInv DEF SlotsInv
<1>2. SlotInv(r)
  BY <1>1 DEF ReadHeaders, SlotInv, Requests, Protected, ServedRightly
<1>3. Become(p, r) /\ UNCHANGED <<storeVars, registry, revoking, allowed, live, handed, history>>
  BY DEF ReadHeaders
<1>4. revoking' \in [Tokens -> Nat] /\ live' \subseteq Tokens
  BY <1>3 DEF GateInv, TypeOK
<1> HIDE DEF r
<1> QED BY <1>2, <1>3, <1>4, RequestStep

\* A request ends without any other effect: answered as it is, failed, or
\* dropped because its client left.
LEMMA RequestEnds ==
  ASSUME GateInv, NEW p \in Slots,
         PassThrough(p) \/ SendFails(p) \/ BodyFails(p) \/ Disconnect(p)
  PROVE  GateInv'
<1>1. Become(p, Idle) /\ UNCHANGED <<storeVars, registry, revoking, allowed, live, handed, history>>
  BY DEF PassThrough, SendFails, BodyFails, Disconnect
<1>2. revoking' \in [Tokens -> Nat] /\ live' \subseteq Tokens
  BY <1>1 DEF GateInv, TypeOK
<1> QED BY <1>1, <1>2, IdleSlot, RequestStep

\* A rejected login spawns at most one logout task.
LEMMA LoginRejectedInv ==
  ASSUME GateInv, NEW p \in Slots, LoginRejected(p)
  PROVE  GateInv'
<1>1. SlotInv(req[p]) /\ revoking \in [Tokens -> Nat] /\ live \subseteq Tokens
  BY SplitInv DEF SlotsInv, RestInv
<1>2. req[p].got \in Tokens \cup {None}
  BY <1>1 DEF LoginRejected, SlotInv
<1>3. revoking' \in [Tokens -> Nat]
  BY <1>1, <1>2 DEF LoginRejected
<1>4. Become(p, Idle) /\ UNCHANGED <<storeVars, registry, allowed, live, handed, history>>
  BY DEF LoginRejected
<1> QED BY <1>1, <1>3, <1>4, IdleSlot, RequestStep

\* A logout task ends.
LEMMA RevokeInv ==
  ASSUME GateInv, NEW t \in Tokens, RevokeDone(t) \/ RevokeFails(t)
  PROVE  GateInv'
<1>1. RestInv /\ SlotsInv
  BY SplitInv
<1>2. revoking \in [Tokens -> Nat] /\ revoking[t] \in Nat /\ revoking[t] > 0 /\ live \subseteq Tokens
  BY <1>1 DEF RestInv, RevokeDone, RevokeFails
<1>3. revoking' \in [Tokens -> Nat] /\ live' \subseteq Tokens
  BY <1>2 DEF RevokeDone, RevokeFails
<1>4. UNCHANGED <<storeVars, req, registry, allowed, handed, history>>
  BY DEF RevokeDone, RevokeFails
<1>5. RestInv'
  BY <1>1, <1>3, <1>4, RestKept
<1>6. SlotsInv'
  BY <1>1, <1>4 DEF SlotsInv, SlotInv, Protected, ServedRightly, storeVars, history
<1> QED BY <1>5, <1>6, SplitInvNext

\* What a successful or failed save leaves in the file.
LEMMA SaveTypes ==
  ASSUME NEW map \in SessionMap, NEW key \in Secrets, NEW ok \in BOOLEAN,
         file \in [secret : Secrets, sessions : SessionMap], Save(map, key, ok)
  PROVE  /\ file' \in [secret : Secrets, sessions : SessionMap]
         /\ StateFile /\ ok => file'.secret = key /\ file'.sessions = map
         /\ ~(StateFile /\ ok) => file' = file
         /\ ok \/ StateFile
  BY DEF Save, ReplaceFile

\* A logout removes the session from memory and from the file, or, when the
\* save fails, from memory only; no other session is touched.
LEMMA LogoutDoneInv ==
  ASSUME GateInv, NEW p \in Slots, NEW ok \in BOOLEAN, LogoutDone(p, ok)
  PROVE  GateInv'
<1> DEFINE t == req[p].tok
<1>1. RestInv /\ SlotsInv
  BY SplitInv
<1>2. t \in Tokens
  BY <1>1 DEF SlotsInv, SlotInv, LogoutDone
<1> HIDE DEF t
<1>3. /\ Become(p, Idle)
      /\ Remove(t, ok)
      /\ acked' = [acked EXCEPT ![t] = None]
      /\ loggedOut' = IF sessions[t] # NoSession /\ ok THEN loggedOut \cup {t} ELSE loggedOut
      /\ UNCHANGED <<registry, revoking, allowed, live, handed, granted, issued>>
  BY DEF LogoutDone, t
<1>4. up /\ UNCHANGED <<up, secret, drawn>>
  BY <1>3 DEF Remove
<1>5. /\ sessions \in SessionMap /\ secret \in Secrets
      /\ file \in [secret : Secrets, sessions : SessionMap]
      /\ file.sessions \in SessionMap
  BY <1>1 DEF RestInv, StoreTypeOK
<1>6. /\ sessions' \in SessionMap
      /\ sessions'[t] = NoSession
      /\ \A u \in Tokens : u # t => sessions'[u] = sessions[u]
  BY <1>2, <1>3, <1>5 DEF Remove, SessionMap
<1>7. /\ file' \in [secret : Secrets, sessions : SessionMap]
      /\ \/ file' = file
         \/ /\ StateFile
            /\ sessions[t] # NoSession
            /\ ok
            /\ file'.sessions = sessions'
            /\ file'.secret = secret
      /\ StateFile /\ ok /\ sessions[t] # NoSession => file'.sessions = sessions'
  BY <1>3, <1>5, <1>6, SaveTypes DEF Remove
<1>8. StoreTypeOK'
  BY <1>1, <1>4, <1>6, <1>7 DEF RestInv, StoreTypeOK
<1>9. acked' \in [Tokens -> Routes \cup {None}] /\ loggedOut' \subseteq Tokens
      /\ acked'[t] = None /\ \A u \in Tokens : u # t => acked'[u] = acked[u]
  BY <1>1, <1>2, <1>3 DEF RestInv
<1>10. Grounded(sessions)'
  BY <1>1, <1>3, <1>6 DEF RestInv, Grounded
<1>11. Grounded(file.sessions)'
  BY <1>1, <1>3, <1>7, <1>10 DEF RestInv, Grounded
<1>12. SecretSaved' /\ NothingOwed'
  BY <1>1, <1>4, <1>7 DEF RestInv, SecretSaved, NothingOwed
<1>13. AckedDurable'
  BY <1>1, <1>4, <1>6, <1>7, <1>9 DEF RestInv, AckedDurable, IsValid
<1>14. LogoutFinal'
  <2>1. ~StateFile => file'.sessions[t] = NoSession
    BY <1>2, <1>12 DEF SecretSaved, EmptyMap
  <2> QED BY <1>1, <1>3, <1>6, <1>7, <2>1 DEF RestInv, LogoutFinal
<1>15. RegistryExact' /\ SignaturesMatch' /\ SignaturesVerify'
  BY <1>1, <1>3, <1>4, <1>7 DEF RestInv, RegistryExact, SignaturesMatch, SignaturesVerify, Verify, Sign
<1>16. RestInv'
  BY <1>1, <1>3, <1>8, <1>9, <1>10, <1>11, <1>12, <1>13, <1>14, <1>15 DEF RestInv
<1>17. SlotsInv'
  BY <1>1, <1>3, <1>4, SlotsFree
<1> QED BY <1>16, <1>17, SplitInvNext

\* An accepted login of an allowed user is in memory, and on disk before it
\* is answered with 200.
LEMMA LoginAcceptedInv ==
  ASSUME GateInv, NEW p \in Slots, NEW ok \in BOOLEAN, LoginAccepted(p, ok)
  PROVE  GateInv'
<1> DEFINE t == req[p].got
           r == req[p].route
           s == [route |-> r, user |-> Owner[t]]
<1>1. RestInv /\ SlotsInv
  BY SplitInv
<1>2. t \in Tokens /\ r \in Routes /\ Owner[t] \in allowed
  BY <1>1 DEF SlotsInv, SlotInv, LoginAccepted, LoginAllowed
<1>3. /\ Become(p, Idle)
      /\ Add(t, s, ok)
      /\ granted' = granted \cup {<<t, r>>}
      /\ acked' = [acked EXCEPT ![t] = IF ok \/ acked[t] = r THEN r ELSE None]
      /\ loggedOut' = loggedOut \ {t}
      /\ UNCHANGED <<registry, revoking, allowed, live, handed, issued>>
  BY DEF LoginAccepted
<1>4. s \in Session /\ s # NoSession /\ s.route = r /\ Owner[t] \in EverAllowed
  <2>1. s \in Session
    BY <1>2, GateAssumption DEF GateAssumption, Session
  <2>2. Owner[t] \in EverAllowed
    BY <1>1, <1>2 DEF RestInv, EverAllowed
  <2> QED BY <2>1, <2>2, StoreAssumption DEF StoreAssumption
<1> HIDE DEF t, r, s
<1>5. up /\ UNCHANGED <<up, secret, drawn>>
  BY <1>3 DEF Add
<1>6. /\ sessions \in SessionMap /\ secret \in Secrets
      /\ file \in [secret : Secrets, sessions : SessionMap]
      /\ file.sessions \in SessionMap
  BY <1>1 DEF RestInv, StoreTypeOK
<1>7. /\ sessions' \in SessionMap
      /\ sessions'[t] = s
      /\ \A u \in Tokens : u # t => sessions'[u] = sessions[u]
  BY <1>2, <1>3, <1>4, <1>6 DEF Add, SessionMap
<1>8. /\ file' \in [secret : Secrets, sessions : SessionMap]
      /\ \/ file' = file /\ ~(StateFile /\ ok)
         \/ StateFile /\ file'.sessions = sessions' /\ file'.secret = secret
  <2>1. Save(sessions', secret, ok)
    BY <1>3 DEF Add
  <2> QED BY <1>6, <1>7, <2>1, SaveTypes
<1>9. StoreTypeOK'
  BY <1>1, <1>5, <1>7, <1>8 DEF RestInv, StoreTypeOK
<1>10. /\ acked' \in [Tokens -> Routes \cup {None}] /\ loggedOut' \subseteq Tokens
       /\ granted' \subseteq Tokens \X Routes
       /\ acked'[t] = IF ok \/ acked[t] = r THEN r ELSE None
       /\ \A u \in Tokens : u # t => acked'[u] = acked[u]
  BY <1>1, <1>2, <1>3 DEF RestInv
<1>11. Grounded(sessions)'
  BY <1>1, <1>3, <1>4, <1>7 DEF RestInv, Grounded
<1>12. Grounded(file.sessions)'
  BY <1>1, <1>3, <1>8, <1>11 DEF RestInv, Grounded
<1>13. SecretSaved' /\ NothingOwed'
  BY <1>1, <1>5, <1>8 DEF RestInv, SecretSaved, NothingOwed
<1>14. AckedDurable'
  <2>1. ASSUME NEW u \in Tokens, acked'[u] # None
        PROVE  /\ IsValid(u, acked[u])'
               /\ StateFile => /\ file'.sessions[u] # NoSession
                               /\ file'.sessions[u].route = acked'[u]
    <3>1. CASE u = t
      BY <1>1, <1>2, <1>4, <1>5, <1>7, <1>8, <1>10, <2>1, <3>1 DEF RestInv, AckedDurable, IsValid
    <3>2. CASE u # t
      BY <1>1, <1>5, <1>7, <1>8, <1>10, <2>1, <3>2 DEF RestInv, AckedDurable, IsValid
    <3> QED BY <3>1, <3>2
  <2> QED BY <2>1 DEF AckedDurable
<1>15. LogoutFinal'
  BY <1>1, <1>3, <1>7, <1>8 DEF RestInv, LogoutFinal
<1>16. RegistryExact' /\ SignaturesMatch' /\ SignaturesVerify'
  BY <1>1, <1>3, <1>5, <1>8 DEF RestInv, RegistryExact, SignaturesMatch, SignaturesVerify, Verify, Sign
<1>17. RestInv'
  BY <1>1, <1>3, <1>9, <1>10, <1>11, <1>12, <1>13, <1>14, <1>15, <1>16 DEF RestInv
<1>18. SlotsInv'
  BY <1>1, <1>3, <1>5, SlotsFree
<1> QED BY <1>17, <1>18, SplitInvNext

\* A rewritten URL is signed with the secret on disk, and its host joins the
\* registry in the same step.
LEMMA RewritePlaybackInv ==
  ASSUME GateInv, NEW p \in Slots, RewritePlayback(p)
  PROVE  GateInv'
<1> DEFINE r == req[p].route
           u == req[p].got
           new == [url |-> u, sig |-> Sign(r, u.scheme, u.host)]
<1>1. RestInv /\ SlotsInv
  BY SplitInv
<1>2. r \in Routes /\ u \in Media /\ up
  BY <1>1 DEF SlotsInv, SlotInv, RewritePlayback
<1>3. /\ Become(p, Idle)
      /\ registry' = [registry EXCEPT ![r] = @ \cup {u.host}]
      /\ handed' = handed \cup {new}
      /\ issued' = issued \cup {<<r, u.host>>}
      /\ UNCHANGED <<storeVars, revoking, allowed, live, granted, acked, loggedOut>>
  BY DEF RewritePlayback, RewriteUrl, AllowHost
<1>4. u.scheme \in Schemes /\ u.host \in Hosts
  BY <1>2, GateAssumption DEF GateAssumption
<1>5. /\ new.url = u
      /\ new.sig = [route |-> r, scheme |-> u.scheme, host |-> u.host, key |-> secret]
  BY DEF Sign
<1>6. secret \in Secrets \ {NoSecret} /\ (StateFile => file.secret = secret)
  BY <1>1, <1>2 DEF RestInv, StoreTypeOK, SecretSaved
<1>7. new \in [url : Media, sig : Signatures]
  BY <1>2, <1>4, <1>6 DEF Sign, Signatures
<1> HIDE DEF r, u, new
<1>8. registry' \in [Routes -> SUBSET Hosts] /\ issued' \subseteq Routes \X Hosts
      /\ handed' \subseteq [url : Media, sig : Signatures]
  BY <1>1, <1>2, <1>3, <1>4, <1>7 DEF RestInv
<1>9. registry'[r] = registry[r] \cup {u.host}
      /\ \A q \in Routes : q # r => registry'[q] = registry[q]
  BY <1>1, <1>2, <1>3 DEF RestInv
<1>10. RegistryExact'
  BY <1>1, <1>3, <1>9 DEF RestInv, RegistryExact
<1> USE DEF storeVars
<1>11. SignaturesMatch'
  BY <1>1, <1>3, <1>5 DEF RestInv, SignaturesMatch
<1>12. SignaturesVerify'
  <2>1. ASSUME StateFile, NEW h \in handed'
        PROVE  /\ h.sig.key = file'.secret
               /\ h.sig = [route |-> h.sig.route, scheme |-> h.url.scheme,
                           host |-> h.url.host, key |-> secret']
    <3>1. CASE h = new
      BY <1>3, <1>5, <1>6, <2>1, <3>1
    <3>2. CASE h \in handed
      BY <1>1, <1>2, <1>3, <2>1, <3>2 DEF RestInv, SignaturesVerify, Verify, Sign
    <3> QED BY <1>3, <2>1, <3>1, <3>2
  <2> QED BY <2>1 DEF SignaturesVerify, Verify, Sign
<1>13. StoreTypeOK' /\ SecretSaved' /\ NothingOwed' /\ LogoutFinal'
  BY <1>1, <1>2, <1>3 DEF RestInv, StoreTypeOK, SecretSaved, NothingOwed, LogoutFinal
<1>14. AckedDurable' /\ Grounded(sessions)' /\ Grounded(file.sessions)'
  BY <1>1, <1>3 DEF RestInv, AckedDurable, IsValid, Grounded
<1>15. RestInv'
  BY <1>1, <1>3, <1>8, <1>10, <1>11, <1>12, <1>13, <1>14 DEF RestInv
<1>16. SlotsInv'
  BY <1>1, <1>3, SlotsFree
<1> QED BY <1>15, <1>16, SplitInvNext

\* Opening the store takes the sessions from the file and keeps its secret.
LEMMA OpenEffect ==
  ASSUME StoreTypeOK, SecretSaved, Open
  PROVE  /\ up' /\ sessions' = file.sessions
         /\ StoreTypeOK' /\ SecretSaved'
         /\ file'.sessions = file.sessions
         /\ file.secret # NoSecret => file'.secret = file.secret /\ secret' = file.secret
<1> USE DEF StoreTypeOK
<1>1. CASE file.secret # NoSecret
  BY <1>1 DEF Open, SecretSaved
<1>2. CASE file.secret = NoSecret
  <2>1. up' = TRUE /\ sessions' = file.sessions /\ drawn' = drawn + 1 /\ secret' = drawn'
        /\ Save(sessions', secret', TRUE) /\ drawn < MaxSecrets
    BY <1>2 DEF Open, OpenDrawing
  <2>2. drawn' \in Secrets /\ secret' \in Secrets /\ secret' # NoSecret /\ sessions' \in SessionMap
    BY <2>1, StoreAssumption DEF StoreAssumption, Secrets, NoSecret
  <2>3. /\ file' \in [secret : Secrets, sessions : SessionMap]
        /\ StateFile => file'.secret = secret' /\ file'.sessions = sessions'
        /\ ~StateFile => file' = file
    BY <2>1, <2>2, SaveTypes
  <2>4. StoreTypeOK'
    BY <2>1, <2>2, <2>3
  <2>5. SecretSaved'
    BY <2>1, <2>2, <2>3 DEF SecretSaved
  <2> QED BY <1>2, <2>1, <2>3, <2>4, <2>5
<1> QED BY <1>1, <1>2

\* A start takes over what the last process saved.
LEMMA StartInv ==
  ASSUME GateInv, Start
  PROVE  GateInv'
<1>1. RestInv /\ SlotsInv
  BY SplitInv
<1>2. ~up /\ Open /\ registry' = [r \in Routes |-> AllowedHosts] /\ allowed' \in AllowedConfigs
      /\ UNCHANGED <<req, revoking, live, handed, history>>
  BY DEF Start, Open, NewRegistries
<1>3. /\ up' /\ sessions' = file.sessions
      /\ StoreTypeOK' /\ SecretSaved'
      /\ file'.sessions = file.sessions
      /\ file.secret # NoSecret => file'.secret = file.secret /\ secret' = file.secret
  BY <1>1, <1>2, OpenEffect DEF RestInv
<1>4. issued = {} /\ (~StateFile => \A t \in Tokens : acked[t] = None)
  BY <1>1, <1>2 DEF RestInv, NothingOwed
<1> USE DEF history
<1>5. NothingOwed' /\ LogoutFinal'
  BY <1>1, <1>2, <1>3 DEF RestInv, NothingOwed, LogoutFinal
<1>6. AckedDurable'
  BY <1>1, <1>2, <1>3, <1>4 DEF RestInv, AckedDurable, IsValid
<1>7. Grounded(sessions)' /\ Grounded(file.sessions)'
  BY <1>1, <1>2, <1>3 DEF RestInv, Grounded
<1>8. registry' \in [Routes -> SUBSET Hosts] /\ RegistryExact'
  BY <1>2, <1>4, GateAssumption DEF GateAssumption, RegistryExact
<1>11. SignaturesMatch'
  BY <1>1, <1>2 DEF RestInv, SignaturesMatch
<1>12. SignaturesVerify'
  <2>1. ASSUME StateFile, NEW h \in handed
        PROVE  h.sig.key = file'.secret
               /\ h.sig = [route |-> h.sig.route, scheme |-> h.url.scheme,
                           host |-> h.url.host, key |-> secret']
    <3>1. h.sig \in Signatures /\ h.sig.key = file.secret
          /\ h.sig.scheme = h.url.scheme /\ h.sig.host = h.url.host
      BY <1>1, <2>1 DEF RestInv, SignaturesVerify, SignaturesMatch
    <3>2. file.secret # NoSecret
      BY <3>1 DEF Signatures
    <3>3. h.sig = [route |-> h.sig.route, scheme |-> h.sig.scheme,
                   host |-> h.sig.host, key |-> h.sig.key]
      BY <3>1 DEF Signatures
    <3> QED BY <1>3, <3>1, <3>2, <3>3
  <2> QED BY <1>2, <2>1 DEF SignaturesVerify, Verify, Sign
<1>9. RestInv'
  BY <1>1, <1>2, <1>3, <1>5, <1>6, <1>7, <1>8, <1>11, <1>12 DEF RestInv
<1>10. SlotsInv'
  BY <1>1, <1>2 DEF SlotsInv, SlotInv, Protected, ServedRightly
<1> QED BY <1>9, <1>10, SplitInvNext

\* The process may stop at any point: what was promised is on disk.
LEMMA HaltInv ==
  ASSUME GateInv, Halt
  PROVE  GateInv'
<1>1. RestInv /\ SlotsInv
  BY SplitInv
<1>2. /\ up' = FALSE /\ sessions' = EmptyMap /\ secret' = NoSecret /\ UNCHANGED <<file, drawn>>
      /\ req' = [p \in Slots |-> Idle]
      /\ revoking' = [t \in Tokens |-> 0]
      /\ registry' = [r \in Routes |-> {}]
      /\ issued' = {}
      /\ acked' = IF StateFile THEN acked ELSE [t \in Tokens |-> None]
      /\ UNCHANGED <<allowed, live, handed, granted, loggedOut>>
  BY DEF Halt, Stop
<1>3. StoreTypeOK'
  BY <1>1, <1>2, EmptyValues DEF RestInv, StoreTypeOK
<1>4. SecretSaved' /\ NothingOwed' /\ LogoutFinal'
  BY <1>1, <1>2 DEF RestInv, SecretSaved, NothingOwed, LogoutFinal, EmptyMap
<1>5. AckedDurable'
  BY <1>1, <1>2 DEF RestInv, AckedDurable
<1>6. Grounded(sessions)' /\ Grounded(file.sessions)'
  BY <1>1, <1>2 DEF RestInv, Grounded, EmptyMap
<1>7. RegistryExact' /\ SignaturesMatch' /\ SignaturesVerify'
  BY <1>1, <1>2 DEF RestInv, RegistryExact, SignaturesMatch, SignaturesVerify
<1>8. RestInv'
  BY <1>1, <1>2, <1>3, <1>4, <1>5, <1>6, <1>7 DEF RestInv
<1>9. SlotsInv'
  BY <1>2, IdleSlot, IdleSlotNext DEF SlotsInv
<1> QED BY <1>8, <1>9, SplitInvNext

-----------------------------------------------------------------------------
(* The theorems. *)

\* Every step of the system, and a step that changes nothing, preserves GateInv.
LEMMA NextInv == GateInv /\ [Next]_vars => GateInv'
<1> SUFFICES ASSUME GateInv, [Next]_vars PROVE GateInv'
  OBVIOUS
<1>1. CASE Start
  BY <1>1, StartInv
<1>2. CASE Halt
  BY <1>2, HaltInv
<1>3. ASSUME NEW p \in Slots,
             Arrive(p) \/ UpstreamActs(p) \/ HeaderWaitEnds(p) \/ BodyRead(p) \/ Disconnect(p)
      PROVE  GateInv'
  <2>1. CASE Arrive(p)
    BY <2>1, ArriveInv
  <2>2. CASE UpstreamActs(p)
    BY <2>2, UpstreamInv
  <2>3. CASE HeaderWaitEnds(p)
    BY <2>3, RequestEnds, ReadHeadersInv, LogoutDoneInv DEF HeaderWaitEnds
  <2>4. CASE BodyRead(p)
    BY <2>4, RequestEnds, LoginAcceptedInv, LoginRejectedInv, RewritePlaybackInv DEF BodyRead
  <2>5. CASE Disconnect(p)
    BY <2>5, RequestEnds
  <2> QED BY <1>3, <2>1, <2>2, <2>3, <2>4, <2>5
<1>4. ASSUME NEW t \in Tokens, RevokeDone(t) \/ RevokeFails(t) PROVE GateInv'
  BY <1>4, RevokeInv
<1>5. CASE UNCHANGED vars
  <2>1. RestInv /\ SlotsInv
    BY SplitInv
  <2>2. UNCHANGED <<storeVars, req, registry, revoking, allowed, live, handed, history>>
    BY <1>5 DEF vars, gateVars
  <2>3. RestInv'
    BY <2>1, <2>2, RestKept DEF RestInv
  <2>4. SlotsInv'
    BY <2>1, <2>2 DEF SlotsInv, SlotInv, Protected, ServedRightly, storeVars, history
  <2> QED BY <2>3, <2>4, SplitInvNext
<1> QED BY <1>1, <1>2, <1>3, <1>4, <1>5 DEF Next

\* GateInv holds in every reachable state, for every instance.
THEOREM GateInvariant == Spec => []GateInv
<1>1. Init => GateInv
  BY InitInv
<1>2. GateInv /\ [Next]_vars => GateInv'
  BY NextInv
<1> QED BY <1>1, <1>2, PTL DEF Spec

\* The variables keep their types.
THEOREM TypeCorrect == Spec => []TypeOK
<1>1. GateInv => TypeOK
  BY DEF GateInv
<1> QED BY <1>1, GateInvariant, PTL

\* Requests that need a session reach the upstream server only with a token
\* accepted on their route (handle_with_auth).
THEOREM GateSoundness == Spec => []GateSound
<1>1. GateInv => GateSound
  BY DEF GateInv
<1> QED BY <1>1, GateInvariant, PTL

\* Users no configuration allowed never get a session (handle_login_response).
THEOREM StrangersStayOut == Spec => []StrangersOut
<1>1. GateInv => StrangersOut
  BY DEF GateInv, Grounded, StrangersOut
<1> QED BY <1>1, GateInvariant, PTL

\* A login answered with 200 stays valid over failed saves of other sessions
\* and, with a state file, over restarts (Store::add).
THEOREM LoginDurability == Spec => []AckedDurable
<1>1. GateInv => AckedDurable
  BY DEF GateInv
<1> QED BY <1>1, GateInvariant, PTL

\* A saved logout is not undone by other requests or restarts (Store::remove).
THEOREM LogoutIsFinal == Spec => []LogoutFinal
<1>1. GateInv => LogoutFinal
  BY DEF GateInv
<1> QED BY <1>1, GateInvariant, PTL

\* With a state file every signature a client was given verifies for its URL
\* in this process and in every later one (Store::open, sign, verify).
THEOREM SignaturesOutlive == Spec => []SignaturesVerify
<1>1. GateInv => SignaturesVerify
  BY DEF GateInv
<1> QED BY <1>1, GateInvariant, PTL

\* Resource requests reach configured or handed-out hosts only, signed ones
\* only with a signature handed out for their route, scheme and host
\* (proxy_resource).
THEOREM ResourceSoundness == Spec => []ResourceSound
<1>1. GateInv => ResourceSound
  BY DEF GateInv
<1> QED BY <1>1, GateInvariant, PTL

\* Saving writes the secret that is in the file already; only a start may set
\* it, and only when the file has none.
LEMMA SecretKept == GateInv /\ [Next]_vars => (file.secret # NoSecret => file'.secret = file.secret)
<1> SUFFICES ASSUME GateInv, [Next]_vars, file.secret # NoSecret
             PROVE  file'.secret = file.secret
  OBVIOUS
<1>1. StoreTypeOK /\ SecretSaved /\ RestInv /\ SlotsInv
  BY SplitInv DEF RestInv
<1>2. ASSUME NEW map, NEW ok \in BOOLEAN, up, Save(map, secret, ok)
      PROVE  file'.secret = file.secret
  BY <1>1, <1>2 DEF Save, ReplaceFile, SecretSaved
<1>3. CASE Start
  BY <1>1, <1>3, OpenEffect DEF Start
<1>4. CASE Halt
  BY <1>4 DEF Halt, Stop
<1>5. ASSUME NEW p \in Slots, NEW ok \in BOOLEAN, LogoutDone(p, ok) PROVE file'.secret = file.secret
  BY <1>2, <1>5 DEF LogoutDone, Remove
<1>6. ASSUME NEW p \in Slots, NEW ok \in BOOLEAN, LoginAccepted(p, ok) PROVE file'.secret = file.secret
  BY <1>2, <1>6 DEF LoginAccepted, Add
<1>7. ASSUME UNCHANGED storeVars PROVE file'.secret = file.secret
  BY <1>7 DEF storeVars
<1>8. ASSUME NEW p \in Slots,
             Arrive(p) \/ UpstreamActs(p) \/ Disconnect(p) \/ PassThrough(p) \/ SendFails(p)
               \/ ReadHeaders(p) \/ BodyFails(p) \/ LoginRejected(p) \/ RewritePlayback(p)
      PROVE  UNCHANGED storeVars
  BY <1>8 DEF Arrive, Forward, ForwardResource, UpstreamActs, UpstreamLogin, UpstreamLogout,
              UpstreamPlayback, Disconnect, PassThrough, SendFails, ReadHeaders, BodyFails,
              LoginRejected, RewritePlayback
<1>9. ASSUME NEW t \in Tokens, RevokeDone(t) \/ RevokeFails(t) PROVE UNCHANGED storeVars
  BY <1>9 DEF RevokeDone, RevokeFails
<1>10. CASE UNCHANGED vars
  BY <1>10 DEF vars, storeVars
<1> QED BY <1>3, <1>4, <1>5, <1>6, <1>7, <1>8, <1>9, <1>10 DEF Next, HeaderWaitEnds, BodyRead

\* The secret in the state file is never replaced (Store::open).
THEOREM SecretNeverChanges == Spec => SecretStable
<1>1. GateInv /\ [Next]_vars => [file.secret # NoSecret => file'.secret = file.secret]_vars
  BY SecretKept
<1> QED BY <1>1, GateInvariant, PTL DEF Spec, SecretStable

-----------------------------------------------------------------------------
(* The refinement: the store is a map with a saved copy. *)

\* A change of one key, saved at once or not, is a step of the map.
LEMMA ChangeStep ==
  ASSUME NEW t \in Tokens, NEW s \in Session \cup {NoSession},
         up, up', sessions' = [sessions EXCEPT ![t] = s],
         file'.sessions = file.sessions \/ (StateFile /\ file'.sessions = sessions')
  PROVE  Map!Next
<1>1. Map!Change(t, s)
  BY DEF Map!Change
<1> QED BY <1>1 DEF Map!Next

\* Every step of the gate is a step of the map or leaves it alone.
LEMMA MapStep == GateInv /\ [Next]_vars => [Map!Next]_(Map!mapVars)
<1> SUFFICES ASSUME GateInv, [Next]_vars PROVE Map!Next \/ UNCHANGED Map!mapVars
  OBVIOUS
<1>1. StoreTypeOK /\ SecretSaved /\ RestInv /\ SlotsInv
  BY SplitInv DEF RestInv
<1>2. /\ secret \in Secrets /\ sessions \in SessionMap
      /\ file \in [secret : Secrets, sessions : SessionMap]
  BY <1>1 DEF StoreTypeOK
<1>3. CASE Start
  <2>1. ~up /\ up' /\ sessions' = file.sessions /\ file'.sessions = file.sessions
    BY <1>1, <1>3, OpenEffect DEF Start, Open
  <2> QED BY <2>1 DEF Map!mapVars
<1>4. CASE Halt
  BY <1>4 DEF Halt, Stop, Map!Next, Map!Restart
<1>5. ASSUME NEW p \in Slots, NEW ok \in BOOLEAN, LogoutDone(p, ok)
      PROVE  Map!Next \/ UNCHANGED Map!mapVars
  <2> DEFINE t == req[p].tok
  <2>1. t \in Tokens /\ Remove(t, ok)
    BY <1>1, <1>5 DEF SlotsInv, SlotInv, LogoutDone
  <2> HIDE DEF t
  <2>2. CASE UNCHANGED <<sessions, file>>
    BY <2>1, <2>2 DEF Remove, Map!mapVars
  <2>3. CASE sessions' = [sessions EXCEPT ![t] = NoSession] /\ Save(sessions', secret, ok)
    <3>1. sessions' \in SessionMap
      BY <1>2, <2>1, <2>3 DEF SessionMap
    <3>2. file'.sessions = file.sessions \/ (StateFile /\ file'.sessions = sessions')
      BY <1>2, <2>3, <3>1, SaveTypes
    <3> QED BY <2>1, <2>3, <3>2, ChangeStep DEF Remove
  <2> QED BY <2>1, <2>2, <2>3 DEF Remove
<1>6. ASSUME NEW p \in Slots, NEW ok \in BOOLEAN, LoginAccepted(p, ok)
      PROVE  Map!Next \/ UNCHANGED Map!mapVars
  <2> DEFINE t == req[p].got
             s == [route |-> req[p].route, user |-> Owner[t]]
  <2>1. t \in Tokens /\ req[p].route \in Routes
    BY <1>1, <1>6 DEF SlotsInv, SlotInv, LoginAccepted, LoginAllowed
  <2>2. s \in Session /\ Add(t, s, ok)
    BY <1>6, <2>1, GateAssumption DEF GateAssumption, Session, LoginAccepted
  <2> HIDE DEF t, s
  <2>3. sessions' = [sessions EXCEPT ![t] = s] /\ Save(sessions', secret, ok) /\ up /\ up'
    BY <2>2 DEF Add
  <2>4. sessions' \in SessionMap
    BY <1>2, <2>1, <2>2, <2>3 DEF SessionMap
  <2>5. file'.sessions = file.sessions \/ (StateFile /\ file'.sessions = sessions')
    BY <1>2, <2>3, <2>4, SaveTypes
  <2> QED BY <2>1, <2>2, <2>3, <2>5, ChangeStep
<1>7. ASSUME UNCHANGED storeVars PROVE UNCHANGED Map!mapVars
  BY <1>7 DEF storeVars, Map!mapVars
<1>8. ASSUME NEW p \in Slots,
             Arrive(p) \/ UpstreamActs(p) \/ Disconnect(p) \/ PassThrough(p) \/ SendFails(p)
               \/ ReadHeaders(p) \/ BodyFails(p) \/ LoginRejected(p) \/ RewritePlayback(p)
      PROVE  UNCHANGED storeVars
  BY <1>8 DEF Arrive, Forward, ForwardResource, UpstreamActs, UpstreamLogin, UpstreamLogout,
              UpstreamPlayback, Disconnect, PassThrough, SendFails, ReadHeaders, BodyFails,
              LoginRejected, RewritePlayback
<1>9. ASSUME NEW t \in Tokens, RevokeDone(t) \/ RevokeFails(t) PROVE UNCHANGED storeVars
  BY <1>9 DEF RevokeDone, RevokeFails
<1>10. CASE UNCHANGED vars
  BY <1>10 DEF vars, storeVars, Map!mapVars
<1> QED BY <1>3, <1>4, <1>5, <1>6, <1>7, <1>8, <1>9, <1>10 DEF Next, HeaderWaitEnds, BodyRead

\* The gate, its store and its file implement a map with a saved copy, with
\* any number of handlers, failed saves and restarts (Store).
THEOREM Refinement == Spec => ImplementsMap
<1>1. Init => Map!Init
  BY DEF Init, StoreInit, Map!Init, EmptyMap, Map!Empty
<1>2. GateInv /\ [Next]_vars => [Map!Next]_(Map!mapVars)
  BY MapStep
<1> QED BY <1>1, <1>2, GateInvariant, PTL DEF Spec, ImplementsMap, Map!Spec
=============================================================================
