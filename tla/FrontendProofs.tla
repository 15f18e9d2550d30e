--------------------------- MODULE FrontendProofs ---------------------------
(***************************************************************************)
(* What reaches the upstream, for every configuration, every request and   *)
(* every reading of texts: its headers, the logins among it, and the       *)
(* tokens it takes to get there; who is turned away, what is logged, which *)
(* route answers, and the types of all of it.                              *)
(***************************************************************************)
EXTENDS Frontend, ClientFilterProofs, QueryLogProofs, SumTheorems, TLAPS

Public(r) == IsPublicEmbyPath(r.method, EmbyPathSegments(r.path))
HasToken(r) == RequestToken(r.headers, r.query) = ValidToken

\* An answer is one to a request, under the configuration being served; one
\* with an upstream request comes from ProxyUpstream, past the check of tokens,
\* and 401 is what that check says.
FrontInv ==
  answer # Idle =>
    /\ step = "serving"
    /\ IsRequest(request)
    /\ answer.status = "forwarded" =>
         /\ \E i : answer = ProxyUpstream(i, request)
         /\ GateOn => Public(request) \/ HasToken(request)
    /\ answer.status = "401" => ~HasToken(request)

-----------------------------------------------------------------------------
(* Headers *)

\* What prepare_outbound_headers removes last.
Replaced == {"forwarded", "x-forwarded-for", "x-forwarded-host", "x-forwarded-proto", "host"}

\* prepare_outbound_headers: which headers it lets through, and which it makes.
LEMMA Prepared ==
  ASSUME NEW headers, NEW upgrade, NEW out, out = PrepareOutbound(headers, upgrade)
  PROVE  /\ \A h : h \in DOMAIN out <=>
              /\ h \notin Replaced
              /\ \/ h \in DOMAIN headers /\ h \notin Named(headers) /\ h \notin HopByHop
                 \/ h = "te" /\ ContainsToken(headers, "te", "trailers")
                 \/ h \in {"connection", "upgrade"} /\ upgrade # <<>>
         /\ \A h \in DOMAIN out : h \notin {"te", "connection", "upgrade"} => out[h] = headers[h]
         /\ "te" \in DOMAIN out => out["te"] = <<<<"trailers">>>>
<1> DEFINE bare == RemoveHopByHop(headers)
           te == IF ContainsToken(headers, "te", "trailers") THEN Insert(bare, "te", "trailers")
                 ELSE bare
           connected == Insert(te, "connection", "Upgrade")
           up == IF upgrade = <<>> THEN te ELSE Put(connected, "upgrade", <<upgrade>>)
<1>1. out = Without(up, Replaced)
  BY DEF PrepareOutbound, Replaced
<1>2. /\ \A h : h \in DOMAIN bare <=> h \in DOMAIN headers /\ h \notin Named(headers) /\ h \notin HopByHop
      /\ \A h \in DOMAIN bare : bare[h] = headers[h]
  BY DEF RemoveHopByHop, Without
<1> HIDE DEF bare
<1>3. /\ \A h : h \in DOMAIN te <=> h \in DOMAIN bare \/ (h = "te" /\ ContainsToken(headers, "te", "trailers"))
      /\ \A h \in DOMAIN te : h # "te" => te[h] = bare[h]
      /\ "te" \in DOMAIN te => te["te"] = <<<<"trailers">>>>
  <2>1. "te" \notin DOMAIN bare
    BY <1>2 DEF HopByHop
  <2>2. CASE ContainsToken(headers, "te", "trailers")
    <3>1. te = Put(bare, "te", <<<<"trailers">>>>)
      BY <2>2 DEF Insert
    <3> HIDE DEF te
    <3> QED  BY <2>2, <3>1 DEF Put
  <2>3. CASE ~ContainsToken(headers, "te", "trailers")
    BY <2>1, <2>3
  <2> QED  BY <2>2, <2>3
<1> HIDE DEF te
<1>4. /\ \A h : h \in DOMAIN up <=> h \in DOMAIN te \/ (h \in {"connection", "upgrade"} /\ upgrade # <<>>)
      /\ \A h \in DOMAIN up : h \notin {"connection", "upgrade"} => up[h] = te[h]
  <2>1. /\ DOMAIN connected = DOMAIN te \cup {"connection"}
        /\ \A h \in DOMAIN te : h # "connection" => connected[h] = te[h]
    BY DEF Insert, Put
  <2> HIDE DEF connected
  <2>2. CASE upgrade = <<>>
    BY <2>2
  <2>3. CASE upgrade # <<>>
    <3>1. up = Put(connected, "upgrade", <<upgrade>>)
      BY <2>3
    <3> HIDE DEF up
    <3>2. /\ DOMAIN up = DOMAIN connected \cup {"upgrade"}
          /\ \A h \in DOMAIN connected : h # "upgrade" => up[h] = connected[h]
      BY <3>1 DEF Put
    <3> QED  BY <2>1, <2>3, <3>2
  <2> QED  BY <2>2, <2>3
<1> HIDE DEF up
<1>5. /\ \A h : h \in DOMAIN out <=> h \in DOMAIN up /\ h \notin Replaced
      /\ \A h \in DOMAIN out : out[h] = up[h]
  BY <1>1 DEF Without
<1> QED  BY <1>2, <1>3, <1>4, <1>5

ForwardingHeaders == {"x-forwarded-for", "x-forwarded-host", "x-forwarded-proto"}

\* What proxy_upstream makes of them.
LEMMA Outbound ==
  ASSUME NEW headers, NEW hide, NEW own, NEW buffered, NEW pre, NEW out,
         pre = PrepareOutbound(headers, UpgradeType(headers)),
         out = OutboundHeaders(headers, hide, own, buffered)
  PROVE  /\ \A h : h \in DOMAIN out <=>
              /\ ~(buffered /\ h = "accept-encoding")
              /\ \/ h \in DOMAIN pre /\ ~(hide /\ h \in IdentityHeaders)
                 \/ ~hide /\ h \in ForwardingHeaders
         /\ \A h \in DOMAIN out : h \notin ForwardingHeaders => out[h] = pre[h]
         /\ ~hide => /\ out["x-forwarded-for"] = <<<<own.addr>>>>
                     /\ out["x-forwarded-host"] = <<<<own.host>>>>
                     /\ out["x-forwarded-proto"] = <<<<own.proto>>>>
<1> DEFINE id == IF hide THEN Without(pre, IdentityHeaders) ELSE ForwardedFor(pre, own)
<1>1. out = IF buffered THEN Without(id, {"accept-encoding"}) ELSE id
  BY DEF OutboundHeaders
<1>2. /\ \A h : h \in DOMAIN id <=> \/ h \in DOMAIN pre /\ ~(hide /\ h \in IdentityHeaders)
                                    \/ ~hide /\ h \in ForwardingHeaders
      /\ \A h \in DOMAIN id : h \notin ForwardingHeaders => id[h] = pre[h]
      /\ ~hide => /\ id["x-forwarded-for"] = <<<<own.addr>>>>
                  /\ id["x-forwarded-host"] = <<<<own.host>>>>
                  /\ id["x-forwarded-proto"] = <<<<own.proto>>>>
  <2>1. CASE hide
    <3>1. id = Without(pre, IdentityHeaders)
      BY <2>1
    <3> HIDE DEF id
    <3> QED  BY <2>1, <3>1 DEF Without
  <2>2. CASE ~hide
    <3>1. id = ForwardedFor(pre, own)
      BY <2>2
    <3> HIDE DEF id
    <3> DEFINE a == Insert(pre, "x-forwarded-for", own.addr)
               b == Insert(a, "x-forwarded-host", own.host)
    <3>2. /\ DOMAIN a = DOMAIN pre \cup {"x-forwarded-for"}
          /\ a["x-forwarded-for"] = <<<<own.addr>>>>
          /\ \A h \in DOMAIN pre : h # "x-forwarded-for" => a[h] = pre[h]
      BY DEF Insert, Put
    <3> HIDE DEF a
    <3>3. /\ DOMAIN b = DOMAIN a \cup {"x-forwarded-host"}
          /\ b["x-forwarded-host"] = <<<<own.host>>>>
          /\ \A h \in DOMAIN a : h # "x-forwarded-host" => b[h] = a[h]
      BY DEF Insert, Put
    <3>4. id = Insert(b, "x-forwarded-proto", own.proto)
      BY <3>1 DEF ForwardedFor, a
    <3> HIDE DEF b
    <3>5. /\ DOMAIN id = DOMAIN b \cup {"x-forwarded-proto"}
          /\ id["x-forwarded-proto"] = <<<<own.proto>>>>
          /\ \A h \in DOMAIN b : h # "x-forwarded-proto" => id[h] = b[h]
      BY <3>4 DEF Insert, Put
    <3> QED  BY <2>2, <3>2, <3>3, <3>5 DEF ForwardingHeaders
  <2> QED  BY <2>1, <2>2
<1> HIDE DEF id
<1>3. /\ \A h : h \in DOMAIN out <=> h \in DOMAIN id /\ ~(buffered /\ h = "accept-encoding")
      /\ \A h \in DOMAIN out : out[h] = id[h]
  BY <1>1 DEF Without
<1> QED  BY <1>2, <1>3 DEF ForwardingHeaders

-----------------------------------------------------------------------------
(* The invariant *)

\* Which request is forwarded, and which answered with 401.
LEMMA HandleAnswers ==
  ASSUME NEW r, NEW a,
         a = IF RouteOf(r) = 0 THEN Refuse(0, "404", r) ELSE HandleChecked(RouteOf(r), r)
  PROVE  /\ a.status = "forwarded" => /\ \E i : a = ProxyUpstream(i, r)
                                      /\ GateOn => Public(r) \/ HasToken(r)
         /\ a.status = "401" => ~HasToken(r)
<1>1. ASSUME NEW i, NEW status PROVE Refuse(i, status, r).status = status
  BY DEF Refuse
<1>2. ASSUME NEW i PROVE ProxyUpstream(i, r).status = "forwarded"
  BY DEF ProxyUpstream, Refuse
<1> SUFFICES ASSUME a.status \in {"forwarded", "401"}
             PROVE  \/ /\ \E i : a = ProxyUpstream(i, r)
                       /\ GateOn => Public(r) \/ HasToken(r)
                    \/ \E i : a = Refuse(i, "401", r) /\ ~HasToken(r)
  BY <1>1, <1>2
<1>3. a # Refuse(0, "404", r)
  BY <1>1
<1> DEFINE i == RouteOf(r)
<1>4. a = HandleChecked(i, r)
  BY <1>3
<1> HIDE DEF i
<1>5. a # Refuse(i, "403", r) /\ a # Refuse(i, "resource", r) /\ a # Refuse(i, "nobody", r)
  BY <1>1
<1>6. a = RouteRequest(i, r)
  BY <1>4, <1>5 DEF HandleChecked
<1> QED  BY <1>5, <1>6 DEF RouteRequest, Public, HasToken

\* The invariant holds of the front end (Server::handle).
THEOREM FrontInvariant == Spec => []FrontInv
<1>1. Init => FrontInv
  BY DEF Init, FrontInv
<1>2. FrontInv /\ [Next]_frontendVars => FrontInv'
  <2> SUFFICES ASSUME FrontInv, [Next]_frontendVars PROVE FrontInv'
    OBVIOUS
  <2>1. CASE LoadStep
    <3>1. step # "serving"
      BY <2>1 DEF LoadStep, Load, ParseFlag, MoreFlags, EndFlags, LoadFile, ApplyEnv, ApplyCli, Check
    <3>2. answer = Idle
      BY <3>1 DEF FrontInv
    <3>3. answer' = Idle'
      BY <2>1, <3>2 DEF LoadStep, Idle
    <3> QED  BY <3>3 DEF FrontInv
  <2>2. CASE Handle
    <3>1. PICK r : /\ IsRequest(r) /\ request' = r
                   /\ answer' = IF RouteOf(r) = 0 THEN Refuse(0, "404", r)
                                ELSE HandleChecked(RouteOf(r), r)
      BY <2>2 DEF Handle
    <3>2. step' = "serving" /\ config' = config
      BY <2>2 DEF Handle, configVars
    <3>3. /\ answer'.status = "forwarded" => /\ \E i : answer' = ProxyUpstream(i, r)
                                             /\ GateOn => Public(r) \/ HasToken(r)
          /\ answer'.status = "401" => ~HasToken(r)
      BY <3>1, HandleAnswers
    <3>4. /\ GateOn' = GateOn
          /\ \A i : ProxyUpstream(i, r)' = ProxyUpstream(i, r)
      BY <3>2 DEF ProxyUpstream, GateOn
    <3>5. ASSUME answer'.status = "forwarded"
          PROVE  (\E i : answer = ProxyUpstream(i, request))'
      <4>1. PICK i : answer' = ProxyUpstream(i, r)
        BY <3>3, <3>5
      <4>2. ProxyUpstream(i, r)' = ProxyUpstream(i, r)
        BY <3>4
      <4> QED  BY <3>1, <4>1, <4>2
    <3>6. Public(request)' = Public(r) /\ HasToken(request)' = HasToken(r)
      BY <3>1 DEF Public, HasToken
    <3>7. /\ answer'.status = "forwarded" => (GateOn => Public(request) \/ HasToken(request))'
          /\ answer'.status = "401" => ~HasToken(request)'
      BY <3>3, <3>4, <3>6
    <3> QED  BY <3>1, <3>2, <3>5, <3>7 DEF FrontInv
  <2>3. CASE Answered
    BY <2>3 DEF Answered, FrontInv, Idle
  <2>4. CASE Exited \/ UNCHANGED frontendVars
    <3>1. UNCHANGED <<step, config, request, answer>>
      BY <2>4 DEF Exited, frontendVars, configVars
    <3>2. /\ \A i, r : ProxyUpstream(i, r)' = ProxyUpstream(i, r)
          /\ GateOn' = GateOn
      BY <3>1 DEF ProxyUpstream, GateOn
    <3> QED  BY <3>1, <3>2 DEF FrontInv
  <2> QED  BY <2>1, <2>2, <2>3, <2>4 DEF Next
<1> QED  BY <1>1, <1>2, PTL DEF Spec

-----------------------------------------------------------------------------
(* What the upstream sees *)

\* What the proxy saw of the client, and whether it reads the answer's body.
Own(r) == [addr |-> ShowAddr(Remote(r)), host |-> RequestHost(r),
           proto |-> IF r.tls THEN "https" ELSE "http"]
Buffered(r) == (GateOn /\ IsLoginPath(r.path)) \/ IsPlaybackInfoPath(r.path)

\* The headers of a forwarded request.
LEMMA ForwardedHeaders ==
  ASSUME FrontInv, Forwarded
  PROVE  /\ answer.headers = OutboundHeaders(request.headers, config.hide_client,
                                             Own(request), Buffered(request))
         /\ answer.login = (GateOn /\ IsLoginPath(request.path))
<1>1. PICK i : answer = ProxyUpstream(i, request)
  BY DEF FrontInv, Forwarded
<1> QED  BY <1>1 DEF ProxyUpstream, Refuse, Own, Buffered

\* No hop-by-hop header reaches the upstream, and every other header does
\* (remove_hop_by_hop, prepare_outbound_headers).
THEOREM FrontHopsRemoved == Spec => []HopsRemoved
<1>1. FrontInv => HopsRemoved
  <2> SUFFICES ASSUME FrontInv, Forwarded PROVE HopsRemoved
    BY DEF HopsRemoved
  <2> DEFINE sent == request.headers
             hops == HopByHop \cup Named(sent)
             ended == hops \cup IdentityHeaders \cup {"host", "accept-encoding"}
             out == answer.headers
             pre == PrepareOutbound(sent, UpgradeType(sent))
             hide == config.hide_client
             own == Own(request)
             buffered == Buffered(request)
  <2>1. out = OutboundHeaders(sent, hide, own, buffered)
    BY ForwardedHeaders
  <2> HIDE DEF sent, out, hide, own, buffered
  <2>2. /\ \A h : h \in DOMAIN out <=>
             /\ ~(buffered /\ h = "accept-encoding")
             /\ \/ h \in DOMAIN pre /\ ~(hide /\ h \in IdentityHeaders)
                \/ ~hide /\ h \in ForwardingHeaders
        /\ \A h \in DOMAIN out : h \notin ForwardingHeaders => out[h] = pre[h]
    BY <2>1, Outbound
  <2>3. /\ \A h : h \in DOMAIN pre <=>
             /\ h \notin Replaced
             /\ \/ h \in DOMAIN sent /\ h \notin Named(sent) /\ h \notin HopByHop
                \/ h = "te" /\ ContainsToken(sent, "te", "trailers")
                \/ h \in {"connection", "upgrade"} /\ UpgradeType(sent) # <<>>
        /\ \A h \in DOMAIN pre : h \notin {"te", "connection", "upgrade"} => pre[h] = sent[h]
        /\ "te" \in DOMAIN pre => pre["te"] = <<<<"trailers">>>>
    BY Prepared
  <2> HIDE DEF pre
  <2> USE DEF HopByHop, IdentityHeaders, Replaced, ForwardingHeaders
  <2>4. (DOMAIN out) \cap hops \subseteq OwnHeaders
    BY <2>2, <2>3 DEF OwnHeaders
  <2>5. "te" \in DOMAIN out <=> ContainsToken(sent, "te", "trailers")
    BY <2>2, <2>3
  <2>6. "te" \in DOMAIN out => out["te"] = <<<<"trailers">>>>
    BY <2>2, <2>3
  <2>7. \A h \in {"connection", "upgrade"} : h \in DOMAIN out <=> UpgradeType(sent) # <<>>
    BY <2>2, <2>3
  <2>8. \A h \in DOMAIN sent \ ended : h \in DOMAIN out /\ out[h] = sent[h]
    BY <2>2, <2>3
  <2> QED  BY <2>4, <2>5, <2>6, <2>7, <2>8 DEF HopsRemoved, sent, out
<1> QED  BY <1>1, FrontInvariant, PTL

\* No header of IDENTITY_HEADERS reaches the upstream when clients are hidden;
\* otherwise the forwarding headers are the proxy's own, Forwarded is gone, and
\* the others of the list arrive as they were sent (proxy_upstream).
THEOREM FrontForwardedOwn == Spec => []ForwardedOwn
<1>1. FrontInv => ForwardedOwn
  <2> SUFFICES ASSUME FrontInv, Forwarded PROVE ForwardedOwn
    BY DEF ForwardedOwn
  <2> DEFINE sent == request.headers
             out == answer.headers
             pre == PrepareOutbound(sent, UpgradeType(sent))
             hide == config.hide_client
             own == Own(request)
             buffered == Buffered(request)
  <2>1. out = OutboundHeaders(sent, hide, own, buffered)
    BY ForwardedHeaders
  <2> HIDE DEF sent, out, hide, own, buffered
  <2>2. /\ \A h : h \in DOMAIN out <=>
             /\ ~(buffered /\ h = "accept-encoding")
             /\ \/ h \in DOMAIN pre /\ ~(hide /\ h \in IdentityHeaders)
                \/ ~hide /\ h \in ForwardingHeaders
        /\ \A h \in DOMAIN out : h \notin ForwardingHeaders => out[h] = pre[h]
        /\ ~hide => /\ out["x-forwarded-for"] = <<<<own.addr>>>>
                    /\ out["x-forwarded-host"] = <<<<own.host>>>>
                    /\ out["x-forwarded-proto"] = <<<<own.proto>>>>
    BY <2>1, Outbound
  <2>3. /\ \A h : h \in DOMAIN pre <=>
             /\ h \notin Replaced
             /\ \/ h \in DOMAIN sent /\ h \notin Named(sent) /\ h \notin HopByHop
                \/ h = "te" /\ ContainsToken(sent, "te", "trailers")
                \/ h \in {"connection", "upgrade"} /\ UpgradeType(sent) # <<>>
        /\ \A h \in DOMAIN pre : h \notin {"te", "connection", "upgrade"} => pre[h] = sent[h]
    BY Prepared
  <2> HIDE DEF pre
  <2>4. hide => (DOMAIN out) \cap IdentityHeaders = {}
    BY <2>2
  <2>5. ~hide => "forwarded" \notin DOMAIN out
    BY <2>2, <2>3 DEF Replaced, ForwardingHeaders
  <2>6. ASSUME ~hide, NEW h \in {"via", "x-real-ip", "x-forwarded-protocol", "x-forwarded-ssl"}
        PROVE  /\ h \in DOMAIN out <=> h \in DOMAIN sent /\ h \notin Named(sent)
               /\ h \in DOMAIN out => out[h] = sent[h]
    <3>1. /\ h \notin Replaced \cup ForwardingHeaders \cup HopByHop
          /\ h \notin {"te", "connection", "upgrade", "accept-encoding"}
      BY DEF Replaced, ForwardingHeaders, HopByHop
    <3>2. h \in DOMAIN pre <=> h \in DOMAIN sent /\ h \notin Named(sent)
      BY <2>3, <3>1
    <3>3. h \in DOMAIN out <=> h \in DOMAIN pre
      BY <2>2, <2>6, <3>1
    <3>4. h \in DOMAIN out => out[h] = sent[h]
      BY <2>2, <2>3, <3>1, <3>3
    <3> QED  BY <3>2, <3>3, <3>4
  <2>7. /\ own.addr = ShowAddr(Remote(request)) /\ own.host = RequestHost(request)
        /\ own.proto = IF request.tls THEN "https" ELSE "http"
    BY DEF own, Own
  <2> QED  BY <2>2, <2>4, <2>5, <2>6, <2>7 DEF ForwardedOwn, out, hide, sent
<1> QED  BY <1>1, FrontInvariant, PTL

-----------------------------------------------------------------------------
(* Logins *)

\* A segment that is not empty, a segment as it is matched, and a path's end
\* as it is matched.
Full(path, k) == path[k] # ""
Heard(path, k) == Lower(path[k])
FullOnes(path) == {i \in 1 .. Len(path) : Full(path, i)}
Ending(path, k) == LowerAll(SubSeq(path, k, Len(path)))
EmbyWord(w) == w \in {"emby", "mediabrowser"}

\* trim_matches leaves a path from its first to its last segment that is not
\* empty.
LEMMA Trimmed ==
  ASSUME NEW path \in Seq(STRING), FullOnes(path) # {}
  PROVE  TrimSlashes(path) =
           IF Min(FullOnes(path)) = 0 THEN <<>>
           ELSE SubSeq(path, Min(FullOnes(path)), Max(FullOnes(path)))
<1> DEFINE I == {i \in 1 .. Len(path) : path[i] # ""}
<1>1. FullOnes(path) = I
  BY Zenon DEF FullOnes, Full
<1>2. SelectInSeq(path, LAMBDA s : s # "") = Min(I)
  BY <1>1 DEF SelectInSeq
<1>3. SelectLastInSeq(path, LAMBDA s : s # "") = Max(I)
  BY <1>1 DEF SelectLastInSeq
<1> HIDE DEF I
<1> QED  BY <1>1, <1>2, <1>3, Zenon DEF TrimSlashes

\* So it leaves the end of a path that does not end in a slash, from its first
\* segment that is not empty on.
LEMMA TrimmedEnd ==
  ASSUME NEW path \in Seq(STRING), NEW k \in 1 .. Len(path), Full(path, k),
         Full(path, Len(path))
  PROVE  \E q \in 1 .. k : TrimSlashes(path) = SubSeq(path, q, Len(path))
<1> DEFINE L == Len(path)
           I == FullOnes(path)
<1>1. L \in Nat /\ k \in I /\ L \in I /\ I \in SUBSET Nat /\ I \in SUBSET (1 .. L)
  BY DEF FullOnes
<1>2. I # {}
  BY <1>1
<1>3. TrimSlashes(path) = IF Min(I) = 0 THEN <<>> ELSE SubSeq(path, Min(I), Max(I))
  BY <1>2, Trimmed
<1> HIDE DEF I
<1>4. Min(I) \in I /\ \A i \in I : Min(I) <= i
  <2>1. \E m \in I : \A i \in I : m <= i
    BY <1>1, <1>2, LeastOf
  <2> QED  BY <2>1, Zenon DEF Min
<1>5. Max(I) = L
  <2>1. \A i \in I : L >= i
    BY <1>1
  <2>2. Max(I) \in I /\ \A i \in I : Max(I) >= i
    BY <1>1, <2>1, Zenon DEF Max
  <2>3. Max(I) \in 1 .. L /\ Max(I) >= L
    BY <1>1, <2>2
  <2> QED  BY <1>1, <2>3
<1>6. Min(I) \in 1 .. k /\ Min(I) # 0
  <2>1. Min(I) \in 1 .. L /\ Min(I) <= k
    BY <1>1, <1>4, Zenon
  <2> HIDE DEF L
  <2> QED  BY <1>1, <2>1
<1> QED  BY <1>3, <1>5, <1>6

LEMMA EndingWords ==
  ASSUME NEW path \in Seq(STRING), NEW p \in 1 .. Len(path)
  PROVE  /\ Ending(path, p) = [i \in 1 .. (Len(path) - p + 1) |-> Heard(path, i + p - 1)]
         /\ Len(Ending(path, p)) = Len(path) - p + 1
<1>1. /\ DOMAIN SubSeq(path, p, Len(path)) = 1 .. (Len(path) - p + 1)
      /\ \A i \in 1 .. (Len(path) - p + 1) : SubSeq(path, p, Len(path))[i] = path[i + p - 1]
  OBVIOUS
<1>2. Ending(path, p) = [i \in 1 .. (Len(path) - p + 1) |-> Heard(path, i + p - 1)]
  BY <1>1, Zenon DEF Ending, LowerAll, Heard
<1> QED  BY <1>2

\* emby_path_segments drops one segment of it at most, and not that one.
LEMMA SegmentsEnd ==
  ASSUME NEW path \in Seq(STRING), NEW k \in 1 .. Len(path), Full(path, k),
         Full(path, Len(path)), ~EmbyWord(Heard(path, k))
  PROVE  \E q \in 1 .. k : EmbyPathSegments(path) = Ending(path, q)
<1> DEFINE L == Len(path)
<1>1. PICK q \in 1 .. k : TrimSlashes(path) = SubSeq(path, q, L)
  BY TrimmedEnd
<1>2. L \in Nat /\ q \in 1 .. L /\ k \in 1 .. L /\ q <= k /\ q \in Nat
  OBVIOUS
<1>3. /\ Ending(path, q) = [i \in 1 .. (L - q + 1) |-> Heard(path, i + q - 1)]
      /\ Len(Ending(path, q)) = L - q + 1
  BY <1>2, EndingWords
<1>4. Ending(path, q) # <<>> /\ Ending(path, q)[1] = Heard(path, q)
  <2>1. 1 \in 1 .. (L - q + 1) /\ 1 + q - 1 = q
    BY <1>2
  <2>2. Len(Ending(path, q)) # 0
    BY <1>2, <1>3
  <2>3. Ending(path, q) # <<>>
    BY <2>2
  <2>4. Ending(path, q)[1] = Heard(path, q)
    BY <1>3, <2>1
  <2> QED  BY <2>3, <2>4
<1>5. EmbyPathSegments(path) =
        IF EmbyWord(Heard(path, q)) THEN Tail(Ending(path, q)) ELSE Ending(path, q)
  <2>1. LowerAll(TrimSlashes(path)) = Ending(path, q)
    BY <1>1, Zenon DEF Ending
  <2> QED  BY <1>4, <2>1, Zenon DEF EmbyPathSegments, EmbyWord
<1>6. CASE ~EmbyWord(Heard(path, q))
  BY <1>5, <1>6
<1>7. CASE EmbyWord(Heard(path, q))
  <2>1. q # k
    BY <1>7, Zenon
  <2>2. q + 1 \in 1 .. k /\ q + 1 \in 1 .. L
    BY <1>2, <2>1
  <2>3. Ending(path, q + 1) = [i \in 1 .. (L - (q + 1) + 1) |-> Heard(path, i + (q + 1) - 1)]
    BY <2>2, EndingWords
  <2>4. Tail(Ending(path, q)) = [i \in 1 .. (L - q) |-> Ending(path, q)[i + 1]]
    BY <1>2, <1>3
  <2>5. Tail(Ending(path, q)) = Ending(path, q + 1)
    BY <1>2, <1>3, <2>3, <2>4
  <2> QED  BY <1>5, <1>7, <2>2, <2>5
<1> QED  BY <1>6, <1>7

\* The words of a login are the segments of no empty one, and no prefix.
LEMMA LoginWords ==
  ASSUME NEW path, NEW k, Heard(path, k) \in {"users", "authenticatebyname", "authenticate"}
  PROVE  Full(path, k) /\ ~EmbyWord(Heard(path, k))
BY LowerAssumption DEF Heard, Full, EmbyWord, Lower

\* A path that ends in a login is one that is_login_path finds.
LEMMA LoginFound ==
  ASSUME NEW path \in Seq(STRING), NEW k \in 1 .. Len(path), Full(path, Len(path)),
         Full(path, k), ~EmbyWord(Heard(path, k)), LoginSegments(Ending(path, k))
  PROVE  IsLoginPath(path)
<1> DEFINE L == Len(path)
           segs == EmbyPathSegments(path)
<1>2. PICK q \in 1 .. k : segs = Ending(path, q)
  BY SegmentsEnd
<1>3. L \in Nat /\ k \in 1 .. L /\ q \in 1 .. L /\ q <= k
  OBVIOUS
<1> DEFINE j == k - q + 1
<1>4. segs = [i \in 1 .. (L - q + 1) |-> Heard(path, i + q - 1)] /\ Len(segs) = L - q + 1
  BY <1>2, <1>3, EndingWords
<1> HIDE DEF segs
<1>5. j \in DOMAIN segs /\ j \in Nat
  BY <1>3, <1>4
<1>6. Suffix(segs, j) = Ending(path, k)
  <2>1. Suffix(segs, j) = [i \in 1 .. (Len(segs) - j + 1) |-> segs[i + j - 1]]
    BY <1>3, <1>4 DEF Suffix
  <2>2. Ending(path, k) = [i \in 1 .. (L - k + 1) |-> Heard(path, i + k - 1)]
    BY <1>3, EndingWords
  <2>3. Len(segs) - j + 1 = L - k + 1
    BY <1>3, <1>4
  <2>4. ASSUME NEW i \in 1 .. (L - k + 1) PROVE segs[i + j - 1] = Heard(path, i + k - 1)
    <3>1. i + j - 1 \in 1 .. (L - q + 1) /\ (i + j - 1) + q - 1 = i + k - 1
      BY <1>3
    <3> QED  BY <1>4, <3>1
  <2> QED  BY <2>1, <2>2, <2>3, <2>4
<1>7. \E i \in DOMAIN segs : LoginSegments(Suffix(segs, i))
  BY <1>5, <1>6, Zenon
<1> QED  BY <1>7, Zenon DEF IsLoginPath, segs

\* The same of a path as the upstream server matches it.
LEMMA LoginEnds ==
  ASSUME NEW path \in Seq(STRING),
         \/ EndsIn(path, <<"users", "authenticatebyname">>)
         \/ EndsIn(path, <<"users", "*", "authenticate">>)
  PROVE  IsLoginPath(path)
<1> DEFINE L == Len(path)
<1>1. L \in Nat
  OBVIOUS
<1>2. CASE EndsIn(path, <<"users", "authenticatebyname">>)
  <2>1. L >= 2 /\ MatchSegments(Ending(path, L - 1), <<"users", "authenticatebyname">>)
    <3>1. Len(<<"users", "authenticatebyname">>) = 2 /\ L - 2 + 1 = L - 1
      BY <1>1
    <3> QED  BY <1>2, <3>1 DEF EndsIn, Ending, Suffix
  <2>2. L - 1 \in 1 .. L
    BY <1>1, <2>1
  <2>3. Ending(path, L - 1) = [i \in 1 .. (L - (L - 1) + 1) |-> Heard(path, i + (L - 1) - 1)]
    BY <2>2, EndingWords
  <2>4. Ending(path, L - 1)[1] = Heard(path, L - 1) /\ Ending(path, L - 1)[2] = Heard(path, L)
    BY <1>1, <2>3
  <2>5. Ending(path, L - 1)[1] = "users" /\ Ending(path, L - 1)[2] = "authenticatebyname"
    BY <2>1 DEF MatchSegments
  <2>6. Full(path, L - 1) /\ ~EmbyWord(Heard(path, L - 1)) /\ Full(path, L)
    BY <2>4, <2>5, LoginWords
  <2>7. LoginSegments(Ending(path, L - 1))
    BY <2>1 DEF LoginSegments
  <2> QED  BY <2>2, <2>6, <2>7, LoginFound
<1>3. CASE EndsIn(path, <<"users", "*", "authenticate">>)
  <2>1. L >= 3 /\ MatchSegments(Ending(path, L - 2), <<"users", "*", "authenticate">>)
    <3>1. Len(<<"users", "*", "authenticate">>) = 3 /\ L - 3 + 1 = L - 2
      BY <1>1
    <3> QED  BY <1>3, <3>1 DEF EndsIn, Ending, Suffix
  <2>2. L - 2 \in 1 .. L
    BY <1>1, <2>1
  <2>3. Ending(path, L - 2) = [i \in 1 .. (L - (L - 2) + 1) |-> Heard(path, i + (L - 2) - 1)]
    BY <2>2, EndingWords
  <2>4. Ending(path, L - 2)[1] = Heard(path, L - 2) /\ Ending(path, L - 2)[3] = Heard(path, L)
    BY <1>1, <2>3
  <2>5. Ending(path, L - 2)[1] = "users" /\ Ending(path, L - 2)[3] = "authenticate"
    BY <2>1 DEF MatchSegments
  <2>6. Full(path, L - 2) /\ ~EmbyWord(Heard(path, L - 2)) /\ Full(path, L)
    BY <2>4, <2>5, LoginWords
  <2>7. LoginSegments(Ending(path, L - 2))
    BY <2>1 DEF LoginSegments
  <2> QED  BY <2>2, <2>6, <2>7, LoginFound
<1> QED  BY <1>2, <1>3

\* A body that the proxy reads is not asked for encoded.
LEMMA NotEncoded ==
  ASSUME NEW headers, NEW hide, NEW own
  PROVE  "accept-encoding" \notin DOMAIN OutboundHeaders(headers, hide, own, TRUE)
BY DEF OutboundHeaders, Without

\* A login that reaches the upstream is one whose answer the proxy reads,
\* whatever comes before it in the path (is_login_path, proxy_upstream).
THEOREM FrontLoginsRead == Spec => []LoginsRead
<1>1. FrontInv => LoginsRead
  <2> SUFFICES ASSUME FrontInv, Forwarded, GateOn,
                      \/ EndsIn(request.path, <<"users", "authenticatebyname">>)
                      \/ EndsIn(request.path, <<"users", "*", "authenticate">>)
               PROVE  answer.login /\ "accept-encoding" \notin DOMAIN answer.headers
    BY DEF LoginsRead
  <2>1. IsLoginPath(request.path)
    BY LoginEnds DEF FrontInv, Forwarded, IsRequest
  <2>2. answer.login /\ Buffered(request) = TRUE
    BY <2>1, ForwardedHeaders DEF Buffered
  <2>3. answer.headers = OutboundHeaders(request.headers, config.hide_client, Own(request), TRUE)
    BY <2>2, ForwardedHeaders
  <2> QED  BY <2>2, <2>3, NotEncoded
<1> QED  BY <1>1, FrontInvariant, PTL

-----------------------------------------------------------------------------
(* Tokens *)

\* The tokens in a header of their own, in words and in a query.
Gives(w) == w \in DOMAIN TokenWords /\ TokenWords[w] # ""
PartGives(p) == /\ PartKept(p) /\ LowerAll(Pair(p).key) \in TokenQueryKeys
                /\ Pair(p).value \notin {<<>>, <<" ">>}

InHeader(headers, name) ==
  {headers[h][1] : h \in {n \in DOMAIN headers :
                            n = name /\ headers[n][1] \notin {<<"bytes">>, <<"">>, <<" ">>}}}
InWords(headers, name) ==
  {<<TokenWords[w]>> : w \in {v \in DOMAIN TokenWords :
     TokenWords[v] # "" /\ name \in DOMAIN headers /\ v \in ToSet(headers[name][1])}}
InQuery(query) == {Pair(p).value : p \in {q \in ToSet(query) : PartGives(q)}}

\* A token that was looked for among some: it is one of them, and there was
\* none if it is missing.
Finds(token, some) == token \in some \cup {NoToken} /\ (token = NoToken => some \subseteq {NoToken})

LEMMA HeaderFinds ==
  ASSUME NEW headers, NEW name
  PROVE  Finds(HeaderToken(headers, name), InHeader(headers, name))
<1> DEFINE some == InHeader(headers, name)
<1>1. CASE name \in DOMAIN headers /\ headers[name][1] \notin {<<"bytes">>, <<"">>, <<" ">>}
  <2>1. HeaderToken(headers, name) = headers[name][1]
    BY <1>1, Zenon DEF HeaderToken
  <2>2. some = {headers[name][1]}
    BY <1>1, Zenon DEF InHeader
  <2> QED  BY <2>1, <2>2, Zenon DEF Finds
<1>2. CASE ~(name \in DOMAIN headers /\ headers[name][1] \notin {<<"bytes">>, <<"">>, <<" ">>})
  <2>1. HeaderToken(headers, name) = NoToken
    BY <1>2, Zenon DEF HeaderToken
  <2>2. some = {}
    BY <1>2, Zenon DEF InHeader
  <2> QED  BY <2>1, <2>2, Zenon DEF Finds
<1> QED  BY <1>1, <1>2

LEMMA WordsFind ==
  ASSUME NEW headers, NEW name, name \in DOMAIN headers => headers[name][1] \in Seq(STRING)
  PROVE  Finds(AuthorizationToken(headers, name), InWords(headers, name))
<1> DEFINE words == IF name \in DOMAIN headers THEN headers[name][1] ELSE <<>>
           I == {i \in 1 .. Len(words) : Gives(words[i])}
           f == IF I # {} THEN Min(I) ELSE 0
           some == InWords(headers, name)
<1>1. words \in Seq(STRING)
  <2>1. CASE name \in DOMAIN headers
    BY <2>1, Zenon
  <2>2. CASE name \notin DOMAIN headers
    <3>1. words = <<>>
      BY <2>2
    <3>2. <<>> \in Seq(STRING)
      OBVIOUS
    <3> HIDE DEF words
    <3> QED  BY <3>1, <3>2, Zenon
  <2> QED  BY <2>1, <2>2
<1>2. AuthorizationToken(headers, name) = IF f = 0 THEN NoToken ELSE <<TokenWords[words[f]]>>
  BY DEF AuthorizationToken, SelectInSeq, Gives
<1>3. some = {<<TokenWords[w]>> : w \in {v \in DOMAIN TokenWords :
                                           TokenWords[v] # "" /\ v \in ToSet(words)}}
  <2>1. CASE name \in DOMAIN headers
    BY <2>1, Zenon DEF InWords
  <2>2. CASE name \notin DOMAIN headers
    <3>1. ToSet(words) = {}
      BY <2>2 DEF ToSet
    <3> HIDE DEF words
    <3> QED  BY <2>2, <3>1, Zenon DEF InWords
  <2> QED  BY <2>1, <2>2
<1> HIDE DEF some, words
<1>4. Len(words) \in Nat /\ DOMAIN words = 1 .. Len(words)
  BY <1>1
<1>5. some = {<<TokenWords[words[i]]>> : i \in I}
  BY <1>3, <1>4, Zenon DEF ToSet, Gives
<1>6. I \in SUBSET (1 .. Len(words))
  OBVIOUS
<1> HIDE DEF I
<1>7. IF I = {} THEN f = 0 ELSE f \in I /\ f # 0
  BY <1>4, <1>6, FirstIndex
<1> HIDE DEF f
<1>8. CASE I = {}
  BY <1>2, <1>5, <1>7, <1>8 DEF Finds, some
<1>9. CASE I # {}
  <2>1. AuthorizationToken(headers, name) = <<TokenWords[words[f]]>> /\ f \in I
    BY <1>2, <1>7, <1>9
  <2>2. AuthorizationToken(headers, name) \in some
    BY <1>5, <2>1
  <2>3. AuthorizationToken(headers, name) # NoToken
    BY <2>1 DEF NoToken
  <2> QED  BY <2>2, <2>3 DEF Finds, some
<1> QED  BY <1>8, <1>9

LEMMA QueryFinds ==
  ASSUME NEW S, NEW query \in Seq(S)
  PROVE  Finds(QueryToken(query), InQuery(query))
<1> DEFINE I == {i \in 1 .. Len(query) : PartGives(query[i])}
           f == IF I # {} THEN Min(I) ELSE 0
           some == InQuery(query)
<1>1. QueryToken(query) = IF f = 0 THEN NoToken ELSE Pair(query[f]).value
  BY DEF QueryToken, SelectInSeq, PartGives
<1>2. Len(query) \in Nat /\ DOMAIN query = 1 .. Len(query)
  OBVIOUS
<1>3. some = {Pair(query[i]).value : i \in I}
  BY <1>2, Zenon DEF InQuery, ToSet
<1> HIDE DEF some
<1>4. \A i \in I : Pair(query[i]).value # NoToken
  BY DEF PartGives, NoToken
<1>5. I \in SUBSET (1 .. Len(query))
  OBVIOUS
<1> HIDE DEF I
<1>6. IF I = {} THEN f = 0 ELSE f \in I /\ f # 0
  BY <1>2, <1>5, FirstIndex
<1> HIDE DEF f
<1>7. CASE I = {}
  BY <1>1, <1>3, <1>6, <1>7 DEF Finds, some
<1>8. CASE I # {}
  <2>1. QueryToken(query) = Pair(query[f]).value /\ f \in I
    BY <1>1, <1>6, <1>8
  <2>2. QueryToken(query) \in some /\ QueryToken(query) # NoToken
    BY <1>3, <1>4, <2>1
  <2> QED  BY <2>2 DEF Finds, some
<1> QED  BY <1>7, <1>8

\* The first of five places that has one.
FirstOf(a, b, c, d, e) ==
  LET places == <<a, b, c, d, e>>
      i == SelectInSeq(places, LAMBDA t : t # NoToken)
  IN  IF i = 0 THEN NoToken ELSE places[i]

LEMMA PlacesFind ==
  ASSUME NEW a, NEW b, NEW c, NEW d, NEW e, NEW found, found = FirstOf(a, b, c, d, e)
  PROVE  /\ found \in {a, b, c, d, e, NoToken}
         /\ found = NoToken => \A t \in {a, b, c, d, e} : t = NoToken
<1> DEFINE places == <<a, b, c, d, e>>
           I == {i \in 1 .. Len(places) : places[i] # NoToken}
           f == IF I # {} THEN Min(I) ELSE 0
<1>1. found = IF f = 0 THEN NoToken ELSE places[f]
  BY DEF FirstOf, SelectInSeq
<1>2. Len(places) = 5 /\ I \in SUBSET (1 .. 5)
  OBVIOUS
<1>3. IF I = {} THEN f = 0 ELSE f \in I /\ f # 0
  <2> HIDE DEF I
  <2> QED  BY <1>2, FirstIndex
<1> HIDE DEF f
<1>4. CASE I = {}
  <2>1. \A i \in 1 .. 5 : places[i] = NoToken
    BY <1>2, <1>4
  <2>2. a = NoToken /\ b = NoToken /\ c = NoToken /\ d = NoToken /\ e = NoToken
    BY <2>1
  <2> QED  BY <1>1, <1>3, <1>4, <2>2
<1>5. CASE I # {}
  <2>1. f \in 1 .. 5 /\ found = places[f] /\ places[f] # NoToken
    BY <1>1, <1>2, <1>3, <1>5
  <2>2. found \in {a, b, c, d, e}
    BY <2>1
  <2> QED  BY <2>1, <2>2
<1> QED  BY <1>4, <1>5

\* A request's token is one it carries, and missing only if it carries none.
LEMMA TokenCarried ==
  ASSUME NEW r, IsRequest(r)
  PROVE  Finds(RequestToken(r.headers, r.query), Carried(r))
<1> DEFINE H == r.headers
           one == InHeader(H, "x-emby-token")
           two == InHeader(H, "x-mediabrowser-token")
           three == InWords(H, "x-emby-authorization")
           four == InWords(H, "authorization")
           five == InQuery(r.query)
           found == RequestToken(H, r.query)
<1>1. Carried(r) = one \cup two \cup three \cup four \cup five
  BY Zenon DEF Carried, InHeader, InWords, InQuery, PartGives
<1>2. \A h \in DOMAIN H : H[h][1] \in Seq(STRING)
  <2> SUFFICES ASSUME NEW h \in DOMAIN H PROVE H[h][1] \in Seq(STRING)
    OBVIOUS
  <2> DEFINE all == H[h]
  <2>1. all \in Seq(Seq(STRING)) /\ all # <<>>
    BY DEF IsRequest
  <2> HIDE DEF all
  <2>2. all[1] \in Seq(STRING)
    BY <2>1
  <2> QED  BY <2>2 DEF all
<1> DEFINE a == HeaderToken(H, "x-emby-token")
           b == HeaderToken(H, "x-mediabrowser-token")
           c == AuthorizationToken(H, "x-emby-authorization")
           d == AuthorizationToken(H, "authorization")
           e == QueryToken(r.query)
<1>3. Finds(a, one) /\ Finds(b, two)
  BY HeaderFinds
<1>4. Finds(c, three) /\ Finds(d, four)
  BY <1>2, WordsFind
<1>5. Finds(e, five)
  BY QueryFinds DEF IsRequest
<1>6. found = FirstOf(a, b, c, d, e)
  BY DEF RequestToken, FirstOf, SelectInSeq
<1> HIDE DEF a, b, c, d, e, found
<1>7. /\ found \in {a, b, c, d, e, NoToken}
      /\ found = NoToken => \A t \in {a, b, c, d, e} : t = NoToken
  BY <1>6, PlacesFind
<1> HIDE DEF one, two, three, four, five, found
<1>8. found \in Carried(r) \cup {NoToken}
  BY <1>1, <1>3, <1>4, <1>5, <1>7 DEF Finds
<1>9. found = NoToken => Carried(r) \subseteq {NoToken}
  BY <1>1, <1>3, <1>4, <1>5, <1>7 DEF Finds
<1> QED  BY <1>8, <1>9 DEF Finds, found

\* Nothing but the public paths is forwarded without the session's token, and a
\* request that carries this one only is not turned away (handle_with_auth,
\* request_token).
THEOREM FrontTokensFound == Spec => []TokensFound
<1>1. FrontInv => TokensFound
  <2> SUFFICES ASSUME FrontInv, answer # Idle, GateOn
               PROVE  /\ answer.status = "401" => Carried(request) # {ValidToken}
                      /\ answer.status = "forwarded" /\ ~Public(request)
                           => ValidToken \in Carried(request)
    BY DEF TokensFound, Forwarded, Public
  <2> DEFINE found == RequestToken(request.headers, request.query)
             carried == Carried(request)
  <2>1. Finds(found, carried)
    BY TokenCarried DEF FrontInv
  <2>2. /\ answer.status = "401" => found # ValidToken
        /\ answer.status = "forwarded" /\ ~Public(request) => found = ValidToken
    BY DEF FrontInv, HasToken
  <2> HIDE DEF found, carried
  <2> QED  BY <2>1, <2>2, TokenAssumption DEF Finds, carried
<1> QED  BY <1>1, FrontInvariant, PTL

-----------------------------------------------------------------------------
(* The configuration *)

\* What a layer says of an option: debug speaks for log_level where that is not
\* given.
Says(layer, o) == o \in DOMAIN layer \/ (o = "log_level" /\ "debug" \in DOMAIN layer)
Told(layer, o) ==
  IF o \in DOMAIN layer THEN Applied(o, layer[o])
  ELSE IF layer.debug THEN "debug" ELSE Defaults.log_level

\* The options of the file, none when no file is read.
FileLayer ==
  IF ConfigPath # "" /\ ConfigPath \in DOMAIN sources.files THEN FileRaw(ConfigPath) ELSE <<>>

\* Once all layers are read, every option is what the flags say of it, or else
\* the environment, or else the file, or else the default (from_sources,
\* apply_raw, apply_env).
StrongestSays ==
  step \in {"check", "serving"} =>
    \A o \in DOMAIN Defaults :
      values[o] = IF Says(raw, o) THEN Told(raw, o)
                  ELSE IF Says(EnvRaw(sources.env), o) THEN Told(EnvRaw(sources.env), o)
                  ELSE IF Says(FileLayer, o) THEN Told(FileLayer, o)
                  ELSE Defaults[o]

\* No two routes that are served have one public host name, so that the route
\* of a request does not depend on the order of the routes (parse_routes).
RoutesApart ==
  step = "serving" =>
    \A i, j \in DOMAIN config.routes :
      config.routes[i].host = config.routes[j].host => i = j

\* The layers read so far lie on each other in the order of the steps, and what
\* is served has been checked.
OfFile == ApplyRaw(Defaults, FileLayer)
OfEnv == ApplyRaw(OfFile, EnvRaw(sources.env))
OfFlags == ApplyRaw(OfEnv, raw)

LayerInv ==
  /\ step \in {"flags", "file"} => values = Defaults
  /\ step = "env" => values = OfFile
  /\ step = "cli" => values = OfEnv
  /\ step \in {"check", "serving"} => values = OfFlags
  /\ step = "serving" => config = MakeConfig(values) /\ ConfigValid(values)

LEMMA LaidOver ==
  ASSUME NEW old, NEW layer, NEW o \in DOMAIN Defaults
  PROVE  ApplyRaw(old, layer)[o] = IF Says(layer, o) THEN Told(layer, o) ELSE old[o]
<1> DEFINE D == DOMAIN Defaults
<1> HIDE DEF D
<1>1. o \in D
  BY DEF D
<1>2. ApplyRaw(old, layer) =
        [p \in D |->
           CASE p \in DOMAIN layer -> Applied(p, layer[p])
             [] p = "log_level" /\ p \notin DOMAIN layer /\ "debug" \in DOMAIN layer ->
                  IF layer.debug THEN "debug" ELSE Defaults.log_level
             [] OTHER -> old[p]]
  BY Zenon DEF ApplyRaw, D
<1> QED  BY <1>1, <1>2 DEF Says, Told

\* Without a file the defaults stay.
LEMMA NoFile == ApplyRaw(Defaults, <<>>) = Defaults
<1> DEFINE D == DOMAIN Defaults
<1>1. Defaults = [p \in D |-> Defaults[p]]
  BY DEF Defaults
<1>2. DOMAIN <<>> = {}
  OBVIOUS
<1>3. ApplyRaw(Defaults, <<>>) = [p \in D |-> Defaults[p]]
  BY <1>2 DEF ApplyRaw
<1> HIDE DEF D
<1> QED  BY <1>1, <1>3, Zenon

\* The layers of a later step are those of an earlier one.
LEMMA LayersStay ==
  ASSUME UNCHANGED <<sources, flags>>
  PROVE  OfFile' = OfFile /\ OfEnv' = OfEnv /\ (UNCHANGED raw => OfFlags' = OfFlags)
<1>1. FileLayer' = FileLayer
  BY DEF FileLayer, ConfigPath, FileRaw
<1>2. OfFile' = OfFile
  BY <1>1 DEF OfFile
<1>3. OfEnv' = OfEnv
  BY <1>2 DEF OfEnv
<1>4. UNCHANGED raw => OfFlags' = OfFlags
  BY <1>3 DEF OfFlags
<1> QED  BY <1>2, <1>3, <1>4

\* The layers are laid over each other in this order (from_sources).
THEOREM FrontLayers == Spec => []LayerInv
<1>1. Init => LayerInv
  BY DEF Init, ConfigInit, LayerInv
<1>2. LayerInv /\ [Next]_frontendVars => LayerInv'
  <2> SUFFICES ASSUME LayerInv, [Next]_frontendVars PROVE LayerInv'
    OBVIOUS
  <2>1. CASE Fail
    BY <2>1 DEF Fail, LayerInv
  <2>2. CASE UNCHANGED configVars
    <3>1. /\ UNCHANGED <<sources, flags>> /\ UNCHANGED raw /\ UNCHANGED step
          /\ UNCHANGED values /\ UNCHANGED config
      BY <2>2 DEF configVars
    <3>2. OfFile' = OfFile /\ OfEnv' = OfEnv /\ OfFlags' = OfFlags
      BY <3>1, LayersStay
    <3>3. MakeConfig(values)' = MakeConfig(values) /\ ConfigValid(values)' = ConfigValid(values)
      BY <3>1
    <3> QED  BY <3>1, <3>2, <3>3 DEF LayerInv
  <2>3. CASE ParseFlag /\ ~Fail
    <3>1. step = "flags" /\ step' = step /\ values' = values
      BY <2>3 DEF ParseFlag, MoreFlags
    <3> QED  BY <3>1 DEF LayerInv
  <2>4. CASE EndFlags /\ ~Fail
    <3>1. step = "flags" /\ step' \in {"help", "version", "file"} /\ values' = values
      BY <2>4 DEF EndFlags
    <3> QED  BY <3>1 DEF LayerInv
  <2>5. CASE LoadFile /\ ~Fail
    <3>1. step = "file" /\ step' = "env" /\ UNCHANGED <<sources, flags>>
      BY <2>5 DEF LoadFile
    <3>2. values = Defaults /\ OfFile' = OfFile
      BY <3>1, LayersStay DEF LayerInv
    <3>3. values' = OfFile
      <4>1. CASE ConfigPath # "" /\ ConfigPath \in DOMAIN sources.files
        <5>1. values' = ApplyRaw(values, FileRaw(ConfigPath))
          BY <2>5, <4>1 DEF LoadFile
        <5>2. FileLayer = FileRaw(ConfigPath)
          BY <4>1 DEF FileLayer
        <5> QED  BY <3>2, <5>1, <5>2 DEF OfFile
      <4>2. CASE ~(ConfigPath # "" /\ ConfigPath \in DOMAIN sources.files)
        <5>1. values' = values
          BY <2>5, <4>2 DEF LoadFile
        <5>2. FileLayer = <<>>
          BY <4>2 DEF FileLayer
        <5> QED  BY <3>2, <5>1, <5>2, NoFile DEF OfFile
      <4> QED  BY <4>1, <4>2
    <3> QED  BY <3>1, <3>2, <3>3 DEF LayerInv
  <2>6. CASE ApplyEnv /\ ~Fail
    <3>1. /\ step = "env" /\ step' = "cli" /\ UNCHANGED <<sources, flags>>
          /\ values' = ApplyRaw(values, EnvRaw(sources.env))
      BY <2>6 DEF ApplyEnv
    <3>2. values = OfFile /\ OfEnv' = OfEnv
      BY <3>1, LayersStay DEF LayerInv
    <3>3. values' = OfEnv
      BY <3>1, <3>2 DEF OfEnv
    <3> QED  BY <3>1, <3>2, <3>3 DEF LayerInv
  <2>7. CASE ApplyCli
    <3>1. /\ step = "cli" /\ step' = "check" /\ UNCHANGED <<sources, flags>> /\ UNCHANGED raw
          /\ values' = ApplyRaw(values, raw)
      BY <2>7 DEF ApplyCli
    <3>2. values = OfEnv /\ OfFlags' = OfFlags
      BY <3>1, LayersStay DEF LayerInv
    <3>3. values' = OfFlags
      BY <3>1, <3>2 DEF OfFlags
    <3> QED  BY <3>1, <3>2, <3>3 DEF LayerInv
  <2>8. CASE Check /\ ~Fail
    <3>1. /\ step = "check" /\ step' = "serving" /\ UNCHANGED <<sources, flags>>
          /\ UNCHANGED raw /\ UNCHANGED values
          /\ ConfigValid(values) /\ config' = MakeConfig(values)
      BY <2>8 DEF Check
    <3>2. values = OfFlags /\ OfFlags' = OfFlags
      BY <3>1, LayersStay DEF LayerInv
    <3>3. MakeConfig(values)' = MakeConfig(values) /\ ConfigValid(values)' = ConfigValid(values)
      BY <3>1
    <3> QED  BY <3>1, <3>2, <3>3 DEF LayerInv
  <2>9. CASE LoadStep
    BY <2>1, <2>3, <2>4, <2>5, <2>6, <2>7, <2>8, <2>9 DEF LoadStep, Load
  <2>10. CASE Handle \/ Answered \/ Exited \/ UNCHANGED frontendVars
    <3>1. UNCHANGED configVars
      BY <2>10 DEF Handle, Answered, Exited, frontendVars
    <3> QED  BY <2>2, <3>1
  <2> QED  BY <2>9, <2>10 DEF Next
<1> QED  BY <1>1, <1>2, PTL DEF Spec

\* Every option is as the strongest layer that speaks of it says (from_sources,
\* apply_raw, apply_env).
THEOREM FrontStrongestSays == Spec => []StrongestSays
<1>1. LayerInv => StrongestSays
  <2> SUFFICES ASSUME LayerInv, step \in {"check", "serving"}, NEW o \in DOMAIN Defaults
               PROVE  values[o] =
                        IF Says(raw, o) THEN Told(raw, o)
                        ELSE IF Says(EnvRaw(sources.env), o) THEN Told(EnvRaw(sources.env), o)
                        ELSE IF Says(FileLayer, o) THEN Told(FileLayer, o)
                        ELSE Defaults[o]
    BY DEF StrongestSays
  <2>1. values = OfFlags
    BY DEF LayerInv
  <2>2. OfFlags[o] = IF Says(raw, o) THEN Told(raw, o) ELSE OfEnv[o]
    BY LaidOver DEF OfFlags
  <2>3. OfEnv[o] = IF Says(EnvRaw(sources.env), o) THEN Told(EnvRaw(sources.env), o)
                   ELSE OfFile[o]
    BY LaidOver DEF OfEnv
  <2>4. OfFile[o] = IF Says(FileLayer, o) THEN Told(FileLayer, o) ELSE Defaults[o]
    BY LaidOver DEF OfFile
  <2> QED  BY <2>1, <2>2, <2>3, <2>4, Zenon
<1> QED  BY <1>1, FrontLayers, PTL

\* The routes that are served have different hosts (parse_routes).
THEOREM FrontRoutesApart == Spec => []RoutesApart
<1>1. LayerInv => RoutesApart
  <2> SUFFICES ASSUME LayerInv, step = "serving",
                      NEW i \in DOMAIN config.routes, NEW j \in DOMAIN config.routes,
                      config.routes[i].host = config.routes[j].host
               PROVE  i = j
    BY DEF RoutesApart
  <2>1. config = MakeConfig(values) /\ RoutesValid(values.routes)
    BY DEF LayerInv, ConfigValid
  <2>2. "routes" \in DOMAIN values
    <3>1. values = OfFlags
      BY DEF LayerInv
    <3>2. DOMAIN OfFlags = DOMAIN Defaults
      BY Zenon DEF OfFlags, ApplyRaw
    <3>3. "routes" \in DOMAIN Defaults
      BY DEF Defaults
    <3> QED  BY <3>1, <3>2, <3>3
  <2>3. config.routes = [k \in DOMAIN values.routes |-> ParseRoute(values.routes[k])]
    BY <2>1, <2>2 DEF MakeConfig, Put
  <2> DEFINE written == values.routes
  <2>4. ASSUME NEW r PROVE ParseRoute(r).host = PublicHost(r)
    BY DEF ParseRoute
  <2>5. i \in DOMAIN written /\ j \in DOMAIN written
    BY <2>3
  <2>6. config.routes[i] = ParseRoute(written[i]) /\ config.routes[j] = ParseRoute(written[j])
    BY <2>3, <2>5
  <2>7. PublicHost(written[i]) = PublicHost(written[j])
    BY <2>4, <2>6
  <2>8. \A k, l \in DOMAIN written : k # l => PublicHost(written[k]) # PublicHost(written[l])
    BY <2>1, Zenon DEF RoutesValid
  <2> HIDE DEF written
  <2> QED  BY <2>5, <2>7, <2>8, Zenon
<1> QED  BY <1>1, FrontLayers, PTL

-----------------------------------------------------------------------------
(* The client filter *)

\* A client is turned away by the filter alone.
ClientInv ==
  answer # Idle /\ answer.route # 0 =>
    (answer.status = "403" <=>
       /\ config.allowed_clients # <<>>
       /\ ~IsAllowed(config.allowed_clients,
                     ClientAddr(request.headers, Remote(request), config.trust_proxy_headers)))

\* The address of a header, if it has one.
LEMMA AddressOf ==
  ASSUME NEW headers, NEW h
  PROVE  HeaderAddr(headers, h) =
           IF h \in DOMAIN headers /\ headers[h][1] # <<>> /\ headers[h][1][1] \in DOMAIN Addresses
             THEN Unmap(Addresses[headers[h][1][1]]) ELSE NoAddress
<1> DEFINE text == headers[h][1]
<1>1. text = Unreadable => text[1] \notin DOMAIN Addresses
  BY AddressAssumption
<1>2. HeaderStr(headers, h) = IF h \in DOMAIN headers /\ text # Unreadable THEN text ELSE <<>>
  BY DEF HeaderStr
<1>3. HeaderAddr(headers, h) = IF HeaderStr(headers, h) = <<>> THEN NoAddress
                               ELSE ParseClientAddr(HeaderStr(headers, h)[1])
  BY DEF HeaderAddr
<1>4. ParseClientAddr(text[1]) = IF text[1] \in DOMAIN Addresses THEN Unmap(Addresses[text[1]])
                                 ELSE NoAddress
  BY DEF ParseClientAddr
<1> HIDE DEF text
<1> QED  BY <1>1, <1>2, <1>3, <1>4, Zenon DEF text

\* client_addr finds the address a request is judged by.
LEMMA JudgedAddr ==
  ASSUME NEW r, IsRequest(r)
  PROVE  /\ ClientAddr(r.headers, Remote(r), values.trust_proxy_headers) = Judged(r)
         /\ IsAddress(Judged(r)) /\ Unmap(Judged(r)) = Judged(r)
<1> DEFINE Text(h) == r.headers[h][1]
           Claiming(h) == h \in DOMAIN r.headers /\ Text(h) # <<>> /\ Text(h)[1] \in DOMAIN Addresses
           Claimed(h) == Unmap(Addresses[Text(h)[1]])
           F == "x-forwarded-for"
           X == "x-real-ip"
           one == Len(Text(X)) = 1
           trust == values.trust_proxy_headers
           remote == Unmap(Addresses[r.remote])
<1>1. ASSUME NEW t \in DOMAIN Addresses
      PROVE  /\ IsAddress(Unmap(Addresses[t])) /\ Unmap(Addresses[t]) # NoAddress
             /\ Unmap(Unmap(Addresses[t])) = Unmap(Addresses[t])
  <2>1. IsAddress(Addresses[t])
    BY AddressAssumption
  <2>2. /\ IsAddress(Unmap(Addresses[t]))
        /\ Unmap(Unmap(Addresses[t])) = Unmap(Addresses[t])
    BY <2>1, Unmapped
  <2>3. Unmap(Addresses[t]) # NoAddress
    BY <2>2 DEF IsAddress, NoAddress
  <2> QED  BY <2>2, <2>3
<1>2. r.remote \in DOMAIN Addresses /\ Remote(r) = remote
  BY DEF IsRequest, Remote
<1>3. \A h : HeaderAddr(r.headers, h) = IF Claiming(h) THEN Claimed(h) ELSE NoAddress
  BY AddressOf
<1>4. RealIp(r.headers) = IF Claiming(X) /\ one THEN Claimed(X) ELSE NoAddress
  <2>1. CASE X \in DOMAIN r.headers /\ Text(X) # Unreadable
    <3>1. HeaderStr(r.headers, X) = Text(X)
      BY <2>1 DEF HeaderStr
    <3> HIDE DEF Text, Claiming, Claimed
    <3> QED  BY <1>3, <3>1, Zenon DEF RealIp, one, X
  <2>2. CASE ~(X \in DOMAIN r.headers /\ Text(X) # Unreadable)
    <3>1. HeaderStr(r.headers, X) = <<>>
      BY <2>2 DEF HeaderStr
    <3>2. Len(HeaderStr(r.headers, X)) # 1
      BY <3>1
    <3>3. ~Claiming(X)
      BY <2>2, AddressAssumption
    <3> HIDE DEF Text, Claiming, Claimed
    <3> QED  BY <3>2, <3>3, Zenon DEF RealIp
  <2> QED  BY <2>1, <2>2
<1>5. Claims(r) = {h \in {F, X} : Claiming(h) /\ (h = X => one)}
  BY DEF Claims
<1>6. \A h : Claiming(h) => Claimed(h) # NoAddress /\ Text(h)[1] \in DOMAIN Addresses
  BY <1>1
<1>7. Judged(r) = IF ~trust \/ Claims(r) = {} THEN remote
                  ELSE Claimed(CHOOSE h \in Claims(r) : h = X => Claims(r) = {h})
  BY Zenon DEF Judged
<1> HIDE DEF Text, Claiming, Claimed, one, remote, trust
<1>8. /\ ClientAddr(r.headers, Remote(r), trust) =
           IF trust /\ Claiming(F) THEN Claimed(F)
           ELSE IF trust /\ Claiming(X) /\ one THEN Claimed(X) ELSE remote
  <2>1. CASE trust /\ Claiming(F)
    BY <1>2, <1>3, <1>6, <2>1 DEF ClientAddr
  <2>2. CASE trust /\ ~Claiming(F)
    BY <1>2, <1>3, <1>4, <1>6, <2>2 DEF ClientAddr
  <2>3. CASE ~trust
    BY <1>2, <2>3 DEF ClientAddr
  <2> QED  BY <2>1, <2>2, <2>3
<1>9. Judged(r) = IF trust /\ Claiming(F) THEN Claimed(F)
                  ELSE IF trust /\ Claiming(X) /\ one THEN Claimed(X) ELSE remote
  <2>0. F # X
    OBVIOUS
  <2> DEFINE by == CHOOSE h \in Claims(r) : h = X => Claims(r) = {h}
  <2>1. CASE trust /\ Claiming(F)
    <3>1. F \in Claims(r) /\ Claims(r) # {}
      BY <1>5, <2>0, <2>1
    <3>2. by \in Claims(r) /\ (by = X => Claims(r) = {by})
      BY <2>0, <3>1, Zenon
    <3> HIDE DEF by
    <3>3. by = F
      BY <1>5, <2>0, <3>1, <3>2, Zenon
    <3> QED  BY <1>7, <2>1, <3>1, <3>3 DEF by
  <2>2. CASE trust /\ ~Claiming(F) /\ Claiming(X) /\ one
    <3>1. Claims(r) = {X}
      BY <1>5, <2>2
    <3>2. by \in Claims(r)
      BY <3>1, Zenon
    <3> HIDE DEF by
    <3>3. by = X /\ Claims(r) # {}
      BY <3>1, <3>2
    <3> QED  BY <1>7, <2>2, <3>3 DEF by
  <2>3. CASE trust /\ ~Claiming(F) /\ ~(Claiming(X) /\ one)
    <3>1. Claims(r) = {}
      BY <1>5, <2>3
    <3> QED  BY <1>7, <2>3, <3>1
  <2>4. CASE ~trust
    BY <1>7, <2>4
  <2> QED  BY <2>1, <2>2, <2>3, <2>4
<1>10. \E t \in DOMAIN Addresses : Judged(r) = Unmap(Addresses[t])
  BY <1>2, <1>6, <1>9 DEF Claimed, remote
<1>11. IsAddress(Judged(r)) /\ Unmap(Judged(r)) = Judged(r)
  BY <1>1, <1>10
<1> QED  BY <1>8, <1>9, <1>11 DEF trust

\* The filter judges before everything else does.
LEMMA Filtered ==
  ASSUME NEW r, NEW a,
         a = IF RouteOf(r) = 0 THEN Refuse(0, "404", r) ELSE HandleChecked(RouteOf(r), r),
         a.route # 0
  PROVE  a.status = "403" <=>
           /\ config.allowed_clients # <<>>
           /\ ~IsAllowed(config.allowed_clients,
                         ClientAddr(r.headers, Remote(r), config.trust_proxy_headers))
<1>1. ASSUME NEW i, NEW status
      PROVE  Refuse(i, status, r).status = status /\ Refuse(i, status, r).route = i
  BY DEF Refuse
<1>2. a # Refuse(0, "404", r)
  BY <1>1
<1> DEFINE i == RouteOf(r)
<1>3. a = HandleChecked(i, r)
  BY <1>2
<1> HIDE DEF i
<1>4. RouteRequest(i, r).status # "403"
  <2>1. \/ \E s \in {"resource", "nobody", "401"} : RouteRequest(i, r) = Refuse(i, s, r)
        \/ RouteRequest(i, r) = ProxyUpstream(i, r)
    BY DEF RouteRequest
  <2>2. ProxyUpstream(i, r).status = "forwarded"
    BY DEF ProxyUpstream, Refuse
  <2> QED  BY <1>1, <2>1, <2>2
<1> QED  BY <1>1, <1>3, <1>4 DEF HandleChecked

\* The invariant holds (filter_client).
LEMMA ClientInvariant == Spec => []ClientInv
<1>1. Init => ClientInv
  BY DEF Init, ClientInv
<1>2. FrontInv /\ ClientInv /\ [Next]_frontendVars => ClientInv'
  <2> SUFFICES ASSUME FrontInv, ClientInv, [Next]_frontendVars PROVE ClientInv'
    OBVIOUS
  <2>1. CASE LoadStep
    <3>1. step # "serving"
      BY <2>1 DEF LoadStep, Load, ParseFlag, MoreFlags, EndFlags, LoadFile, ApplyEnv, ApplyCli, Check
    <3>2. answer' = Idle'
      BY <2>1, <3>1 DEF LoadStep, Idle, FrontInv
    <3> QED  BY <3>2 DEF ClientInv
  <2>2. CASE Handle
    <3>1. PICK r : /\ request' = r
                   /\ answer' = IF RouteOf(r) = 0 THEN Refuse(0, "404", r)
                                ELSE HandleChecked(RouteOf(r), r)
      BY <2>2 DEF Handle
    <3>2. config' = config
      BY <2>2 DEF Handle, configVars
    <3>3. answer'.route # 0 =>
            (answer'.status = "403" <=>
               /\ config.allowed_clients # <<>>
               /\ ~IsAllowed(config.allowed_clients,
                             ClientAddr(r.headers, Remote(r), config.trust_proxy_headers)))
      BY <3>1, Filtered
    <3> QED  BY <3>1, <3>2, <3>3 DEF ClientInv, Remote
  <2>3. CASE Answered
    BY <2>3 DEF Answered, ClientInv, Idle
  <2>4. CASE Exited \/ UNCHANGED frontendVars
    <3>1. UNCHANGED <<config, request, answer>>
      BY <2>4 DEF Exited, frontendVars, configVars
    <3> QED  BY <3>1 DEF ClientInv, Idle, Remote
  <2> QED  BY <2>1, <2>2, <2>3, <2>4 DEF Next
<1> QED  BY <1>1, <1>2, FrontInvariant, PTL DEF Spec

\* A client is turned away exactly when networks are listed and none of them,
\* as written, has its address: for every configuration, every request and
\* addresses of any width (filter_client, client_addr, IpPrefix, mask).
THEOREM FrontClientsExact == Spec => []ClientsExact
<1>1. FrontInv /\ LayerInv /\ ClientInv => ClientsExact
  <2> SUFFICES ASSUME FrontInv, LayerInv, ClientInv, answer # Idle, answer.route # 0
               PROVE  answer.status = "403" <=>
                        /\ DOMAIN values.allowed_clients # {}
                        /\ \A i \in DOMAIN values.allowed_clients :
                             ~Has(Networks[values.allowed_clients[i]], Judged(request))
    BY DEF ClientsExact
  <2> DEFINE listed == values.allowed_clients
             prefixes == config.allowed_clients
             c == Judged(request)
  <2>1. step = "serving" /\ IsRequest(request)
    BY DEF FrontInv
  <2>2. config = MakeConfig(values) /\ ConfigValid(values)
    BY <2>1 DEF LayerInv
  <2>3. "allowed_clients" \in DOMAIN values /\ "trust_proxy_headers" \in DOMAIN values
    <3>1. values = OfFlags
      BY <2>1 DEF LayerInv
    <3>2. DOMAIN OfFlags = DOMAIN Defaults
      BY Zenon DEF OfFlags, ApplyRaw
    <3>3. "allowed_clients" \in DOMAIN Defaults /\ "trust_proxy_headers" \in DOMAIN Defaults
      BY DEF Defaults
    <3> QED  BY <3>1, <3>2, <3>3
  <2>4. prefixes = [i \in DOMAIN listed |-> ParsePrefix(Networks[listed[i]])]
    BY <2>2, <2>3 DEF MakeConfig, Put
  <2>5. config.trust_proxy_headers = values.trust_proxy_headers
    BY <2>2, <2>3 DEF MakeConfig, Put
  <2>6. /\ ClientAddr(request.headers, Remote(request), config.trust_proxy_headers) = c
        /\ IsAddress(c) /\ Unmap(c) = c
    BY <2>1, <2>5, JudgedAddr
  <2>7. \A i \in DOMAIN listed : listed[i] \in DOMAIN Networks /\ PrefixValid(Networks[listed[i]])
    BY <2>2, Zenon DEF ConfigValid
  <2>8. answer.status = "403" <=>
          /\ prefixes # <<>>
          /\ \A i \in DOMAIN prefixes : ~PrefixContains(prefixes[i], c)
    BY <2>6, Zenon DEF ClientInv, IsAllowed
  <2> HIDE DEF listed, prefixes, c
  <2>9. ASSUME NEW i \in DOMAIN listed
        PROVE  PrefixContains(prefixes[i], c) <=> Has(Networks[listed[i]], c)
    <3> DEFINE p == Networks[listed[i]]
    <3>1. /\ p.addr = NoAddress \/ IsAddress(p.addr)
          /\ p.length \in Nat \cup {NoLength}
          /\ PrefixValid(p)
      BY <2>7, NetworkAssumption
    <3>2. prefixes[i] = ParsePrefix(p)
      BY <2>4
    <3> HIDE DEF p
    <3>3. PrefixContains(ParsePrefix(p), c) <=> Has(p, Unmap(c))
      BY <2>6, <3>1, PrefixExact
    <3> QED  BY <2>6, <3>2, <3>3 DEF p
  <2>10. DOMAIN prefixes = DOMAIN listed /\ (prefixes = <<>> <=> DOMAIN listed = {})
    BY <2>4
  <2> QED  BY <2>8, <2>9, <2>10, Zenon DEF listed, c
<1> QED  BY <1>1, FrontInvariant, FrontLayers, ClientInvariant, PTL

-----------------------------------------------------------------------------
(* What is logged *)

LogInv == answer # Idle => answer.logged = SanitizeRawQuery(request.query)

\* Every answer logs its request's query.
LEMMA AnswerLogs ==
  ASSUME NEW r, NEW a,
         a = IF RouteOf(r) = 0 THEN Refuse(0, "404", r) ELSE HandleChecked(RouteOf(r), r)
  PROVE  a.logged = SanitizeRawQuery(r.query)
<1>1. ASSUME NEW i, NEW status PROVE Refuse(i, status, r).logged = SanitizeRawQuery(r.query)
  BY DEF Refuse
<1>2. ASSUME NEW i PROVE ProxyUpstream(i, r).logged = SanitizeRawQuery(r.query)
  BY DEF ProxyUpstream, Refuse
<1>3. ASSUME NEW i
      PROVE  \/ HandleChecked(i, r) = ProxyUpstream(i, r)
             \/ \E status : HandleChecked(i, r) = Refuse(i, status, r)
  BY DEF HandleChecked, RouteRequest
<1>4. \/ \E i : a = ProxyUpstream(i, r)
      \/ \E i, status : a = Refuse(i, status, r)
  BY <1>3, Zenon
<1> QED  BY <1>1, <1>2, <1>4, Zenon

\* The invariant holds (sanitize_request_uri).
LEMMA LogInvariant == Spec => []LogInv
<1>1. Init => LogInv
  BY DEF Init, LogInv
<1>2. FrontInv /\ LogInv /\ [Next]_frontendVars => LogInv'
  <2> SUFFICES ASSUME FrontInv, LogInv, [Next]_frontendVars PROVE LogInv'
    OBVIOUS
  <2>1. CASE LoadStep
    <3>1. step # "serving"
      BY <2>1 DEF LoadStep, Load, ParseFlag, MoreFlags, EndFlags, LoadFile, ApplyEnv, ApplyCli, Check
    <3>2. answer' = Idle'
      BY <2>1, <3>1 DEF LoadStep, Idle, FrontInv
    <3> QED  BY <3>2 DEF LogInv
  <2>2. CASE Handle
    <3>1. PICK r : /\ request' = r
                   /\ answer' = IF RouteOf(r) = 0 THEN Refuse(0, "404", r)
                                ELSE HandleChecked(RouteOf(r), r)
      BY <2>2 DEF Handle
    <3>2. answer'.logged = SanitizeRawQuery(r.query)
      BY <3>1, AnswerLogs
    <3> QED  BY <3>1, <3>2 DEF LogInv
  <2>3. CASE Answered
    BY <2>3 DEF Answered, LogInv, Idle
  <2>4. CASE Exited \/ UNCHANGED frontendVars
    <3>1. UNCHANGED <<request, answer>>
      BY <2>4 DEF Exited, frontendVars
    <3> QED  BY <3>1 DEF LogInv, Idle
  <2> QED  BY <2>1, <2>2, <2>3, <2>4 DEF Next
<1> QED  BY <1>1, <1>2, FrontInvariant, PTL DEF Spec

\* A well-formed query is logged with what it said, and with one redacted value
\* in place of all values of a key of SENSITIVE_QUERY_KEYS, whatever the query
\* (sanitize_raw_query, query_escape, parse_query).
THEOREM FrontLogsRedacted == Spec => []LogsRedacted
<1>1. FrontInv /\ LogInv => LogsRedacted
  <2> SUFFICES ASSUME FrontInv, LogInv, answer # Idle, ~Malformed(request.query)
               PROVE  LogsRedacted
    BY DEF LogsRedacted
  <2> DEFINE query == request.query
  <2>1. answer.logged = SanitizeRawQuery(query)
    BY DEF LogInv
  <2>2. /\ query \in Seq(Parts)
        /\ \A i \in DOMAIN query : ToSet(Pair(query[i]).key) \subseteq Symbols
    BY Zenon DEF FrontInv, IsRequest, Parts, Symbols
  <2>3. ~Malformed(query)
    OBVIOUS
  <2> HIDE DEF query
  <2>4. /\ ~Malformed(answer.logged)
        /\ KeysOf(answer.logged) = KeysOf(query)
        /\ \A key \in KeysOf(query) :
             ValuesOf(answer.logged, key) =
               IF Sensitive(key) THEN <<<<"redacted">>>> ELSE ValuesOf(query, key)
    BY <2>1, <2>2, <2>3, QueryLogged
  <2> QED  BY <2>4, Zenon DEF LogsRedacted, query
<1> QED  BY <1>1, FrontInvariant, LogInvariant, PTL

-----------------------------------------------------------------------------
(* Types *)

\* Texts, the ones the flags themselves are written with included.
Texts == Seq(Seq(STRING \cup {"-flag", "true"}))
Args == [dashes : Nat, name : STRING, text : Seq(Seq(STRING))]
Timeout == "response_header_timeout"

IsList(s) == Len(s) \in Nat /\ DOMAIN s = 1 .. Len(s)

\* What of a layer's types matters for what is served.
LayerTyped(layer) ==
  /\ "routes" \in DOMAIN layer => IsList(layer["routes"])
  /\ Timeout \in DOMAIN layer => layer[Timeout] \in Int

\* The flags read so far are texts, and numbers where numbers are asked for; an
\* environment that was applied has been checked.
TypeInv ==
  /\ sources \in Sources
  /\ step \in {"flags", "file", "env", "cli", "check", "serving", "help", "version", "invalid"}
  /\ at \in 1..(Len(sources.args) + 1)
  /\ DOMAIN flags \subseteq DOMAIN FlagNames
  /\ \A o \in DOMAIN flags : flags[o] \in Texts
  /\ Timeout \in DOMAIN flags => IsInteger(Plain(flags[Timeout]))
  /\ DOMAIN raw \subseteq DOMAIN Kinds
  /\ LayerTyped(raw)
  /\ DOMAIN values = DOMAIN Defaults
  /\ step \in {"cli", "check", "serving"} => EnvGood(sources.env)

\* Texts of the sources are texts.
LEMMA TextsAre == \A text \in Seq(Seq(STRING)) : text \in Texts
<1> DEFINE T == STRING \cup {"-flag", "true"}
<1>1. ASSUME NEW A, NEW B, A \subseteq B, NEW s \in Seq(A) PROVE s \in Seq(B)
  BY <1>1
<1>2. STRING \subseteq T
  OBVIOUS
<1> HIDE DEF T
<1>3. Seq(STRING) \subseteq Seq(T)
  BY <1>1, <1>2
<1>4. \A text \in Seq(Seq(STRING)) : text \in Seq(Seq(T))
  BY <1>1, <1>3
<1> QED  BY <1>4 DEF Texts, T

\* A function on the first numbers is a list.
LEMMA Lists ==
  ASSUME NEW n \in Nat, NEW f, f = [i \in 1 .. n |-> f[i]]
  PROVE  IsList(f) /\ Len(f) = n
<1>1. f \in [1 .. n -> {f[i] : i \in 1 .. n}]
  OBVIOUS
<1>2. f \in Seq({f[i] : i \in 1 .. n}) /\ Len(f) = n
  BY <1>1
<1> QED  BY <1>2 DEF IsList

\* The options that a text says have their types.
LEMMA RawValues ==
  ASSUME NEW text \in Texts
  PROVE  /\ IsList(RawValue("routes", text))
         /\ IsInteger(Plain(text)) => RawValue(Timeout, text) \in Int
<1>1. RawValue("routes", text) = ParseRouteValues(text)
  BY DEF RawValue, Kinds
<1>2. RawValue(Timeout, text) = ParseInt(Plain(text))
  BY DEF RawValue, Kinds, Timeout
<1>3. IsInteger(Plain(text)) => ParseInt(Plain(text)) \in Int
  <2>1. \A t \in DOMAIN Integer : Integer[t] \in Int
    BY DEF Integer
  <2> QED  BY <2>1, Zenon DEF IsInteger, ParseInt
<1>4. IsList(ParseRouteValues(text))
  <2> DEFINE given == {i \in DOMAIN text : ~Blank(<<text[i]>>)}
             place == InOrder(given, Less(given))
             n == Cardinality(given)
             p == ParseRouteValues(text)
  <2>1. Len(text) \in Nat /\ DOMAIN text = 1 .. Len(text)
    BY DEF Texts
  <2>2. given \in SUBSET (1 .. Len(text)) /\ given \in SUBSET Nat
    BY <2>1
  <2>3. IsFiniteSet(1 .. Len(text))
    BY <2>1, FS_Interval
  <2>4. DOMAIN RouteEntries(text) = DOMAIN place
    BY DEF RouteEntries
  <2> HIDE DEF given
  <2>5. IsFiniteSet(given)
    BY <2>2, <2>3, FS_Subset
  <2>6. TotalOn(given, Less(given))
    BY <2>2, LessTotal
  <2>7. n \in Nat /\ DOMAIN place = 1 .. n
    BY <2>5, <2>6, Ordered
  <2>8. p = [i \in 1 .. n |-> p[i]]
    BY <2>4, <2>7 DEF ParseRouteValues
  <2> HIDE DEF p, n, place
  <2> QED  BY <2>7, <2>8, Lists DEF p
<1> QED  BY <1>1, <1>2, <1>3, <1>4

\* A flag's name is its own.
LEMMA FlagsApart ==
  /\ \A o \in DOMAIN FlagNames : "response-header-timeout" \in FlagNames[o] => o = Timeout
  /\ FlagNames[Timeout] = {"response-header-timeout"} /\ FlagKind(Timeout) = "int"
  /\ DOMAIN FlagNames \ {"config", "help", "version"} = DOMAIN Kinds
<1>1. \A o \in DOMAIN FlagNames : "response-header-timeout" \in FlagNames[o] => o = Timeout
  BY DEF FlagNames, Timeout
<1>2. FlagNames[Timeout] = {"response-header-timeout"} /\ FlagKind(Timeout) = "int"
  BY DEF FlagNames, Timeout, FlagKind, Kinds
<1>3. DOMAIN FlagNames \ {"config", "help", "version"} = DOMAIN Kinds
  BY DEF FlagNames, Kinds
<1> QED  BY <1>1, <1>2, <1>3

\* The text of a flag.
LEMMA FlagTexts ==
  ASSUME NEW args \in Seq(Args), NEW i \in 1 .. Len(args),
         FlagGood(args, i)
  PROVE  /\ FlagText(args, i) \in Texts
         /\ TakesNext(args[i]) => i < Len(args)
         /\ Timeout \in FlagOf(args[i]) => IsInteger(Plain(FlagText(args, i)))
<1>1. Len(args) \in Nat /\ \A k \in 1 .. Len(args) : args[k].text \in Texts
  <2>1. Len(args) \in Nat /\ \A k \in 1 .. Len(args) : args[k] \in Args
    OBVIOUS
  <2>2. \A a \in Args : a.text \in Seq(Seq(STRING))
    BY DEF Args
  <2> QED  BY <2>1, <2>2, TextsAre
<1>2. Word("-flag") \in Texts /\ Word("true") \in Texts
  <2>1. ASSUME NEW T, NEW x \in T PROVE <<x>> \in Seq(T)
    OBVIOUS
  <2> DEFINE T == STRING \cup {"-flag", "true"}
  <2>2. "-flag" \in T /\ "true" \in T
    OBVIOUS
  <2> HIDE DEF T
  <2>3. <<"-flag">> \in Seq(T) /\ <<"true">> \in Seq(T)
    BY <2>1, <2>2, Zenon
  <2> QED  BY <2>1, <2>3, Zenon DEF Word, Texts, T
<1>3. TakesNext(args[i]) => i < Len(args)
  BY DEF FlagGood
<1>4. TakesNext(args[i]) => ArgText(args[i + 1]) \in Texts
  <2> SUFFICES ASSUME TakesNext(args[i]) PROVE ArgText(args[i + 1]) \in Texts
    OBVIOUS
  <2>1. i + 1 \in 1 .. Len(args)
    BY <1>1, <1>3
  <2>2. args[i + 1].text \in Texts
    BY <1>1, <2>1
  <2>3. ArgText(args[i + 1]) \in {args[i + 1].text, Word("-flag")}
    BY DEF ArgText
  <2> QED  BY <1>2, <2>2, <2>3
<1>5. FlagText(args, i) \in Texts
  <2>1. Word("true") \in Texts /\ args[i].text \in Texts
    BY <1>1, <1>2
  <2>2. \/ FlagText(args, i) = args[i].text
        \/ TakesNext(args[i]) /\ FlagText(args, i) = ArgText(args[i + 1])
        \/ FlagText(args, i) = Word("true")
    BY DEF FlagText
  <2> QED  BY <1>4, <2>1, <2>2
<1>6. ASSUME Timeout \in FlagOf(args[i]) PROVE IsInteger(Plain(FlagText(args, i)))
  <2>1. args[i].name = "response-header-timeout"
    BY <1>6, FlagsApart DEF FlagOf
  <2>2. PICK o \in FlagOf(args[i]) : FlagKind(o) = "int" => IsInteger(Plain(FlagText(args, i)))
    BY DEF FlagGood
  <2>3. o = Timeout
    BY <2>1, FlagsApart DEF FlagOf
  <2> QED  BY <2>2, <2>3, FlagsApart
<1> QED  BY <1>3, <1>5, <1>6

\* The environment's options have their types, once they were checked.
LEMMA EnvTyped ==
  ASSUME TypeInv, EnvGood(sources.env)
  PROVE  LayerTyped(EnvRaw(sources.env))
<1> DEFINE env == sources.env
<1>1. \A o \in DOMAIN env : env[o] \in Texts
  BY SourceAssumption, TextsAre DEF TypeInv
<1>2. Kinds["routes"] = "routes" /\ Kinds[Timeout] = "int"
  BY DEF Kinds, Timeout
<1> HIDE DEF env
<1>3. EnvGiven(env) \in SUBSET DOMAIN env
  BY DEF EnvGiven
<1>4. /\ DOMAIN EnvRaw(env) = EnvGiven(env)
      /\ \A o \in EnvGiven(env) : Kinds[o] # "bool" => EnvRaw(env)[o] = RawValue(o, env[o])
  BY DEF EnvRaw
<1>5. \A o \in EnvGiven(env) : Kinds[o] = "int" => IsInteger(Plain(env[o]))
  BY Zenon DEF EnvGood, env
<1>6. ASSUME "routes" \in DOMAIN EnvRaw(env) PROVE IsList(EnvRaw(env)["routes"])
  <2>1. env["routes"] \in Texts /\ EnvRaw(env)["routes"] = RawValue("routes", env["routes"])
    BY <1>1, <1>2, <1>3, <1>4, <1>6
  <2> QED  BY <2>1, RawValues
<1>7. ASSUME Timeout \in DOMAIN EnvRaw(env) PROVE EnvRaw(env)[Timeout] \in Int
  <2>1. /\ env[Timeout] \in Texts /\ EnvRaw(env)[Timeout] = RawValue(Timeout, env[Timeout])
        /\ IsInteger(Plain(env[Timeout]))
    BY <1>1, <1>2, <1>3, <1>4, <1>5, <1>7
  <2> QED  BY <2>1, RawValues
<1> QED  BY <1>6, <1>7 DEF LayerTyped, env

\* One flag more.
LEMMA FlagTaken ==
  ASSUME TypeInv, ParseFlag, ~Fail
  PROVE  /\ at' \in 1..(Len(sources.args) + 1)
         /\ DOMAIN flags' \subseteq DOMAIN FlagNames
         /\ \A o \in DOMAIN flags' : flags'[o] \in Texts
         /\ Timeout \in DOMAIN flags' => IsInteger(Plain(flags'[Timeout]))
<1> DEFINE args == sources.args
           text == FlagText(args, at)
<1>1. args \in Seq(Args)
  BY SourceAssumption DEF TypeInv, Args
<1>2. Len(args) \in Nat /\ at \in Nat /\ at \in 1 .. Len(args)
  BY <1>1 DEF TypeInv, ParseFlag, MoreFlags
<1>3. /\ FlagGood(args, at)
      /\ \E o \in FlagOf(args[at]) :
           flags' = Put(flags, o, IF o = "routes" /\ o \in DOMAIN flags THEN flags[o] \o text
                                  ELSE text)
      /\ at' = at + (IF TakesNext(args[at]) THEN 2 ELSE 1)
  BY DEF ParseFlag
<1>4. /\ text \in Texts
      /\ TakesNext(args[at]) => at < Len(args)
      /\ Timeout \in FlagOf(args[at]) => IsInteger(Plain(text))
  BY <1>1, <1>2, <1>3, FlagTexts
<1>5. PICK o \in FlagOf(args[at]) :
        flags' = Put(flags, o, IF o = "routes" /\ o \in DOMAIN flags THEN flags[o] \o text
                               ELSE text)
  BY <1>3
<1>6. o \in DOMAIN FlagNames
  BY DEF FlagOf
<1> HIDE DEF args, text
<1>7. at' \in 1..(Len(args) + 1)
  BY <1>2, <1>3, <1>4
<1> DEFINE new == IF o = "routes" /\ o \in DOMAIN flags THEN flags[o] \o text ELSE text
<1>8. new \in Texts /\ (o = Timeout => new = text)
  <2>1. o \in DOMAIN flags => flags[o] \in Texts
    BY DEF TypeInv
  <2>2. \A a, b \in Texts : a \o b \in Texts
    BY DEF Texts
  <2>3. Timeout # "routes"
    BY DEF Timeout
  <2> QED  BY <1>4, <2>1, <2>2, <2>3
<1> HIDE DEF new
<1>9. /\ DOMAIN flags' = DOMAIN flags \cup {o}
      /\ flags'[o] = new
      /\ \A p \in DOMAIN flags : p # o => flags'[p] = flags[p]
  BY <1>5 DEF Put, new
<1>10. DOMAIN flags' \subseteq DOMAIN FlagNames /\ \A p \in DOMAIN flags' : flags'[p] \in Texts
  BY <1>6, <1>8, <1>9 DEF TypeInv
<1>11. ASSUME Timeout \in DOMAIN flags' PROVE IsInteger(Plain(flags'[Timeout]))
  <2>1. CASE o = Timeout
    BY <1>4, <1>8, <1>9, <2>1
  <2>2. CASE o # Timeout
    BY <1>9, <1>11, <2>2 DEF TypeInv
  <2> QED  BY <2>1, <2>2
<1> QED  BY <1>7, <1>10, <1>11 DEF args

\* The types hold of what is loaded (from_sources).
LEMMA TypesHold == Spec => []TypeInv
<1>1. Init => TypeInv
  <2> SUFFICES ASSUME Init PROVE TypeInv
    OBVIOUS
  <2>1. /\ sources \in Sources /\ step = "flags" /\ at = 1 /\ flags = <<>> /\ raw = <<>>
        /\ values = Defaults
    BY DEF Init, ConfigInit
  <2>2. sources.args \in Seq(Args)
    BY <2>1, SourceAssumption DEF Args
  <2>3. Len(sources.args) \in Nat /\ DOMAIN <<>> = {}
    BY <2>2
  <2>4. at \in 1..(Len(sources.args) + 1)
    BY <2>1, <2>3
  <2> QED  BY <2>1, <2>3, <2>4 DEF TypeInv, LayerTyped
<1>2. TypeInv /\ [Next]_frontendVars => TypeInv'
  <2> SUFFICES ASSUME TypeInv, [Next]_frontendVars PROVE TypeInv'
    OBVIOUS
  <2>0. ASSUME NEW old, NEW layer PROVE DOMAIN ApplyRaw(old, layer) = DOMAIN Defaults
    BY Zenon DEF ApplyRaw
  <2>1. CASE Fail
    BY <2>1 DEF Fail, TypeInv
  <2>2. CASE UNCHANGED configVars
    BY <2>2 DEF configVars, TypeInv
  <2>3. CASE ParseFlag /\ ~Fail
    <3>1. step' = step /\ step = "flags" /\ UNCHANGED <<sources, raw, values>>
      BY <2>3 DEF ParseFlag, MoreFlags
    <3>2. /\ at' \in 1..(Len(sources.args) + 1)
          /\ DOMAIN flags' \subseteq DOMAIN FlagNames
          /\ \A o \in DOMAIN flags' : flags'[o] \in Texts
          /\ Timeout \in DOMAIN flags' => IsInteger(Plain(flags'[Timeout]))
      BY <2>3, FlagTaken
    <3> QED  BY <3>1, <3>2 DEF TypeInv
  <2>4. CASE EndFlags /\ ~Fail
    <3>1. /\ step' \in {"help", "version", "file"} /\ UNCHANGED <<sources, at, flags, values>>
          /\ raw' = [o \in DOMAIN flags \ {"config", "help", "version"} |-> RawValue(o, flags[o])]
      BY <2>4 DEF EndFlags
    <3>2. DOMAIN raw' \subseteq DOMAIN Kinds
      <4>1. DOMAIN raw' = DOMAIN flags \ {"config", "help", "version"}
        BY <3>1
      <4>2. DOMAIN flags \subseteq DOMAIN FlagNames
        BY DEF TypeInv
      <4> QED  BY <4>1, <4>2, FlagsApart
    <3>3. \A o \in DOMAIN raw' : o \in DOMAIN flags /\ raw'[o] = RawValue(o, flags[o])
      BY <3>1
    <3>4. /\ "routes" \in DOMAIN raw' => IsList(raw'["routes"])
          /\ Timeout \in DOMAIN raw' => raw'[Timeout] \in Int
      <4>1. \A o \in DOMAIN flags : flags[o] \in Texts
        BY DEF TypeInv
      <4>2. Timeout \in DOMAIN flags => IsInteger(Plain(flags[Timeout]))
        BY DEF TypeInv
      <4> QED  BY <3>3, <4>1, <4>2, RawValues
    <3>5. LayerTyped(raw)'
      BY <3>4 DEF LayerTyped
    <3> QED  BY <3>1, <3>2, <3>5 DEF TypeInv
  <2>5. CASE LoadFile /\ ~Fail
    <3>1. step' = "env" /\ UNCHANGED <<sources, at, flags, raw>>
      BY <2>5 DEF LoadFile
    <3>2. DOMAIN values' = DOMAIN Defaults
      <4>1. values' = values \/ values' = ApplyRaw(values, FileRaw(ConfigPath))
        BY <2>5 DEF LoadFile
      <4> QED  BY <2>0, <4>1 DEF TypeInv
    <3> QED  BY <3>1, <3>2 DEF TypeInv
  <2>6. CASE ApplyEnv /\ ~Fail
    <3>1. /\ step' = "cli" /\ UNCHANGED <<sources, at, flags, raw>> /\ EnvGood(sources.env)
          /\ values' = ApplyRaw(values, EnvRaw(sources.env))
      BY <2>6 DEF ApplyEnv
    <3>2. DOMAIN values' = DOMAIN Defaults
      BY <2>0, <3>1
    <3>3. EnvGood(sources.env)'
      BY <3>1
    <3> QED  BY <3>1, <3>2, <3>3 DEF TypeInv
  <2>7. CASE ApplyCli
    <3>1. /\ step = "cli" /\ step' = "check" /\ UNCHANGED <<sources, at, flags, raw>>
          /\ values' = ApplyRaw(values, raw)
      BY <2>7 DEF ApplyCli
    <3>2. DOMAIN values' = DOMAIN Defaults
      BY <2>0, <3>1
    <3> QED  BY <3>1, <3>2 DEF TypeInv
  <2>8. CASE Check /\ ~Fail
    <3>1. step = "check" /\ step' = "serving" /\ UNCHANGED <<sources, at, flags, raw, values>>
      BY <2>8 DEF Check
    <3> QED  BY <3>1 DEF TypeInv
  <2>9. CASE LoadStep
    BY <2>1, <2>3, <2>4, <2>5, <2>6, <2>7, <2>8, <2>9 DEF LoadStep, Load
  <2>10. CASE Handle \/ Answered \/ Exited \/ UNCHANGED frontendVars
    <3>1. UNCHANGED configVars
      BY <2>10 DEF Handle, Answered, Exited, frontendVars
    <3> QED  BY <2>2, <3>1
  <2> QED  BY <2>9, <2>10 DEF Next
<1> QED  BY <1>1, <1>2, PTL DEF Spec

\* What is served has its types, and a route for each that is written.
LEMMA ServedTyped ==
  ASSUME TypeInv, LayerInv, StrongestSays, step = "serving"
  PROVE  /\ config.response_header_timeout \in Nat \cup {NoTimeout}
         /\ IsList(config.routes) /\ DOMAIN config.routes = DOMAIN values.routes
         /\ \A i \in DOMAIN config.routes : config.routes[i].host = PublicHost(values.routes[i])
<1> DEFINE Typed(o, v) == IF o = Timeout THEN v \in Int ELSE IsList(v)
<1>1. Timeout \in DOMAIN Defaults /\ "routes" \in DOMAIN Defaults /\ Timeout # "routes"
  BY DEF Defaults, Timeout
<1>2. Typed("routes", Defaults["routes"]) /\ Typed(Timeout, Defaults[Timeout])
  BY DEF Defaults, Timeout, IsList
<1>3. ASSUME NEW layer, LayerTyped(layer), NEW o \in {"routes", Timeout}
      PROVE  Says(layer, o) => Typed(o, Told(layer, o))
  <2>1. o # "log_level"
    BY DEF Timeout
  <2>2. \A v : Applied(o, v) = v
    <3>1. Kinds[o] \in {"routes", "int"}
      BY DEF Kinds, Timeout
    <3> QED  BY <3>1 DEF Applied
  <2> QED  BY <1>1, <1>3, <2>1, <2>2 DEF Says, Told, LayerTyped
<1>4. LayerTyped(raw)
  BY DEF TypeInv
<1>5. LayerTyped(EnvRaw(sources.env))
  BY EnvTyped DEF TypeInv
<1>6. LayerTyped(FileLayer)
  <2>1. CASE ConfigPath # "" /\ ConfigPath \in DOMAIN sources.files
    <3> DEFINE given == sources.files[ConfigPath].raw
    <3>1. FileLayer = given
      BY <2>1 DEF FileLayer, FileRaw
    <3>2. /\ "routes" \in DOMAIN given =>
               given["routes"] \in Seq([upstream : STRING, public : STRING, domain : STRING])
          /\ Timeout \in DOMAIN given => given[Timeout] \in Int
      BY <2>1, SourceAssumption DEF TypeInv, Timeout
    <3> HIDE DEF given
    <3>3. ASSUME NEW T, NEW s \in Seq(T) PROVE IsList(s)
      BY DEF IsList
    <3>4. "routes" \in DOMAIN given => IsList(given["routes"])
      BY <3>2, <3>3
    <3> QED  BY <3>1, <3>2, <3>4 DEF LayerTyped
  <2>2. CASE ~(ConfigPath # "" /\ ConfigPath \in DOMAIN sources.files)
    <3>1. FileLayer = <<>>
      BY <2>2, Zenon DEF FileLayer
    <3>2. DOMAIN <<>> = {}
      OBVIOUS
    <3> QED  BY <3>1, <3>2 DEF LayerTyped
  <2> QED  BY <2>1, <2>2
<1>7. ASSUME NEW o \in {"routes", Timeout} PROVE Typed(o, values[o])
  <2>1. values[o] = IF Says(raw, o) THEN Told(raw, o)
                    ELSE IF Says(EnvRaw(sources.env), o) THEN Told(EnvRaw(sources.env), o)
                    ELSE IF Says(FileLayer, o) THEN Told(FileLayer, o)
                    ELSE Defaults[o]
    BY <1>1 DEF StrongestSays
  <2>2. Typed(o, Defaults[o])
    BY <1>2
  <2> HIDE DEF Typed
  <2> QED  BY <1>3, <1>4, <1>5, <1>6, <2>1, <2>2
<1>8. values[Timeout] \in Int /\ IsList(values["routes"])
  BY <1>1, <1>7
<1>9. config = MakeConfig(values) /\ "routes" \in DOMAIN values /\ Timeout \in DOMAIN values
  BY <1>1 DEF LayerInv, TypeInv
<1> DEFINE written == values.routes
<1>10. config.routes = [k \in DOMAIN written |-> ParseRoute(written[k])]
  BY <1>9 DEF MakeConfig, Put
<1>11. config.response_header_timeout =
         IF values.response_header_timeout > 0 THEN values.response_header_timeout ELSE NoTimeout
  BY <1>9 DEF MakeConfig, Put, Timeout
<1>12. config.response_header_timeout \in Nat \cup {NoTimeout}
  BY <1>8, <1>11 DEF Timeout
<1> HIDE DEF written
<1>13. Len(written) \in Nat /\ DOMAIN written = 1 .. Len(written)
  BY <1>8 DEF IsList, written
<1>14. config.routes = [k \in 1 .. Len(written) |-> config.routes[k]]
  BY <1>10, <1>13
<1>15. IsList(config.routes)
  BY <1>13, <1>14, Lists
<1>16. ASSUME NEW r PROVE ParseRoute(r).host = PublicHost(r)
  BY DEF ParseRoute
<1>17. \A i \in DOMAIN config.routes : config.routes[i].host = PublicHost(written[i])
  BY <1>10, <1>16
<1> QED  BY <1>10, <1>12, <1>15, <1>17 DEF written

\* The host name of a request, and the answer by the route that has it; 404 is
\* for requests that no route has.
NameOf(r) == LowerHost(Hostname(HostTexts[RequestHost(r)]))

AnswerInv ==
  answer # Idle =>
    /\ answer.status \in Statuses
    /\ answer.kind \in {"media", "image", "api"}
    /\ answer.route = RouteOf(request)
    /\ answer.status = "404" <=> answer.route = 0

\* What an answer can be.
LEMMA AnswerKinds ==
  ASSUME NEW r, NEW a,
         a = IF RouteOf(r) = 0 THEN Refuse(0, "404", r) ELSE HandleChecked(RouteOf(r), r)
  PROVE  /\ a.status \in Statuses /\ a.kind \in {"media", "image", "api"}
         /\ a.route = RouteOf(r) /\ (a.status = "404" <=> a.route = 0)
<1> DEFINE i == RouteOf(r)
<1>1. Classify(r.path) \in {"media", "image", "api"}
  BY DEF Classify
<1>2. ASSUME NEW k, NEW status
      PROVE  /\ Refuse(k, status, r).status = status /\ Refuse(k, status, r).route = k
             /\ Refuse(k, status, r).kind = Classify(r.path)
  BY DEF Refuse
<1>3. /\ ProxyUpstream(i, r).status = "forwarded" /\ ProxyUpstream(i, r).route = i
      /\ ProxyUpstream(i, r).kind = Classify(r.path)
  BY DEF ProxyUpstream, Refuse
<1>4. \/ HandleChecked(i, r) = ProxyUpstream(i, r)
      \/ \E status \in {"403", "resource", "nobody", "401"} :
           HandleChecked(i, r) = Refuse(i, status, r)
  BY DEF HandleChecked, RouteRequest
<1> HIDE DEF i
<1>5. CASE i = 0
  <2>1. a = Refuse(0, "404", r)
    BY <1>5 DEF i
  <2>2. a.status = "404" /\ a.route = 0 /\ a.kind = Classify(r.path)
    BY <1>2, <2>1
  <2> QED  BY <1>1, <1>5, <2>2 DEF Statuses, i
<1>6. CASE i # 0
  <2>1. a = HandleChecked(i, r)
    BY <1>6 DEF i
  <2>2. /\ a.status \in {"forwarded", "403", "resource", "nobody", "401"} /\ a.route = i
        /\ a.kind = Classify(r.path)
    BY <1>2, <1>3, <1>4, <2>1
  <2> QED  BY <1>1, <1>6, <2>2 DEF Statuses, i
<1> QED  BY <1>5, <1>6

\* The invariant holds (Server::handle).
LEMMA AnswersHold == Spec => []AnswerInv
<1>1. Init => AnswerInv
  BY DEF Init, AnswerInv
<1>2. FrontInv /\ AnswerInv /\ [Next]_frontendVars => AnswerInv'
  <2> SUFFICES ASSUME FrontInv, AnswerInv, [Next]_frontendVars PROVE AnswerInv'
    OBVIOUS
  <2>1. CASE LoadStep
    <3>1. step # "serving"
      BY <2>1 DEF LoadStep, Load, ParseFlag, MoreFlags, EndFlags, LoadFile, ApplyEnv, ApplyCli, Check
    <3>2. answer' = Idle'
      BY <2>1, <3>1 DEF LoadStep, Idle, FrontInv
    <3> QED  BY <3>2 DEF AnswerInv
  <2>2. CASE Handle
    <3>1. PICK r : /\ request' = r
                   /\ answer' = IF RouteOf(r) = 0 THEN Refuse(0, "404", r)
                                ELSE HandleChecked(RouteOf(r), r)
      BY <2>2 DEF Handle
    <3>2. config' = config
      BY <2>2 DEF Handle, configVars
    <3>3. /\ answer'.status \in Statuses /\ answer'.kind \in {"media", "image", "api"}
          /\ answer'.route = RouteOf(r) /\ (answer'.status = "404" <=> answer'.route = 0)
      BY <3>1, AnswerKinds
    <3>4. RouteOf(request)' = RouteOf(r)
      BY <3>1, <3>2 DEF RouteOf, SelectLastInSeq
    <3> QED  BY <3>3, <3>4 DEF AnswerInv
  <2>3. CASE Answered
    BY <2>3 DEF Answered, AnswerInv, Idle
  <2>4. CASE Exited \/ UNCHANGED frontendVars
    <3>1. UNCHANGED <<config, request, answer>>
      BY <2>4 DEF Exited, frontendVars, configVars
    <3>2. RouteOf(request)' = RouteOf(request)
      BY <3>1 DEF RouteOf, SelectLastInSeq
    <3> QED  BY <3>1, <3>2 DEF AnswerInv, Idle
  <2> QED  BY <2>1, <2>2, <2>3, <2>4 DEF Next
<1> QED  BY <1>1, <1>2, FrontInvariant, PTL DEF Spec

\* The map finds the last of the routes with a host name, if there is one.
LEMMA RouteFound ==
  ASSUME NEW r, IsList(config.routes)
  PROVE  IF \E i \in DOMAIN config.routes : config.routes[i].host = NameOf(r)
           THEN RouteOf(r) \in DOMAIN config.routes /\ config.routes[RouteOf(r)].host = NameOf(r)
           ELSE RouteOf(r) = 0
<1> DEFINE n == Len(config.routes)
           key == NameOf(r)
           I == {i \in 1 .. n : config.routes[i].host = key}
<1>1. n \in Nat /\ DOMAIN config.routes = 1 .. n
  BY DEF IsList
<1>2. RouteOf(r) = IF I # {} THEN Max(I) ELSE 0
  BY DEF RouteOf, SelectLastInSeq, NameOf
<1>3. I \in SUBSET (1 .. n)
  OBVIOUS
<1>4. ASSUME I # {} PROVE Max(I) \in I
  <2> DEFINE T == {n - i : i \in I}
  <2>1. T \in SUBSET Nat /\ T # {}
    <3> HIDE DEF I, n
    <3>1. \A i \in I : n - i \in Nat
      BY <1>1, <1>3
    <3> QED  BY <1>4, <3>1
  <2> HIDE DEF T
  <2>2. PICK m \in T : \A k \in T : m <= k
    BY <2>1, LeastOf
  <2>3. PICK i \in I : m = n - i
    BY DEF T
  <2>4. \A j \in I : i >= j
    <3> SUFFICES ASSUME NEW j \in I PROVE i >= j
      OBVIOUS
    <3>1. n - j \in T
      BY DEF T
    <3>2. n - i <= n - j
      BY <2>2, <2>3, <3>1
    <3>3. i \in 1 .. n /\ j \in 1 .. n
      BY <1>3
    <3> QED  BY <1>1, <3>2, <3>3
  <2> HIDE DEF I
  <2> QED  BY <2>4, Zenon DEF Max
<1>5. (\E i \in DOMAIN config.routes : config.routes[i].host = key) <=> I # {}
  BY <1>1
<1>6. I # {} => RouteOf(r) \in DOMAIN config.routes /\ config.routes[RouteOf(r)].host = key
  BY <1>1, <1>2, <1>4
<1> HIDE DEF I
<1> QED  BY <1>2, <1>5, <1>6 DEF key

\* Every variable has its type (Values, Cli, Config, the answers of handle).
THEOREM FrontTypeOK == Spec => []TypeOK
<1>1. TypeInv /\ LayerInv /\ StrongestSays /\ FrontInv /\ AnswerInv => TypeOK
  <2> SUFFICES ASSUME TypeInv, LayerInv, StrongestSays, FrontInv, AnswerInv PROVE TypeOK
    OBVIOUS
  <2>1. step = "serving" => config.response_header_timeout \in Nat \cup {NoTimeout}
    BY ServedTyped
  <2>2. answer # Idle => /\ answer.status \in Statuses
                         /\ answer.route \in 0..Len(config.routes)
                         /\ answer.kind \in {"media", "image", "api"}
    <3> SUFFICES ASSUME answer # Idle PROVE answer.route \in 0..Len(config.routes)
      BY DEF AnswerInv
    <3>1. IsList(config.routes)
      BY ServedTyped DEF FrontInv
    <3>2. RouteOf(request) \in DOMAIN config.routes \/ RouteOf(request) = 0
      BY <3>1, RouteFound
    <3> QED  BY <3>1, <3>2 DEF IsList, AnswerInv
  <2> QED  BY <2>1, <2>2 DEF TypeOK, TypeInv
<1> QED  BY <1>1, TypesHold, FrontLayers, FrontStrongestSays, FrontInvariant, AnswersHold, PTL

\* A request is answered by the route whose public URL has its host's name,
\* whatever the order of the routes, and with 404 when none has it.
RoutedByHost ==
  answer # Idle =>
    /\ \A i \in DOMAIN values.routes :
         answer.route = i <=> PublicHost(values.routes[i]) = NameOf(request)
    /\ answer.status = "404" <=>
         \A i \in DOMAIN values.routes : PublicHost(values.routes[i]) # NameOf(request)

\* It is, for every configuration and every request (parse_routes,
\* Server::handle).
THEOREM FrontRoutedByHost == Spec => []RoutedByHost
<1>1. TypeInv /\ LayerInv /\ StrongestSays /\ FrontInv /\ AnswerInv /\ RoutesApart => RoutedByHost
  <2> SUFFICES ASSUME TypeInv, LayerInv, StrongestSays, FrontInv, AnswerInv, RoutesApart,
                      answer # Idle
               PROVE  /\ \A i \in DOMAIN values.routes :
                           answer.route = i <=> PublicHost(values.routes[i]) = NameOf(request)
                      /\ answer.status = "404" <=>
                           \A i \in DOMAIN values.routes :
                             PublicHost(values.routes[i]) # NameOf(request)
    BY DEF RoutedByHost
  <2> DEFINE routes == config.routes
             written == values.routes
             key == NameOf(request)
             found == RouteOf(request)
  <2>1. /\ step = "serving" /\ answer.route = found
        /\ answer.status = "404" <=> answer.route = 0
    BY DEF FrontInv, AnswerInv
  <2>2. /\ IsList(routes) /\ DOMAIN routes = DOMAIN written
        /\ \A i \in DOMAIN routes : routes[i].host = PublicHost(written[i])
    BY <2>1, ServedTyped
  <2>3. IF \E i \in DOMAIN routes : routes[i].host = key
          THEN found \in DOMAIN routes /\ routes[found].host = key ELSE found = 0
    BY <2>2, RouteFound
  <2>4. \A i, j \in DOMAIN routes : routes[i].host = routes[j].host => i = j
    BY <2>1 DEF RoutesApart
  <2>5. 0 \notin DOMAIN routes
    BY <2>2 DEF IsList
  <2> HIDE DEF routes, written, key, found
  <2>6. \A i \in DOMAIN written : found = i <=> PublicHost(written[i]) = key
    BY <2>2, <2>3, <2>4, <2>5
  <2>7. found = 0 <=> \A i \in DOMAIN written : PublicHost(written[i]) # key
    BY <2>2, <2>3, <2>5
  <2> QED  BY <2>1, <2>6, <2>7 DEF written, key
<1> QED  BY <1>1, TypesHold, FrontLayers, FrontStrongestSays, FrontInvariant, AnswersHold,
            FrontRoutesApart, PTL
=============================================================================
