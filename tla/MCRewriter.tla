----------------------------- MODULE MCRewriter -----------------------------
(***************************************************************************)
(* The bodies the rewriter is checked on, in four families, with what JSON *)
(* and the code's tests say of each: documents and other token sequences,  *)
(* numbers, strings, and URLs.                                             *)
(***************************************************************************)
EXTENDS Rewriter, SequencesExt

CONSTANTS
  MaxTokens,  \* bound on the tokens of TokenTexts
  MaxNumber   \* bound on the symbols of NumberTexts

\* Public URLs without a path and with one.
NoBase == <<>>
Base == <<"/", "p">>

AllSymbols == Decoded \cup Space \cup Digits \cup DOMAIN HexValue
                \cup {"{", "}", "[", "]", ",", ":", "true", "-", "+", ".", "http:", "https:",
                      Backslash, "u", "n", "x", "?", "#", "@", "!", "%", "%20", "%2F", "%78",
                      "%FF", "%3F"}

\* A document: its text, the URLs in it, and what the client receives.
Doc(t, f, nesting, o) == [text |-> t, found |-> f, depth |-> nesting, out |-> o]

Url == <<Quote, "http:", "/", "/", "x", "/", "x", Quote>>
Public == <<Quote, "http:", "/", "/", "proxemby">> \o PublicPath \o <<"/", "_proxy", "/">>
UrlSigned == Public \o <<"sig", "/", "http", "/", "x", "/", "x", Quote>>
UrlUnsigned == Public \o <<"http", "/", "x", "/", "x", Quote>>

Same(t) == [s \in BOOLEAN |-> t]

Leaf(gap) ==
  {Doc(gap \o <<"true">> \o gap, <<>>, 0, Same(gap \o <<"true">> \o gap)),
   Doc(gap \o Url \o gap,
       <<[start |-> Len(gap) + 1, end |-> Len(gap) + 9, path |-> <<>>,
          value |-> SubSeq(Url, 2, 7)]>>,
       0,
       [s \in BOOLEAN |-> gap \o (IF s THEN UrlSigned ELSE UrlUnsigned) \o gap])}

\* Element i of a container behind a prefix of n symbols.
Placed(found_, n, segment) ==
  [k \in 1..Len(found_) |->
     [found_[k] EXCEPT !.start = @ + n, !.end = @ + n, !.path = <<segment>> \o @]]

\* Adds element v, introduced by head, to the container c being built.
AddElement(c, head, segment, v) ==
  Doc(c.text \o head \o v.text,
      c.found \o Placed(v.found, Len(c.text) + Len(head), segment),
      IF v.depth + 1 > c.depth THEN v.depth + 1 ELSE c.depth,
      [s \in BOOLEAN |-> c.out[s] \o head \o v.out[s]])

Closed(c, tail) ==
  Doc(c.text \o tail, c.found, c.depth, [s \in BOOLEAN |-> c.out[s] \o tail])

Array(gap, values) ==
  LET open == Doc(gap \o <<"[">>, <<>>, 0, Same(gap \o <<"[">>))
      built[i \in 0..Len(values)] ==
        IF i = 0 THEN open
        ELSE AddElement(built[i - 1], IF i = 1 THEN <<>> ELSE <<",">>, Index(i - 1), values[i])
  IN  Closed(built[Len(values)], (IF values = <<>> THEN gap ELSE <<>>) \o <<"]">> \o gap)

\* Every key is a URL, which is no reason to rewrite it.
Object(gap, values) ==
  LET open == Doc(gap \o <<"{">>, <<>>, 0, Same(gap \o <<"{">>))
      built[i \in 0..Len(values)] ==
        IF i = 0 THEN open
        ELSE AddElement(built[i - 1],
                        (IF i = 1 THEN <<>> ELSE <<",">>) \o gap \o Url \o gap \o <<":">>,
                        Key(SubSeq(Url, 2, 7)), values[i])
  IN  Closed(built[Len(values)], (IF values = <<>> THEN gap ELSE <<>>) \o <<"}">> \o gap)

Containers(gap, values, width) ==
  UNION {{Array(gap, l), Object(gap, l)} : l \in SeqOf(values, width)}

Flat(gap) == Leaf(gap) \cup Containers(gap, Leaf(gap), 2)
Nested(gap) == Leaf(gap) \cup Containers(gap, Flat(gap), 2)

Docs == Nested(<<>>) \cup Flat(<<" ">>) \cup Containers(<<>>, Containers(<<>>, Flat(<<>>), 1), 1)

\* Every sequence of at most MaxTokens tokens, and every way to go on with a
\* first member or element in three.
Tokens == {<<"{">>, <<"}">>, <<"[">>, <<"]">>, <<",">>, <<":">>, Url}

TokenTexts ==
  {FlattenSeq(l) : l \in SeqOf(Tokens, MaxTokens)}
    \cup {h \o FlattenSeq(l) : h \in {<<"{">> \o Url \o <<":">> \o Url, <<"[">> \o Url \o <<",">>},
                               l \in SeqOf(Tokens, 3)}

\* Numbers: every text of at most MaxNumber symbols.
NumberTexts == SeqOf({"-", "0", "1", ".", "e", "+"}, MaxNumber) \ {<<>>}

Runs(n) == SeqOf({"0", "1"}, n) \ {<<>>}
Signs(minus) == {<<>>, <<"-">>} \cup IF minus THEN {} ELSE {<<"+">>}
Numerals ==
  LET whole == {<<"0">>} \cup {r \in Runs(MaxNumber) : r[1] = "1"}
      fraction == {<<>>} \cup {<<".">> \o r : r \in Runs(MaxNumber - 2)}
      exponent == {<<>>} \cup {<<"e">> \o s \o r : s \in Signs(FALSE), r \in Runs(MaxNumber - 2)}
  IN  {s \o w \o f \o e : s \in Signs(TRUE), w \in whole, f \in fraction, e \in exponent}

\* Strings: a URL whose host is made of pieces, each with what it decodes to.
UEscape(a, b, c, d) == <<Backslash, "u", a, b, c, d>>
High == UEscape("D", "8", "0", "0")
Pieces == {<<<<"x">>, "x">>, <<<<Backslash, "/">>, "/">>, <<<<Backslash, "n">>, "ctl">>,
           <<<<Backslash, Quote>>, Quote>>, <<UEscape("0", "0", "2", "F"), "/">>,
           <<UEscape("D", "C", "0", "0"), "low">>, <<High, "high">>}

IsU(piece) == piece[1][2] = "u"

\* A high surrogate and the \u escape after it make one character.
DecodePieces(pieces) ==
  LET step(acc, p) ==
        IF acc.high /\ Len(p[1]) > 1 /\ IsU(p)
          THEN [dec |-> Append(Front(acc.dec), IF p[2] = "low" THEN "astral" ELSE "fffd"),
                high |-> FALSE]
          ELSE [dec |-> Append(acc.dec, IF p[2] \in {"low", "high"} THEN "fffd" ELSE p[2]),
                high |-> p[2] = "high"]
  IN  FoldLeft(step, [dec |-> <<>>, high |-> FALSE], pieces).dec

RawPieces(pieces) == FlattenSeq([i \in 1..Len(pieces) |-> pieces[i][1]])

Opening == <<Quote, "http:", Backslash, "/", "/">>

\* What no string may contain, and what none may end in.
BadPieces == {<<"\t">>, <<"ctl">>, <<Backslash, "8">>, UEscape("0", "0", "x", "0")}
BadEnds == {<<Backslash>>, <<Backslash, "u">>, <<Backslash, "u", "0", "0", "2">>,
            High \o <<Backslash>>, High \o <<Backslash, "u">>,
            High \o <<Backslash, "u", "D", "C", "0">>}

StringDocs ==
  {LET t == Opening \o RawPieces(l) \o <<Quote>>
   IN  [text |-> t, found |-> <<[start |-> 1, end |-> Len(t) + 1, path |-> <<>>,
                                 value |-> <<"http:", "/", "/">> \o DecodePieces(l)]>>] :
     l \in SeqOf(Pieces, 3)}

BadStrings ==
  {Opening \o RawPieces(l) \o b \o q : l \in SeqOf(Pieces, 1), b \in BadEnds, q \in {<<>>, <<Quote>>}}
    \cup {Opening \o RawPieces(l) \o b \o RawPieces(m) \o <<Quote>> :
            l \in SeqOf(Pieces, 1), b \in BadPieces, m \in SeqOf(Pieces, 1)}
    \cup {Opening \o RawPieces(l) : l \in SeqOf(Pieces, 2)}

\* A \u escape with a sign for a digit, which JSON does not have.
SignedEscapes ==
  {Opening \o RawPieces(l) \o UEscape("+", "0", "2", "F") \o RawPieces(m) \o <<Quote>> :
     l \in SeqOf(Pieces, 1), m \in SeqOf(Pieces, 1)}

StringTexts == {t : t \in {d.text : d \in StringDocs} \cup BadStrings \cup SignedEscapes}

\* URLs, from their parts.  A host is plain, is one that a path has to escape
\* (an IPv6 address), or is none at all; a path comes with the path to request
\* from the host: outer slashes do not count, bytes that are not UTF-8 are
\* replaced.
UrlHosts == {<<<<"x">>, "plain">>, <<<<"x", ":", "8">>, "plain">>, <<<<"x", ":">>, "plain">>,
             <<<<"[", ":", ":", "1", "]">>, "escaped">>, <<<<"[", "1", "]", ":", "8">>, "escaped">>,
             <<<<"!">>, "escaped">>, <<<<>>, "none">>, <<<<"x", " ">>, "none">>,
             <<<<"x", ":", "x">>, "none">>, <<<<"[", "x">>, "none">>, <<<<"x", "%20">>, "none">>}
UrlPaths == {<<<<>>, <<"/">>>>, <<<<"/">>, <<"/">>>>, <<<<"/", "x">>, <<"/", "x">>>>,
             <<<<"/", "/", "x">>, <<"/", "x">>>>, <<<<"/", "x", "/">>, <<"/", "x">>>>,
             <<<<"/", "x", "/", "/", "x">>, <<"/", "x", "/", "/", "x">>>>,
             <<<<"/", "%2F", "x">>, <<"/", "x">>>>, <<<<"/", "%78">>, <<"/", "x">>>>,
             <<<<"/", "%FF">>, <<"/", "%fffd">>>>, <<<<"/", " ">>, <<"/", "%20">>>>,
             <<<<"/", "%3F">>, <<"/", "%3F">>>>, <<<<"/", "[">>, <<"/", "%5B">>>>,
             <<<<"/", "@", ":">>, <<"/", "@", ":">>>>}
UrlTails == {<<<<>>, <<>>>>, <<<<"?">>, <<>>>>, <<<<"?", "x">>, <<"x">>>>,
             <<<<"?", "/", "?">>, <<"/", "?">>>>, <<<<"#", "x">>, <<>>>>,
             <<<<"?", "x", "#", "?">>, <<"x">>>>, <<<<"?", Backslash, Quote>>, <<Quote>>>>}

UrlText_(scheme, user, h, p, t) ==
  <<Quote, scheme, "/", "/">> \o user \o h \o p \o t \o <<Quote>>

\* sure: the rewritten URL has to lead there.
UrlCases ==
  {c : c \in {[text |-> UrlText_(s[1], u, h[1], p[1], t[1]),
               sure |-> h[2] = "none" \/ (h[2] = "plain" /\ p[2] # <<"/">>),
               target |-> IF h[2] = "none" THEN NotRewritten
                          ELSE [ok |-> TRUE, scheme |-> s[2], host |-> h[1],
                                path |-> p[2], query |-> t[2]]] :
     s \in {<<"http:", "http">>, <<"https:", "https">>}, u \in {<<>>, <<"x", "@">>},
     h \in UrlHosts, p \in UrlPaths, t \in UrlTails}
  \cup {[text |-> UrlText_("http:", <<>>, <<"x">>, <<"/", "%">>, t[1]), sure |-> TRUE,
         target |-> NotRewritten] : t \in UrlTails}}

UrlTargets == {[text |-> c.text, target |-> c.target] : c \in UrlCases}

UrlTexts == {c.text : c \in UrlCases}
UnsureTexts == {c.text : c \in {d \in UrlCases : ~d.sure}}

AllTexts ==
  {t : t \in {d.text : d \in Docs} \cup TokenTexts \cup NumberTexts
             \cup StringTexts \cup UrlTexts}

-----------------------------------------------------------------------------
(* Properties *)

GoodDocs == {d \in Docs : d.depth <= MaxDepth}

GoodDocTexts == {d.text : d \in GoodDocs}

Findings ==
  {f : f \in {[text |-> d.text, found |-> d.found] : d \in GoodDocs}
             \cup {[text |-> n, found |-> <<>>] : n \in Numerals}
             \cup StringDocs}

GoodTexts == {t : t \in {f.text : f \in Findings} \cup UrlTexts}

\* The scanner accepts a text exactly when it is JSON nested no deeper than
\* MAX_DEPTH, signs in \u escapes apart, and it finds the URLs in it, each with
\* its span, its path and its decoded value, and no key (scan, Scanner).
ScanExact ==
  /\ pc = "failed" => text \notin GoodTexts
  /\ pc = "accepted" /\ text \notin SignedEscapes =>
       /\ text \in GoodTexts
       /\ text \notin UrlTexts => [text |-> text, found |-> found] \in Findings

Outputs == {[text |-> d.text, signed |-> s, out |-> d.out[s]] : d \in GoodDocs, s \in BOOLEAN}

\* The client receives the document with every URL value replaced in its place
\* and nothing else changed, and a body that is no such document, signs in \u
\* escapes apart, as it is (rewrite_playback_info).
OutputExact ==
  pc = "written" /\ text \notin UrlTexts \cup SignedEscapes =>
    IF text \in GoodDocTexts
      THEN [text |-> text, signed |-> signed, out |-> buf] \in Outputs
      ELSE text \notin GoodTexts => buf = text

\* A client asks the proxy for the rewritten URL.
Fetched ==
  IF events = <<>> THEN NotRewritten
  ELSE LET r == events[1].url
       IN  RouteRequest(r.path, r.query, r.sig, signed, hosts)

\* A rewritten URL leads to the scheme, host, path and query it was made from
\* and to nothing else, however the parts of the URL look: the segments joined
\* by rewrite_url are the ones proxy_resource splits off again.  It is sure to
\* lead there when it has a path and its host needs no escape.
RoundTrip ==
  pc = "written" /\ text \in UrlTexts =>
    \/ [text |-> text, target |-> Fetched] \in UrlTargets
    \/ text \in UnsureTexts /\ ~Fetched.ok

-----------------------------------------------------------------------------
(* Statements of the documentation. *)

\* rewrite.rs: scan "Validates `text` as JSON" and "Returns `None` for invalid
\* JSON".
ValidatedJson == pc = "accepted" => text \in GoodTexts

\* README: "Hosts discovered from rewritten PlaybackInfo responses are allowed
\* automatically": a request for the rewritten URL is not answered 403.
DiscoveredAllowed == pc = "written" => Fetched # Refused(403)

\* README: public_url is "The URL Emby clients use to reach proxemby", and
\* "rewritten media/resource URLs use this base URL": a request for one of them
\* is taken as a resource, not sent to the media server.
BaseServed == pc = "written" => Fetched # SentUpstream
=============================================================================
