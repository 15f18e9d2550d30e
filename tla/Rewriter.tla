------------------------------ MODULE Rewriter ------------------------------
(***************************************************************************)
(* Rewriting one PlaybackInfo body (Rewriter::rewrite_playback_info in     *)
(* rewrite.rs): the scan, then one step per URL found, which copies the    *)
(* text before it and puts the rewritten URL in its place.  The hosts it   *)
(* allows are the registry that proxy_resource looks them up in.           *)
(***************************************************************************)
EXTENDS JsonScan, ResourceUrl
LOCAL INSTANCE SequencesExt

CONSTANT
  Signings    \* whether URLs are signed: allowed users are configured

ASSUME RewriterAssumption == Signings \subseteq BOOLEAN

VARIABLES
  signed,     \* of this route
  item,       \* next URL found
  last,       \* position after the last URL replaced
  buf,        \* the output so far; in the end what the client receives
  events,     \* the URLs rewritten
  hosts       \* hosts the registry has learnt from this body

spliceVars == <<signed, item, last, buf, events, hosts>>
rewriterVars == <<scanVars, spliceVars>>

Init ==
  /\ ScanInit
  /\ signed \in Signings
  /\ item = 1
  /\ last = 1
  /\ buf = <<>>
  /\ events = <<>>
  /\ hosts = {}

ScanStep == Scan /\ UNCHANGED spliceVars

\* The rewritten URL as text, with the route's public scheme and host.
UrlText(r) ==
  <<"http:", "/", "/", "proxemby">> \o r.path
    \o IF r.query = <<>> THEN <<>> ELSE <<"?">> \o r.query

\* serde_json::to_string.
Encode(s) ==
  <<Quote>>
    \o FlattenSeq([i \in 1..Len(s) |->
                     IF s[i] \in {Quote, Backslash} THEN <<Backslash, s[i]>> ELSE <<s[i]>>])
    \o <<Quote>>

\* The loop over the strings found; one that rewrite_url leaves alone stays
\* in the text.
Splice ==
  /\ pc = "accepted"
  /\ item <= Len(found)
  /\ item' = item + 1
  /\ \E f \in {found[item]} : \E r \in {RewriteUrl(f.value, signed)} :
         \/ ~r.ok /\ UNCHANGED <<last, buf, events, hosts>>
         \/ /\ r.ok
            /\ hosts' = hosts \cup {r.host}
            /\ buf' = buf \o SubSeq(text, last, f.start - 1) \o Encode(UrlText(r))
            /\ last' = f.end
            /\ events' = Append(events, [original |-> f.value, url |-> r])
  /\ UNCHANGED <<scanVars, signed>>

FinishWithoutRest ==
  /\ \/ pc = "accepted" /\ item > Len(found)
     \/ pc = "failed"
  /\ pc' = "written"
  /\ buf' = IF events = <<>> THEN text ELSE buf
  /\ UNCHANGED <<text, pos, frames, role, start, out, found,
                 signed, item, last, events, hosts>>

\* The rest of the text, or the body as it was when nothing was rewritten.
Finish ==
  /\ \/ pc = "accepted" /\ item > Len(found)
     \/ pc = "failed"
  /\ pc' = "written"
  /\ buf' = IF events = <<>> THEN text ELSE buf \o SubSeq(text, last, Len(text))
  /\ UNCHANGED <<text, pos, frames, role, start, out, found,
                 signed, item, last, events, hosts>>

\* The body is handed on; nothing more happens.
Done == pc = "written" /\ UNCHANGED rewriterVars

Next == ScanStep \/ Splice \/ Finish \/ Done

Spec == Init /\ [][Next]_rewriterVars

-----------------------------------------------------------------------------
(* Properties *)

Frame == [kind : {"key", "index"}, name : Seq(Symbols), index : Nat]
FoundString == [start : Nat, end : Nat, path : Seq(Frame), value : Seq(Symbols)]

\* The type of every variable (Scanner, FoundString, rewrite_playback_info).
TypeOK ==
  /\ text \in Seq(Symbols)
  /\ pos \in Nat \ {0}
  /\ pc \in ScanStates \cup {"accepted", "failed", "written"}
  /\ frames \in Seq(Frame)
  /\ role \in {"key", "value"}
  /\ start \in Nat \ {0}
  /\ out \in Seq(Symbols)
  /\ found \in Seq(FoundString)
  /\ signed \in BOOLEAN
  /\ item \in Nat \ {0}
  /\ last \in Nat \ {0}

\* The scanner never moves past the end of the text, whatever escape or number
\* the text ends in, so no index of it can be out of range (Scanner::string,
\* hex4, number).
InBounds == pos <= Len(text) + 1

\* Strings are found in order and apart, each between its quotes, and the
\* splice never moves back: body[last..item.start] and body[last..] are valid
\* slices (rewrite_playback_info).
SpliceSafe ==
  /\ \A i \in 1..Len(found) :
       /\ found[i].start < found[i].end
       /\ found[i].end <= pos
       /\ text[found[i].start] = Quote
       /\ text[found[i].end - 1] = Quote
  /\ \A i, j \in 1..Len(found) : i < j => found[i].end <= found[j].start
  /\ pc \in {"accepted", "written"} =>
       /\ last <= Len(text) + 1
       /\ \A i \in item..Len(found) : last <= found[i].start

\* How far a state is along at one position of the text.
Rank(state) ==
  CASE state = "array" -> 0
    [] state = "value" -> 1
    [] state = "number" -> 2
    [] state = "after" -> 4
    [] state \in {"accepted", "failed"} -> 5
    [] state = "written" -> 6
    [] OTHER -> 3

\* A step forward: in the text, at its position, or in the URLs found.
MovesOn ==
  \/ pos' > pos
  \/ pos' = pos /\ Rank(pc') > Rank(pc)
  \/ pos' = pos /\ pc' = pc /\ item' = item + 1 /\ item <= Len(found)

\* Every step moves on, and none of the three measures is without bound: no body
\* keeps the rewriter in a loop (the loops of Scanner and of
\* rewrite_playback_info).
Advances == [][MovesOn]_rewriterVars
=============================================================================
