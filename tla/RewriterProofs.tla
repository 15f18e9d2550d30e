--------------------------- MODULE RewriterProofs ---------------------------
(***************************************************************************)
(* The scanner stays inside the text and the splice takes valid slices of  *)
(* it, for every set of texts and every nesting limit, and every step of   *)
(* the rewriter moves on.                                                  *)
(***************************************************************************)
EXTENDS Rewriter, SequenceTheorems, TLAPS

\* The string being read began at a quote, behind every string found before.
OpenString ==
  pc \in {"string", "escape"} =>
    /\ start < pos
    /\ text[start] = Quote
    /\ \A i \in 1..Len(found) : found[i].end <= start

\* The splice has not begun before the scan is over.
SpliceWaits ==
  /\ pc \in ScanStates \cup {"failed"} => item = 1 /\ last = 1
  /\ \A i \in 1..Len(found) : found[i].start >= 1

\* The inductive invariant.
SpliceInv == TypeOK /\ InBounds /\ SpliceSafe /\ OpenString /\ SpliceWaits

-----------------------------------------------------------------------------
\* A symbol other than "eof" lies in the text.
LEMMA AtInText ==
  ASSUME TypeOK, At(pos) # "eof"
  PROVE  pos \in 1..Len(text) /\ At(pos) = text[pos] /\ At(pos) \in Symbols
<1>1. pos \in 1..Len(text)
  BY DEF TypeOK, At
<1> QED  BY <1>1, ElementOfSeq DEF TypeOK, At

\* What Front of the path is.
LEMMA PoppedFrames ==
  ASSUME TypeOK, frames # <<>>
  PROVE  /\ SubSeq(frames, 1, Len(frames) - 1) \in Seq(Frame)
         /\ frames[Len(frames)] \in Frame
<1>1. Len(frames) \in Nat \ {0} /\ \A i \in 1..Len(frames) : frames[i] \in Frame
  BY EmptySeq, LenProperties DEF TypeOK
<1>2. \A i \in 1..Len(frames) - 1 : frames[i] \in Frame
  BY <1>1
<1>3. SubSeq(frames, 1, Len(frames) - 1) \in Seq(Frame)
  BY <1>1, <1>2, SubSeqProperties
<1> QED  BY <1>1, <1>3

\* What the scanner pushes on the path are frames.
LEMMA FramesMade ==
  ASSUME NEW s \in Seq(Symbols), NEW i \in Nat
  PROVE  Key(s) \in Frame /\ Index(i) \in Frame /\ Index(0) \in Frame
BY EmptySeq DEF Key, Index, Frame

\* A decoded string stays a sequence of symbols as it grows.
LEMMA AppendSymbol ==
  ASSUME NEW s \in Seq(Symbols), NEW c \in Symbols
  PROVE  Append(s, c) \in Seq(Symbols)
BY AppendProperties

\* Every escape decodes to a symbol, a lone surrogate too.
LEMMA ChrSymbol ==
  ASSUME NEW v
  PROVE  Chr(v) \in Symbols
<1>1. Chr(v) \in {"fffd", "/", Quote, " ", "ctl", "chr"}
  BY Zenon DEF Chr
<1> QED  BY <1>1, ScanAssumption DEF Decoded

\* The ends of the strings found are natural numbers.
LEMMA FoundTypes ==
  ASSUME TypeOK
  PROVE  /\ Len(found) \in Nat
         /\ \A i \in 1..Len(found) : found[i].start \in Nat /\ found[i].end \in Nat
<1>1. \A i \in 1..Len(found) : found[i] \in FoundString
  BY ElementOfSeq DEF TypeOK
<1>2. \A f \in FoundString : f.start \in Nat /\ f.end \in Nat
  BY DEF FoundString
<1> QED  BY <1>1, <1>2 DEF TypeOK

-----------------------------------------------------------------------------
\* A scanner at the start of its text.
LEMMA InitInv == Init => SpliceInv
<1> SUFFICES ASSUME Init PROVE SpliceInv
  OBVIOUS
<1>1. TypeOK
  BY ScanAssumption, RewriterAssumption, EmptySeq
     DEF Init, ScanInit, TypeOK, ScanStates
<1>2. Len(text) \in Nat
  BY <1>1 DEF TypeOK
<1>3. found = <<>> /\ pos = 1 /\ pc = "value" /\ item = 1 /\ last = 1
  BY DEF Init, ScanInit
<1> QED
  BY <1>1, <1>2, <1>3 DEF SpliceInv, InBounds, SpliceSafe, OpenString, SpliceWaits

\* A step of the scanner that only moves, on the path or not, keeps what is
\* known of the strings found, whether or not it begins a string.
LEMMA MoveInv ==
  ASSUME SpliceInv,
         pos' \in Nat, pos <= pos', pos' <= Len(text) + 1,
         pc \in ScanStates,
         pc' \in (ScanStates \ {"string", "escape"}) \cup {"accepted", "failed"},
         frames' \in Seq(Frame),
         UNCHANGED <<text, role, start, out, found, spliceVars>>
  PROVE  SpliceInv'
<1> USE DEF SpliceInv, spliceVars
<1>1. TypeOK'
  BY DEF TypeOK
<1>2. Len(text) \in Nat /\ Len(found) \in Nat /\ pos \in Nat /\ item = 1 /\ last = 1
  BY DEF TypeOK, SpliceWaits
<1>3. \A i \in 1..Len(found) : found[i].end \in Nat /\ found[i].start \in Nat
  BY FoundTypes
<1>4. SpliceSafe'
  <2>1. found' = found /\ text' = text /\ item' = 1 /\ last' = 1
    BY <1>2
  <2>2. \A i \in 1..Len(found) :
          /\ found[i].start < found[i].end
          /\ found[i].end <= pos
          /\ text[found[i].start] = Quote
          /\ text[found[i].end - 1] = Quote
    BY DEF SpliceSafe
  <2>3. \A i \in 1..Len(found) : found[i].end <= pos'
    BY <1>2, <1>3, <2>2
  <2>4. \A i, j \in 1..Len(found) : i < j => found[i].end <= found[j].start
    BY DEF SpliceSafe
  <2>5. \A i \in 1..Len(found) : 1 <= found[i].start
    BY <1>3 DEF SpliceWaits
  <2> QED  BY <1>2, <2>1, <2>2, <2>3, <2>4, <2>5 DEF SpliceSafe
<1>5. SpliceWaits' /\ OpenString' /\ InBounds'
  BY <1>2 DEF SpliceWaits, OpenString, InBounds, ScanStates, NumberStates
<1> QED  BY <1>1, <1>4, <1>5

\* A step that goes on in a string, or begins one.
LEMMA StringInv ==
  ASSUME SpliceInv,
         pos' \in Nat, pos < pos', pos' <= Len(text) + 1,
         pc \in ScanStates,
         pc' \in {"string", "escape"},
         out' \in Seq(Symbols),
         role' \in {"key", "value"},
         \/ pc \in {"string", "escape"} /\ start' = start
         \/ start' = pos /\ text[pos] = Quote,
         UNCHANGED <<text, frames, found, spliceVars>>
  PROVE  SpliceInv'
<1> USE DEF SpliceInv, spliceVars
<1>1. Len(text) \in Nat /\ Len(found) \in Nat /\ pos \in Nat \ {0} /\ item = 1 /\ last = 1
  BY DEF TypeOK, SpliceWaits
<1>2. found' = found /\ text' = text /\ item' = 1 /\ last' = 1 /\ signed' = signed
  BY <1>1
<1>3. start \in Nat \ {0}
  BY DEF TypeOK
<1>4. \A i \in 1..Len(found) :
        /\ found[i].start < found[i].end
        /\ found[i].end <= pos
        /\ text[found[i].start] = Quote
        /\ text[found[i].end - 1] = Quote
  BY DEF SpliceSafe
<1>5. \A i \in 1..Len(found) : found[i].end \in Nat
  BY FoundTypes
<1>6. TypeOK'
  BY <1>1, <1>2, <1>3 DEF TypeOK, ScanStates
<1>7. SpliceSafe'
  BY <1>1, <1>2, <1>4, <1>5 DEF SpliceSafe
<1>8. OpenString'
  BY <1>1, <1>2, <1>3, <1>4, <1>5 DEF OpenString
<1>9. SpliceWaits' /\ InBounds'
  BY <1>1, <1>2 DEF SpliceWaits, InBounds
<1> QED  BY <1>6, <1>7, <1>8, <1>9

\* The end of a string: a URL joins the strings found, behind all of them.
LEMMA EndStringInv ==
  ASSUME SpliceInv, EndString, UNCHANGED spliceVars
  PROVE  SpliceInv'
<1> USE DEF SpliceInv, spliceVars
<1>1. pos \in 1..Len(text) /\ text[pos] = Quote
  BY AtInText DEF EndString, Quote
<1>2. /\ Len(text) \in Nat /\ Len(found) \in Nat /\ pos \in Nat \ {0} /\ start \in Nat \ {0}
      /\ item = 1 /\ last = 1 /\ pc = "string"
  BY DEF TypeOK, SpliceWaits, EndString, ScanStates
<1>3. /\ pos' = pos + 1 /\ pc' \in {"colon", "after"}
      /\ UNCHANGED <<text, frames, role, start, out>>
      /\ item' = 1 /\ last' = 1 /\ signed' = signed
  BY <1>2 DEF EndString, Move
<1>4. start < pos /\ text[start] = Quote /\ \A i \in 1..Len(found) : found[i].end <= start
  BY <1>2 DEF OpenString
<1>5. \A i \in 1..Len(found) : found[i].end \in Nat /\ found[i].start \in Nat
  BY FoundTypes
<1>6. CASE found' = found
  <2>1. SpliceSafe'
    BY <1>2, <1>3, <1>5, <1>6 DEF SpliceSafe
  <2> QED
    BY <1>1, <1>2, <1>3, <1>6, <2>1
       DEF TypeOK, InBounds, OpenString, SpliceWaits, ScanStates
<1>7. CASE found' # found
  <2> DEFINE new == [start |-> start, end |-> pos + 1, path |-> frames, value |-> out]
  <2>1. found' = Append(found, new)
    BY <1>7 DEF EndString
  <2>2. new \in FoundString /\ new.start = start /\ new.end = pos + 1
    BY <1>2 DEF TypeOK, FoundString
  <2> HIDE DEF new
  <2>3. /\ found' \in Seq(FoundString)
        /\ Len(found') = Len(found) + 1
        /\ \A i \in 1..Len(found) : found'[i] = found[i]
        /\ found'[Len(found) + 1] = new
    BY <2>1, <2>2 DEF TypeOK
  <2>4. \A i \in 1..Len(found') :
          \/ i \in 1..Len(found) /\ found'[i] = found[i]
          \/ i = Len(found) + 1 /\ found'[i].start = start /\ found'[i].end = pos + 1
    BY <1>2, <2>2, <2>3
  <2>5. TypeOK' /\ InBounds' /\ OpenString'
    BY <1>1, <1>2, <1>3, <2>3 DEF TypeOK, InBounds, OpenString, ScanStates
  <2>6. \A i \in 1..Len(found') :
          /\ found'[i].start < found'[i].end
          /\ found'[i].end <= pos'
          /\ text'[found'[i].start] = Quote
          /\ text'[found'[i].end - 1] = Quote
    <3> SUFFICES ASSUME NEW i \in 1..Len(found')
                 PROVE  /\ found'[i].start < found'[i].end
                        /\ found'[i].end <= pos'
                        /\ text'[found'[i].start] = Quote
                        /\ text'[found'[i].end - 1] = Quote
      OBVIOUS
    <3>1. CASE i \in 1..Len(found) /\ found'[i] = found[i]
      BY <1>2, <1>3, <1>5, <3>1 DEF SpliceSafe
    <3>2. CASE i = Len(found) + 1 /\ found'[i].start = start /\ found'[i].end = pos + 1
      <4>1. (pos + 1) - 1 = pos
        BY <1>2
      <4> QED  BY <1>1, <1>2, <1>3, <1>4, <3>2, <4>1
    <3> QED  BY <2>4, <3>1, <3>2
  <2>7. \A i, j \in 1..Len(found') : i < j => found'[i].end <= found'[j].start
    BY <1>2, <1>4, <1>5, <2>3, <2>4 DEF SpliceSafe
  <2>8. \A i \in 1..Len(found') : found'[i].start >= 1
    BY <1>2, <2>4 DEF SpliceWaits
  <2> QED
    BY <1>3, <2>5, <2>6, <2>7, <2>8 DEF SpliceSafe, SpliceWaits
<1> QED  BY <1>6, <1>7

-----------------------------------------------------------------------------
\* Each step of the scanner: it moves, goes on in a string, or ends one.
LEMMA ScanInv == SpliceInv /\ ScanStep => SpliceInv'
<1> SUFFICES ASSUME SpliceInv, Scan, UNCHANGED spliceVars PROVE SpliceInv'
  BY DEF ScanStep
<1>1. /\ TypeOK /\ Len(text) \in Nat /\ pos \in Nat \ {0} /\ pos <= Len(text) + 1
      /\ frames \in Seq(Frame) /\ out \in Seq(Symbols)
  BY DEF SpliceInv, TypeOK, InBounds
<1>2. At(pos) # "eof" => pos \in 1..Len(text) /\ At(pos) = text[pos] /\ At(pos) \in Symbols
  BY <1>1, AtInText
<1>3. CASE SkipSpace
  <2>1. At(pos) # "eof" /\ pos' = pos + 1 /\ pc' = pc
    BY <1>3 DEF SkipSpace, Move, Space
  <2>2. /\ pc \in ScanStates \ {"string", "escape"}
        /\ UNCHANGED <<text, frames, role, start, out, found>>
    BY <1>3 DEF SkipSpace, ScanStates
  <2> QED  BY <1>1, <1>2, <2>1, <2>2, MoveInv
<1>4. CASE BeginValue
  <2>1. At(pos) # "eof" /\ pos' \in {pos, pos + 1}
    BY <1>4 DEF BeginValue, Move, Digits
  <2>2. pc' \in ScanStates \ {"string", "escape"}
    BY <1>4 DEF BeginValue, Move, ScanStates, NumberStates
  <2>3. pc \in ScanStates /\ UNCHANGED <<text, frames, role, start, out, found>>
    BY <1>4 DEF BeginValue, ScanStates
  <2> QED  BY <1>1, <1>2, <2>1, <2>2, <2>3, MoveInv
<1>5. CASE BeginString
  <2>1. At(pos) = Quote /\ Quote # "eof" /\ pos' = pos + 1 /\ pc' = "string" /\ start' = pos
    BY <1>5 DEF BeginString, Move, Quote
  <2>2. pc \in ScanStates /\ role' \in {"key", "value"} /\ out' = <<>>
    BY <1>5 DEF BeginString, ScanStates
  <2>3. out' \in Seq(Symbols) /\ UNCHANGED <<text, frames, found>>
    BY <1>5, <2>2, EmptySeq DEF BeginString
  <2> QED  BY <1>1, <1>2, <2>1, <2>2, <2>3, StringInv
<1>6. CASE Colon
  BY <1>1, <1>2, <1>6, MoveInv, FramesMade DEF Colon, Move, ScanStates
<1>7. CASE EmptyContainer
  <2>1. At(pos) # "eof" /\ pos' = pos + 1 /\ pc' = "after"
    BY <1>7 DEF EmptyContainer, Move
  <2>2. pc \in ScanStates /\ UNCHANGED <<text, frames, role, start, out, found>>
    BY <1>7 DEF EmptyContainer, ScanStates
  <2> QED  BY <1>1, <1>2, <2>1, <2>2, MoveInv DEF ScanStates
<1>8. CASE FirstElement
  BY <1>1, <1>8, MoveInv, FramesMade DEF FirstElement, Move, ScanStates
<1>9. CASE Comma
  <2>1. frames' \in Seq(Frame)
    <3> DEFINE top == frames[Len(frames)]
               popped == SubSeq(frames, 1, Len(frames) - 1)
    <3>1. popped \in Seq(Frame) /\ top \in Frame
      BY <1>1, <1>9, PoppedFrames DEF Comma
    <3>2. top.index + 1 \in Nat
      BY <3>1 DEF Frame
    <3>3. Index(top.index + 1) \in Frame
      BY <3>2, EmptySeq, FramesMade
    <3>4. frames' = popped \/ frames' = Append(popped, Index(top.index + 1))
      BY <1>9 DEF Comma
    <3> HIDE DEF top, popped
    <3> QED  BY <3>1, <3>3, <3>4
  <2>2. At(pos) # "eof" /\ pos' = pos + 1 /\ pc' \in {"key", "value"}
    BY <1>9 DEF Comma, Move
  <2>3. pc \in ScanStates /\ UNCHANGED <<text, role, start, out, found>>
    BY <1>9 DEF Comma, ScanStates
  <2> QED  BY <1>1, <1>2, <2>1, <2>2, <2>3, MoveInv DEF ScanStates
<1>10. CASE CloseContainer
  <2>1. frames' \in Seq(Frame)
    BY <1>1, <1>10, PoppedFrames DEF CloseContainer
  <2>2. At(pos) # "eof"
    BY <1>10 DEF CloseContainer, Closer
  <2> QED  BY <1>1, <1>2, <1>10, <2>1, <2>2, MoveInv DEF CloseContainer, Move, ScanStates
<1>11. CASE Accept
  BY <1>1, <1>11, MoveInv DEF Accept, Move, ScanStates
<1>12. CASE Reject
  <2>1. pc \in ScanStates
    BY <1>12 DEF Reject, Rejected, ScanStates
  <2> QED  BY <1>1, <1>12, <2>1, MoveInv DEF Reject, Move
<1>13. CASE Number
  <2> DEFINE next == NumberNext(pc, At(pos))
  <2>1. next \in (NumberStates \ {"number"}) \cup {"after", "failed"}
    BY DEF NumberNext, NumberStates
  <2>2. next \notin {"after", "failed"} => At(pos) # "eof"
    BY DEF NumberNext, Digits
  <2>3. pc' = next /\ pos' = (IF next \in {"after", "failed"} THEN pos ELSE pos + 1)
    BY <1>13 DEF Number, Move
  <2>4. pc' \in (ScanStates \ {"string", "escape"}) \cup {"accepted", "failed"}
    BY <2>1, <2>3 DEF ScanStates, NumberStates
  <2>5. pc \in ScanStates /\ UNCHANGED <<text, frames, role, start, out, found>>
    BY <1>13 DEF Number, ScanStates
  <2> HIDE DEF next
  <2> QED  BY <1>1, <1>2, <2>2, <2>3, <2>4, <2>5, MoveInv
<1>14. CASE Plain
  BY <1>1, <1>2, <1>14, StringInv DEF Plain, Move, ScanStates, SpliceInv, TypeOK
<1>15. CASE EndString
  BY <1>15, EndStringInv
<1>16. CASE BeginEscape
  <2>1. At(pos) # "eof" /\ pos' = pos + 1 /\ pc' = "escape" /\ pc = "string"
    BY <1>16 DEF BeginEscape, Move, Backslash
  <2>2. UNCHANGED <<text, frames, role, start, out, found>> /\ role \in {"key", "value"}
    BY <1>1, <1>16 DEF BeginEscape, TypeOK
  <2> QED  BY <1>1, <1>2, <2>1, <2>2, StringInv DEF ScanStates
<1>17. CASE SimpleEscape
  <2>1. At(pos) # "eof" /\ pos' = pos + 1 /\ pc' = "string" /\ pc = "escape"
    BY <1>17 DEF SimpleEscape, SimpleEscapes, Quote, Backslash, Move
  <2>2. UNCHANGED <<text, frames, role, start, found>> /\ role \in {"key", "value"}
    BY <1>1, <1>17 DEF SimpleEscape, TypeOK
  <2>3. out' = Append(out, "ctl") \/ out' = Append(out, At(pos))
    BY <1>17 DEF SimpleEscape
  <2>4. out' \in Seq(Symbols)
    <3>1. "ctl" \in Symbols /\ At(pos) \in Symbols
      BY <1>2, <2>1, ScanAssumption DEF Decoded
    <3> QED  BY <1>1, <2>3, <3>1, AppendSymbol
  <2> QED  BY <1>1, <1>2, <2>1, <2>2, <2>4, StringInv DEF ScanStates
<1>18. CASE UnicodeEscape
  <2>1. pos' \in {pos + 5, pos + 11} /\ pc' = "string"
    BY <1>18 DEF UnicodeEscape, Move
  <2>2. pos' <= Len(text) + 1
    BY <1>1, <1>18 DEF UnicodeEscape, Move, IsHex4
  <2>3. out' \in Seq(Symbols)
    <3> DEFINE v == Hex4(pos + 1)
    <3>1. Chr(v) \in Symbols
      BY ChrSymbol
    <3>2. out' = Append(out, Chr(v)) \/ out' = Append(out, "astral") \/ out' = Append(out, "fffd")
      BY <1>18 DEF UnicodeEscape
    <3> HIDE DEF v
    <3>3. "astral" \in Symbols /\ "fffd" \in Symbols
      BY ScanAssumption DEF Decoded
    <3> QED  BY <1>1, <3>1, <3>2, <3>3, AppendSymbol
  <2> QED
    BY <1>1, <1>18, <2>1, <2>2, <2>3, StringInv
       DEF UnicodeEscape, ScanStates, SpliceInv, TypeOK
<1> QED
  BY <1>3, <1>4, <1>5, <1>6, <1>7, <1>8, <1>9, <1>10, <1>11, <1>12, <1>13, <1>14, <1>15,
     <1>16, <1>17, <1>18
     DEF Scan

\* The splice moves to the end of the string it replaced, which is not behind
\* the start of any string after it.
LEMMA SplicingInv ==
  ASSUME SpliceInv, Splice
  PROVE  SpliceInv'
<1> USE DEF SpliceInv
<1>1. /\ pc = "accepted" /\ item <= Len(found) /\ item' = item + 1
      /\ UNCHANGED <<text, pos, pc, frames, role, start, out, found, signed>>
      /\ last' = last \/ last' = found[item].end
  BY DEF Splice, scanVars
<1>2. /\ Len(text) \in Nat /\ Len(found) \in Nat /\ pos \in Nat \ {0} /\ item \in Nat \ {0}
      /\ last \in Nat \ {0} /\ pos <= Len(text) + 1
  BY DEF TypeOK, InBounds
<1>3. \A i \in 1..Len(found) : found[i].end \in Nat /\ found[i].start \in Nat
  BY FoundTypes
<1>4. item \in 1..Len(found)
  BY <1>1, <1>2
<1>5. /\ last <= Len(text) + 1
      /\ \A i \in item..Len(found) : last <= found[i].start
      /\ \A i, j \in 1..Len(found) : i < j => found[i].end <= found[j].start
      /\ found[item].start < found[item].end /\ found[item].end <= pos
  BY <1>1, <1>4 DEF SpliceSafe
<1>6. \A i \in item + 1..Len(found) :
        i \in item..Len(found) /\ i \in 1..Len(found) /\ item < i
  BY <1>2, <1>4
<1>7. /\ last' \in Nat \ {0}
      /\ last' <= Len(text) + 1
      /\ \A i \in item'..Len(found) : last' <= found[i].start
  <2>1. CASE last' = last
    BY <1>1, <1>2, <1>5, <1>6, <2>1
  <2>2. CASE last' = found[item].end
    BY <1>1, <1>2, <1>3, <1>4, <1>5, <1>6, <2>2
  <2> QED  BY <1>1, <2>1, <2>2
<1>8. TypeOK' /\ InBounds' /\ OpenString' /\ SpliceWaits'
  BY <1>1, <1>2, <1>7 DEF TypeOK, InBounds, OpenString, SpliceWaits, ScanStates, NumberStates
<1>9. SpliceSafe'
  BY <1>1, <1>7 DEF SpliceSafe
<1> QED  BY <1>8, <1>9

\* The last copy, of what follows the last string.
LEMMA FinishInv ==
  ASSUME SpliceInv, Finish
  PROVE  SpliceInv'
<1> USE DEF SpliceInv
<1>1. /\ pc \in {"accepted", "failed"} /\ pc' = "written"
      /\ UNCHANGED <<text, pos, frames, role, start, out, found, signed, item, last>>
  BY DEF Finish
<1>2. /\ Len(text) \in Nat /\ pc = "failed" => item = 1 /\ last = 1
  BY DEF TypeOK, SpliceWaits
<1>3. TypeOK' /\ InBounds' /\ OpenString' /\ SpliceWaits'
  BY <1>1 DEF TypeOK, InBounds, OpenString, SpliceWaits, ScanStates, NumberStates
<1>4. SpliceSafe'
  <2>1. CASE pc = "accepted"
    BY <1>1, <2>1 DEF SpliceSafe
  <2>2. CASE pc = "failed"
    <3>1. \A i \in 1..Len(found) : 1 <= found[i].start
      BY FoundTypes DEF SpliceWaits
    <3> QED  BY <1>1, <1>2, <2>2, <3>1 DEF SpliceSafe
  <2> QED  BY <1>1, <2>1, <2>2
<1> QED  BY <1>3, <1>4

\* The invariant is inductive.
LEMMA NextInv == SpliceInv /\ [Next]_rewriterVars => SpliceInv'
<1> SUFFICES ASSUME SpliceInv, [Next]_rewriterVars PROVE SpliceInv'
  OBVIOUS
<1>1. CASE ScanStep
  BY <1>1, ScanInv
<1>2. CASE Splice
  BY <1>2, SplicingInv
<1>3. CASE Finish
  BY <1>3, FinishInv
<1>4. CASE UNCHANGED rewriterVars
  BY <1>4 DEF rewriterVars, scanVars, spliceVars, SpliceInv, TypeOK, InBounds, SpliceSafe,
              OpenString, SpliceWaits
<1> QED  BY <1>1, <1>2, <1>3, <1>4 DEF Next, Done

\* The three of them, with what they rest on, hold of every reachable state.
THEOREM Invariant == Spec => []SpliceInv
<1>1. Init => SpliceInv
  BY InitInv
<1>2. SpliceInv /\ [Next]_rewriterVars => SpliceInv'
  BY NextInv
<1> QED  BY <1>1, <1>2, PTL DEF Spec

\* Every variable of the rewriter keeps its type (Scanner).
THEOREM RewriterTypes == Spec => []TypeOK
<1>1. SpliceInv => TypeOK
  BY DEF SpliceInv
<1> QED  BY <1>1, Invariant, PTL

\* No text takes the scanner past its end (Scanner::string, hex4, number).
THEOREM ScanInBounds == Spec => []InBounds
<1>1. SpliceInv => InBounds
  BY DEF SpliceInv
<1> QED  BY <1>1, Invariant, PTL

\* No body makes rewrite_playback_info take a slice that does not exist.
THEOREM SplicesAreSafe == Spec => []SpliceSafe
<1>1. SpliceInv => SpliceSafe
  BY DEF SpliceInv
<1> QED  BY <1>1, Invariant, PTL

-----------------------------------------------------------------------------
\* What a step of the scanner that stays at its position does to its rank.
LEMMA ScanMovesOn ==
  ASSUME SpliceInv, Scan
  PROVE  MovesOn
<1>1. pos \in Nat \ {0} /\ pos + 1 > pos
  BY DEF SpliceInv, TypeOK
<1>2. CASE SkipSpace \/ BeginString \/ Colon \/ EmptyContainer \/ Comma \/ CloseContainer
             \/ Plain \/ EndString \/ BeginEscape \/ SimpleEscape
  <2>1. pos' = pos + 1
    BY <1>2 DEF SkipSpace, BeginString, Colon, EmptyContainer, Comma, CloseContainer, Plain,
                EndString, BeginEscape, SimpleEscape, Move
  <2> QED  BY <1>1, <2>1 DEF MovesOn
<1>3. CASE UnicodeEscape
  <2>1. pos' \in {pos + 5, pos + 11}
    BY <1>3 DEF UnicodeEscape, Move
  <2> QED  BY <1>1, <2>1 DEF MovesOn
<1>4. CASE FirstElement
  BY <1>1, <1>4 DEF FirstElement, Move, MovesOn, Rank
<1>5. CASE BeginValue
  <2>1. pos' = pos + 1 \/ (pos' = pos /\ pc = "value" /\ pc' = "number")
    BY <1>5 DEF BeginValue, Move
  <2> QED  BY <1>1, <2>1 DEF MovesOn, Rank
<1>6. CASE Number
  <2>1. pc \in NumberStates /\ (pos' = pos + 1 \/ (pos' = pos /\ pc' \in {"after", "failed"}))
    BY <1>6 DEF Number, Move
  <2>2. pc \in NumberStates => Rank(pc) < 4
    BY DEF NumberStates, Rank
  <2>3. pc' \in {"after", "failed"} => Rank(pc') >= 4
    BY DEF Rank
  <2>4. Rank(pc) \in Nat /\ Rank(pc') \in Nat
    BY DEF Rank
  <2> QED  BY <1>1, <2>1, <2>2, <2>3, <2>4 DEF MovesOn
<1>7. CASE Accept
  BY <1>1, <1>7 DEF Accept, Move, MovesOn, Rank
<1>8. CASE Reject
  <2>1. pos' = pos /\ pc' = "failed" /\ pc \in {"value", "object", "key", "colon", "after",
                                              "string", "escape"}
    BY <1>8 DEF Reject, Rejected, Move
  <2> QED  BY <1>1, <2>1 DEF MovesOn, Rank
<1> QED
  BY <1>2, <1>3, <1>4, <1>5, <1>6, <1>7, <1>8 DEF Scan

\* No body keeps the rewriter in a loop.
THEOREM RewriterAdvances == Spec => Advances
<1>1. SpliceInv /\ [Next]_rewriterVars => [MovesOn]_rewriterVars
  <2> SUFFICES ASSUME SpliceInv, Next PROVE MovesOn \/ UNCHANGED rewriterVars
    OBVIOUS
  <2>1. CASE ScanStep
    BY <2>1, ScanMovesOn DEF ScanStep
  <2>2. CASE Splice
    BY <2>2 DEF Splice, scanVars, MovesOn
  <2>3. CASE Finish
    BY <2>3 DEF Finish, MovesOn, Rank
  <2>4. CASE Done
    BY <2>4 DEF Done
  <2> QED  BY <2>1, <2>2, <2>3, <2>4 DEF Next
<1> QED  BY <1>1, Invariant, PTL DEF Spec, Advances
=============================================================================
