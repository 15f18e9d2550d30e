------------------------------ MODULE JsonScan ------------------------------
(***************************************************************************)
(* The JSON scanner of the PlaybackInfo rewriter (rewrite.rs): one pass    *)
(* over the text that validates it and finds every string value that is an *)
(* absolute URL.  One action per iteration of its loops.                   *)
(*                                                                         *)
(* A text is a sequence of symbols.  Most are a character; "true" stands   *)
(* for a whole literal, "http:" and "https:" for the start of a URL, "ctl" *)
(* for a control character, "chr" for any other character, "astral" for    *)
(* one that takes a surrogate pair, "fffd" for the replacement character.  *)
(* Positions count from 1.                                                 *)
(***************************************************************************)
EXTENDS Integers, Sequences

CONSTANTS
  Symbols,    \* of the texts and of what strings decode to
  Texts,      \* the bodies scanned in this instance
  MaxDepth    \* MAX_DEPTH

Quote == "\""
Backslash == "\\"
Space == {" ", "\t"}
Control == {"\t", "ctl"}
Digits == {"0", "1", "2", "8"}
HexValue == [c \in {"0", "1", "2", "8", "C", "D", "e", "F"} |->
               CASE c = "0" -> 0 [] c = "1" -> 1 [] c = "2" -> 2 [] c = "8" -> 8
                 [] c = "C" -> 12 [] c = "D" -> 13 [] c = "e" -> 14 [] c = "F" -> 15]

\* What escapes decode to.
Decoded == {"fffd", "astral", "/", Quote, " ", "ctl", "chr"}

ASSUME ScanAssumption ==
  /\ Decoded \subseteq Symbols
  /\ Texts \subseteq Seq(Symbols)
  /\ MaxDepth \in Nat

VARIABLES
  text,     \* the body
  pos,      \* position of the next symbol to read
  pc,       \* what the scanner expects there
  frames,   \* the path to the current value, one segment per open container
  role,     \* whether the current string is a key or a value
  start,    \* opening quote of the current string
  out,      \* its content so far, decoded
  found     \* URL strings found so far

scanVars == <<text, pos, pc, frames, role, start, out, found>>

Key(s) == [kind |-> "key", name |-> s, index |-> 0]
IndexFromMinusOne(i) == [kind |-> "index", name |-> <<>>, index |-> i - 1]

Index(i) == [kind |-> "index", name |-> <<>>, index |-> i]

At(i) == IF i \in 1..Len(text) THEN text[i] ELSE "eof"

Move(p, next) == pos' = p /\ pc' = next

ScanInit ==
  /\ text \in Texts
  /\ pos = 1
  /\ pc = "value"
  /\ frames = <<>>
  /\ role = "value"
  /\ start = 1
  /\ out = <<>>
  /\ found = <<>>

-----------------------------------------------------------------------------
(* Values and containers. *)

TooDeepByOne == Len(frames) > MaxDepth + 1

\* value() gives up before it looks at a value nested too deep.
TooDeep == Len(frames) > MaxDepth

\* skip_ws, one symbol at a time.
SkipSpace ==
  /\ pc \in {"value", "object", "array", "key", "colon", "after"}
  /\ ~(pc = "value" /\ TooDeep)
  /\ At(pos) \in Space
  /\ Move(pos + 1, pc)
  /\ UNCHANGED <<text, frames, role, start, out, found>>

\* value: anything but a string.  A number is read from its sign on.
BeginValue ==
  /\ pc = "value"
  /\ ~TooDeep
  /\ \/ At(pos) = "{" /\ Move(pos + 1, "object")
     \/ At(pos) = "[" /\ Move(pos + 1, "array")
     \/ At(pos) = "true" /\ Move(pos + 1, "after")
     \/ At(pos) = "-" /\ Move(pos + 1, "number")
     \/ At(pos) \in Digits /\ Move(pos, "number")
  /\ UNCHANGED <<text, frames, role, start, out, found>>

\* string, from value or for a key of object.
BeginString ==
  /\ \/ pc = "value" /\ ~TooDeep /\ role' = "value"
     \/ pc \in {"object", "key"} /\ role' = "key"
  /\ At(pos) = Quote
  /\ Move(pos + 1, "string")
  /\ start' = pos
  /\ out' = <<>>
  /\ UNCHANGED <<text, frames, found>>

\* object: the key is pushed once its colon is read.
Colon ==
  /\ pc = "colon"
  /\ At(pos) = ":"
  /\ Move(pos + 1, "value")
  /\ frames' = Append(frames, Key(out))
  /\ UNCHANGED <<text, role, start, out, found>>

\* object, array: closed right after it was opened.
EmptyContainer ==
  /\ \/ pc = "object" /\ At(pos) = "}"
     \/ pc = "array" /\ At(pos) = "]"
  /\ Move(pos + 1, "after")
  /\ UNCHANGED <<text, frames, role, start, out, found>>

FirstElement ==
  /\ pc = "array"
  /\ At(pos) \notin Space \cup {"]"}
  /\ Move(pos, "value")
  /\ frames' = Append(frames, Index(0))
  /\ UNCHANGED <<text, role, start, out, found>>

\* object, array after a value: the segment is popped, a comma goes on to the
\* next key or pushes the next index.
Comma ==
  /\ pc = "after"
  /\ frames # <<>>
  /\ At(pos) = ","
  /\ LET top == frames[Len(frames)]
         popped == SubSeq(frames, 1, Len(frames) - 1)
     IN  \/ top.kind = "key" /\ Move(pos + 1, "key") /\ frames' = popped
         \/ /\ top.kind = "index"
            /\ Move(pos + 1, "value")
            /\ frames' = Append(popped, Index(top.index + 1))
  /\ UNCHANGED <<text, role, start, out, found>>

Closer(frame) == IF frame.kind = "key" THEN "}" ELSE "]"

CloseContainer ==
  /\ pc = "after"
  /\ frames # <<>>
  /\ At(pos) = Closer(frames[Len(frames)])
  /\ Move(pos + 1, "after")
  /\ frames' = SubSeq(frames, 1, Len(frames) - 1)
  /\ UNCHANGED <<text, role, start, out, found>>

\* scan: only whitespace follows the top-level value.
Accept ==
  /\ pc = "after"
  /\ frames = <<>>
  /\ pos = Len(text) + 1
  /\ Move(pos, "accepted")
  /\ UNCHANGED <<text, frames, role, start, out, found>>

-----------------------------------------------------------------------------
(* Numbers: what follows a symbol of a number, "after" when it has ended
   before that symbol. *)

NumberNext(state, c) ==
  CASE state = "number" /\ c = "0" -> "zero"
    [] state \in {"number", "int"} /\ c \in Digits -> "int"
    [] state \in {"zero", "int"} /\ c = "." -> "dot"
    [] state \in {"dot", "frac"} /\ c \in Digits -> "frac"
    [] state \in {"zero", "int", "frac"} /\ c = "e" -> "exp"
    [] state = "exp" /\ c \in {"+", "-"} -> "sign"
    [] state \in {"exp", "sign", "expint"} /\ c \in Digits -> "expint"
    [] state \in {"zero", "int", "frac", "expint"} -> "after"
    [] OTHER -> "failed"

NumberStates == {"number", "zero", "int", "dot", "frac", "exp", "sign", "expint"}

Number ==
  /\ pc \in NumberStates
  /\ LET next == NumberNext(pc, At(pos))
     IN  Move(IF next \in {"after", "failed"} THEN pos ELSE pos + 1, next)
  /\ UNCHANGED <<text, frames, role, start, out, found>>

-----------------------------------------------------------------------------
(* Strings. *)

Plain ==
  /\ pc = "string"
  /\ At(pos) \notin Control \cup {Quote, Backslash, "eof"}
  /\ Move(pos + 1, "string")
  /\ out' = Append(out, At(pos))
  /\ UNCHANGED <<text, frames, role, start, found>>

IsUrl(s) ==
  /\ Len(s) >= 3
  /\ s[1] \in {"http:", "https:"}
  /\ s[2] = "/"
  /\ s[3] = "/"

EndStringInsideQuote ==
  /\ pc = "string"
  /\ At(pos) = Quote
  /\ Move(pos + 1, IF role = "key" THEN "colon" ELSE "after")
  /\ found' = IF role = "value" /\ IsUrl(out)
                THEN Append(found, [start |-> start, end |-> pos,
                                    path |-> frames, value |-> out])
                ELSE found
  /\ UNCHANGED <<text, frames, role, start, out>>

\* The closing quote; a value that is a URL is recorded with its span, the
\* quotes included, and the path to it.
EndString ==
  /\ pc = "string"
  /\ At(pos) = Quote
  /\ Move(pos + 1, IF role = "key" THEN "colon" ELSE "after")
  /\ found' = IF role = "value" /\ IsUrl(out)
                THEN Append(found, [start |-> start, end |-> pos + 1,
                                    path |-> frames, value |-> out])
                ELSE found
  /\ UNCHANGED <<text, frames, role, start, out>>

BeginEscape ==
  /\ pc = "string"
  /\ At(pos) = Backslash
  /\ Move(pos + 1, "escape")
  /\ UNCHANGED <<text, frames, role, start, out, found>>

SimpleEscapesAtEnd == {Quote, Backslash, "/", "n", "eof"}

SimpleEscapes == {Quote, Backslash, "/", "n"}

SimpleEscapeStaying ==
  /\ pc = "escape"
  /\ At(pos) \in SimpleEscapes
  /\ Move(pos, "string")
  /\ out' = Append(out, IF At(pos) = "n" THEN "ctl" ELSE At(pos))
  /\ UNCHANGED <<text, frames, role, start, found>>

\* "n" stands for the five escapes of control characters.
SimpleEscape ==
  /\ pc = "escape"
  /\ At(pos) \in SimpleEscapes
  /\ Move(pos + 1, "string")
  /\ out' = Append(out, IF At(pos) = "n" THEN "ctl" ELSE At(pos))
  /\ UNCHANGED <<text, frames, role, start, found>>

\* hex4 at position i: four hexadecimal digits, the first of which may be a
\* plus sign, as u32::from_str_radix accepts one.
IsHex4(i) ==
  /\ i + 3 <= Len(text)
  /\ \A k \in i..i + 3 : text[k] \in DOMAIN HexValue \/ (k = i /\ text[k] = "+")

HexDigit(c) == IF c = "+" THEN 0 ELSE HexValue[c]

Hex4(i) == 4096 * HexDigit(text[i]) + 256 * HexDigit(text[i + 1])
             + 16 * HexDigit(text[i + 2]) + HexDigit(text[i + 3])

HighSurrogates == 55296..56319
LowSurrogates == 56320..57343

\* char::from_u32, with the replacement character for a surrogate.
Chr(v) ==
  CASE v \in HighSurrogates \cup LowSurrogates -> "fffd"
    [] v = 47 -> "/"
    [] v = 34 -> Quote
    [] v = 32 -> " "
    [] v < 32 \/ v = 127 -> "ctl"
    [] OTHER -> "chr"

\* A high surrogate takes the \u escape that follows it with it.
TakesNext(i) ==
  /\ Hex4(i) \in HighSurrogates
  /\ At(i + 4) = Backslash
  /\ At(i + 5) = "u"

UnicodeEscape ==
  /\ pc = "escape"
  /\ At(pos) = "u"
  /\ IsHex4(pos + 1)
  /\ \/ /\ ~TakesNext(pos + 1)
        /\ Move(pos + 5, "string")
        /\ out' = Append(out, Chr(Hex4(pos + 1)))
     \/ /\ TakesNext(pos + 1)
        /\ IsHex4(pos + 7)
        /\ Move(pos + 11, "string")
        /\ out' = Append(out, IF Hex4(pos + 7) \in LowSurrogates THEN "astral" ELSE "fffd")
  /\ UNCHANGED <<text, frames, role, start, found>>

-----------------------------------------------------------------------------
\* Every early return of None, but for those of number.
Rejected ==
  \/ pc = "value" /\ TooDeep
  \/ pc = "value" /\ At(pos) \notin Space \cup Digits \cup {"{", "[", Quote, "true", "-"}
  \/ pc = "object" /\ At(pos) \notin Space \cup {Quote, "}"}
  \/ pc = "key" /\ At(pos) \notin Space \cup {Quote}
  \/ pc = "colon" /\ At(pos) \notin Space \cup {":"}
  \/ /\ pc = "after"
     /\ At(pos) \notin IF frames = <<>> THEN Space \cup {"eof"}
                       ELSE Space \cup {",", Closer(frames[Len(frames)])}
  \/ pc = "string" /\ At(pos) \in Control \cup {"eof"}
  \/ pc = "escape" /\ At(pos) \notin SimpleEscapes \cup {"u"}
  \/ pc = "escape" /\ At(pos) = "u" /\ ~IsHex4(pos + 1)
  \/ pc = "escape" /\ At(pos) = "u" /\ IsHex4(pos + 1) /\ TakesNext(pos + 1)
     /\ ~IsHex4(pos + 7)

Reject ==
  /\ Rejected
  /\ Move(pos, "failed")
  /\ UNCHANGED <<text, frames, role, start, out, found>>

Scan ==
  \/ SkipSpace \/ BeginValue \/ BeginString \/ Colon
  \/ EmptyContainer \/ FirstElement \/ Comma \/ CloseContainer
  \/ Number \/ Plain \/ EndString \/ BeginEscape \/ SimpleEscape \/ UnicodeEscape
  \/ Accept \/ Reject

ScanStates == {"value", "object", "array", "key", "colon", "after", "string",
               "escape"} \cup NumberStates
=============================================================================
