----------------------------- MODULE Characters -----------------------------
(***************************************************************************)
(* The bytes the HTTP parsers tell apart.  A printable character stands   *)
(* for itself; control characters no grammar distinguishes share a name,  *)
(* and so do the bytes from 128 on, which the generated code sees as      *)
(* negative numbers.                                                       *)
(***************************************************************************)

Digits == {"0", "1", "2", "3", "4", "5", "6", "7", "8", "9"}
Upper == {"A", "B", "C", "D", "E", "F", "G", "H", "I", "J", "K", "L", "M",
          "N", "O", "P", "Q", "R", "S", "T", "U", "V", "W", "X", "Y", "Z"}
\* A letter in both its cases.
Letters == {{"a", "A"}, {"b", "B"}, {"c", "C"}, {"d", "D"}, {"e", "E"}, {"f", "F"}, {"g", "G"},
            {"h", "H"}, {"i", "I"}, {"j", "J"}, {"k", "K"}, {"l", "L"}, {"m", "M"}, {"n", "N"},
            {"o", "O"}, {"p", "P"}, {"q", "Q"}, {"r", "R"}, {"s", "S"}, {"t", "T"}, {"u", "U"},
            {"v", "V"}, {"w", "W"}, {"x", "X"}, {"y", "Y"}, {"z", "Z"}}
Alpha == UNION Letters
EitherCase(c) == {c} \cup UNION {l \in Letters : c \in l}
Hex == Digits \cup {"A", "B", "C", "D", "E", "F", "a", "b", "c", "d", "e", "f"}

\* Spaces and ends of lines; VT is vertical tab or form feed.
Space == {" ", "HT", "LF", "VT", "CR"}
\* The control characters; x02 to x06 are the bytes 2 to 6, Ctl any other.
Controls == {"NUL", "x02", "x03", "x04", "x05", "x06", "Ctl", "HT", "LF", "VT", "CR", "DEL"}
Punctuation == {"!", "\"", "#", "$", "%", "&", "'", "(", ")", "*", "+", ",", "-", ".", "/",
                ":", ";", "<", "=", ">", "?", "@", "[", "\\", "]", "^", "_", "BACKTICK", "{", "|", "}", "~"}
Ascii == Controls \cup {" "} \cup Digits \cup Alpha \cup Punctuation
\* The bytes from 128 on.
High == {"High"}
AnyByte == Ascii \cup High

\* What the header fields of both grammars exclude from names.
Separators == {"(", ")", "<", ">", "@", ",", ";", ":", "\\", "\"", "/", "[", "]", "?", "=",
               "{", "}", " ", "HT"}

\* A step of a generated machine: to the state to, running acts, if c is one of
\* chars.  A state has at most one step for a character, and none in an error.
On(chars, c, to, acts) == IF c \in chars THEN {[to |-> to, acts |-> acts]} ELSE {}
Also(acts, steps) == {[s EXCEPT !.acts = @ \cup acts] : s \in steps}
=============================================================================
