---------------------------- MODULE JsonStrings ----------------------------
(***************************************************************************)
(* A string on its way through the hub: the lexer scans what a peer spells *)
(* and dump() writes what the lexer has scanned; and strings of any bytes, *)
(* as a program may give them to dump().                                   *)
(***************************************************************************)
EXTENDS JsonSerializer

CONSTANTS
  StringBytes, MaxString,   \* what a string is spelled with, bytes it may have
  AnyBytes, MaxBytes,       \* what raw bytes are taken from, and how many
  Starts(_)                 \* how the texts of a subject begin, before these bounds count

ASSUME StringsAssumption ==
  /\ StringBytes \subseteq 0..255 \cup {Eof} /\ MaxString \in Nat
  /\ AnyBytes \subseteq 0..255 /\ MaxBytes \in Nat
  /\ Starts("bytes") \subseteq Seq(0..255)

VARIABLES subject, text, lexer

stringVars == <<subject, text, lexer>>

(* Behind the quote with which a string begins.                            *)
startingLexer == go(reset, IF subject = "string" THEN "string" ELSE "token")

StringInit ==
  /\ subject \in {"string", "bytes"}
  /\ text \in Starts(subject)
  /\ lexer = startingLexer

(* The text has fewer than n members more than it began with.              *)
within(n) == \E s \in Starts(subject) : IsPrefix(s, text) /\ Len(text) < Len(s) + n

(* A string that is long enough is closed, unless it is inside a character.*)
ReadStringByte(c) ==
  /\ subject = "string"
  /\ lexer.at # "token"
  /\ lexer.at = "string" /\ Len(lexer.buffer) >= MaxString => c = Quote
  /\ lexer' = get(lexer, c)
  /\ text' = Append(text, c)
  /\ UNCHANGED subject

AppendByte(c) ==
  /\ subject = "bytes"
  /\ within(MaxBytes)
  /\ text' = Append(text, c)
  /\ UNCHANGED <<subject, lexer>>

StringNext ==
  \/ \E c \in StringBytes : ReadStringByte(c)
  \/ \E c \in AnyBytes : AppendByte(c)

StringSpec == StringInit /\ [][StringNext]_stringVars

-----------------------------------------------------------------------------
(* UTF-8 by its definition: characters, one behind the other, each of them *)
(* the shortest encoding of a scalar value.                                *)

firstBytes == <<0..127, 192..223, 224..239, 240..247>>
shortest == <<0, 128, 2048, 65536>>

(* The bits of the code point in the bytes of a character.                 *)
codePointOf(s) ==
  CASE Len(s) = 1 -> s[1]
    [] Len(s) = 2 -> (s[1] % 32) * 64 + (s[2] % 64)
    [] Len(s) = 3 -> ((s[1] % 16) * 64 + (s[2] % 64)) * 64 + (s[3] % 64)
    [] OTHER -> (((s[1] % 8) * 64 + (s[2] % 64)) * 64 + (s[3] % 64)) * 64 + (s[4] % 64)

IsUtf8Character(s) ==
  /\ Len(s) \in 1..4
  /\ s[1] \in firstBytes[Len(s)]
  /\ \A i \in 2..Len(s) : s[i] \in 128..191
  /\ codePointOf(s) >= shortest[Len(s)] /\ codePointOf(s) <= 1114111
  /\ codePointOf(s) \notin HighSurrogates /\ codePointOf(s) \notin LowSurrogates

(* Between two ends that follow each other there is one character.         *)
IsUtf8(s) ==
  \E ends \in SUBSET (0..Len(s)) :
    /\ 0 \in ends /\ Len(s) \in ends
    /\ \A n \in ends \ {0} : \E k \in ends : k < n /\ IsUtf8Character(SubSeq(s, k + 1, n))

-----------------------------------------------------------------------------
scanned(s) == firstToken(<<Quote>> \o s \o <<Quote>>)

(* The string a peer spelled.                                              *)
Spelled == subject = "string" /\ lexer.type = "value_string"

(* Whatever string the parser takes, dump() writes: Hub::handleInput dumps *)
(* every request for its log before it looks at the kind (Hub.cpp:77), and *)
(* would remove the client if that threw.  And it writes what the next     *)
(* parser reads as the same string: a message's channel and content.       *)
ScannedStringsDump ==
  Spelled => \A ascii \in BOOLEAN :
    LET d == dump_escaped(lexer.buffer, ascii, "strict")
    IN  ~d.thrown /\ scanned(d.written).buffer = lexer.buffer

(* string_buffer is written only where it is, whatever the bytes and the   *)
(* error handler; and what dump() makes of bytes that are no UTF-8, when   *)
(* it is to drop or replace them, is a string again.                       *)
EscapesFitTheBuffer ==
  subject = "bytes" => \A ascii \in BOOLEAN, handler \in {"strict", "ignore", "replace"} :
    LET d == dump_escaped(text, ascii, handler)
    IN  /\ d.reach <= BufferSize
        /\ ~d.thrown => scanned(d.written).type = "value_string"

(* Nothing in s ends a string or begins an escape, nor is refused as a     *)
(* control character.                                                      *)
IsPlain(s) == \A i \in DOMAIN s : s[i] >= 32 /\ s[i] \notin {Quote, Escape}

(* The two tables of UTF-8, the ranges of the scanner and the states of    *)
(* the decoder, both say what UTF-8 is.                                    *)
BothTablesAreUtf8 ==
  subject = "bytes" =>
    /\ ~dump_escaped(text, FALSE, "strict").thrown <=> IsUtf8(text)
    /\ IsPlain(text) => ((scanned(text).type = "value_string") <=> IsUtf8(text))
=============================================================================
