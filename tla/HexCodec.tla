------------------------------ MODULE HexCodec ------------------------------
(***************************************************************************)
(* The exchange behind the APDU button (sendAPDUkOnClick): the text that   *)
(* was typed becomes bytes (toByteArray), the library transmits them, and  *)
(* the bytes of the reply become the text that is shown (logBuffer).  Each *)
(* step is one turn of one of the three loops, or what stands between      *)
(* them.  A byte is Java's, from -128 to 127; an array is a sequence, so   *)
(* that Java's index n is n + 1 here.                                      *)
(***************************************************************************)
EXTENDS Integers, Sequences, FiniteSets

CONSTANTS
  Chars,      \* what is typed
  MaxLength,  \* bound: length of a text
  Octets,     \* what a card replies
  MaxReply,   \* length of pRecvRes (300)
  LineBytes   \* bytes to a line of the log (16)

ASSUME CodecConstants == /\ MaxLength \in Nat /\ MaxReply \in Nat
                         /\ Octets \subseteq 0 .. 255
                         /\ LineBytes \in Nat \ {0}

Texts   == UNION {[1 .. n -> Chars] : n \in 0 .. MaxLength}
Replies == UNION {[1 .. n -> Octets] : n \in 0 .. MaxReply}

VARIABLES
  phase,        \* "idle", the loop that runs, "transmit", "shown", or
                \* "crashed": an index was out of bounds
  hexString,    \* the text
  at,           \* i of the loop that runs
  count,        \* digits counted
  byteArray,
  first,        \* the next digit is the first of its byte
  len,          \* the byte it goes to
  buffer,       \* the reply
  bufferString, \* the lines of the log that are complete
  dbgString     \* the line under way

textVars  == <<hexString, count>>
arrayVars == <<byteArray, first, len>>
logVars   == <<buffer, bufferString, dbgString>>
codecVars == <<phase, at, textVars, arrayVars, logVars>>

CodecInit ==
  /\ phase = "idle" /\ at = 0
  /\ hexString = <<>> /\ count = 0
  /\ byteArray = <<>> /\ first = TRUE /\ len = 0
  /\ buffer = <<>> /\ bufferString = <<>> /\ dbgString = <<>>

-----------------------------------------------------------------------------
(* Digits and bytes.                                                       *)

UpperDigits == <<"0", "1", "2", "3", "4", "5", "6", "7", "8", "9", "A", "B", "C", "D", "E", "F">>
LowerDigits == <<"a", "b", "c", "d", "e", "f">>

Spelled(v) == {UpperDigits[v + 1]} \cup {LowerDigits[k] : k \in {v - 9} \cap 1 .. 6}

IsHex(c) == \E v \in 0 .. 15 : c \in Spelled(v)

Value(c) == IF IsHex(c) THEN CHOOSE v \in 0 .. 15 : c \in Spelled(v) ELSE -1

Byte(n) == ((n + 128) % 256) - 128

\* Mistake: the byte keeps its sign.
Signed(b) == IF b < 0 THEN -b ELSE b

Unsigned(b) == b % 256

HexChar(b) == <<UpperDigits[Unsigned(b) \div 16 + 1], UpperDigits[(Unsigned(b) % 16) + 1], " ">>

Size(n) == (n + 1) \div 2

-----------------------------------------------------------------------------
(* toByteArray.                                                            *)

SendText(text) ==
  /\ phase = "idle" /\ phase' = "count"
  /\ hexString' = text /\ count' = 0 /\ at' = 0
  /\ UNCHANGED <<arrayVars, logVars>>

CountChar ==
  /\ phase = "count" /\ at < Len(hexString)
  /\ count' = IF IsHex(hexString[at + 1]) THEN count + 1 ELSE count
  /\ at' = at + 1
  /\ UNCHANGED <<phase, hexString, arrayVars, logVars>>

NewArray ==
  /\ phase = "count" /\ at = Len(hexString)
  /\ byteArray' = [k \in 1 .. Size(count) |-> 0]
  /\ first' = TRUE /\ len' = 0
  /\ phase' = "fill" /\ at' = 0
  /\ UNCHANGED <<textVars, logVars>>

Reached(value) == phase = "fill" /\ at < Len(hexString) /\ value = Value(hexString[at + 1])

SkipChar ==
  /\ Reached(-1)
  /\ at' = at + 1
  /\ UNCHANGED <<phase, textVars, arrayVars, logVars>>

(* The first digit of a byte is shifted into place, which may make it      *)
(* negative; the second is or-ed into the bits left empty.                 *)
PutChar(value) ==
  /\ Reached(value)
  /\ IF len + 1 \in DOMAIN byteArray
     THEN /\ byteArray' = [byteArray EXCEPT ![len + 1] = Byte(IF first THEN 16 * value ELSE @ + value)]
          /\ len' = IF first THEN len ELSE len + 1
          /\ first' = ~first
          /\ phase' = "fill" /\ at' = at + 1
     ELSE /\ phase' = "crashed"
          /\ UNCHANGED <<at, arrayVars>>
  /\ UNCHANGED <<textVars, logVars>>

ReturnArray ==
  /\ phase = "fill" /\ at = Len(hexString)
  /\ phase' = "transmit"
  /\ UNCHANGED <<at, textVars, arrayVars, logVars>>

-----------------------------------------------------------------------------
(* The library replies, or fails, and then only that is shown.  What was   *)
(* sent is not used again.                                                 *)

Forget == hexString' = <<>> /\ count' = 0 /\ byteArray' = <<>> /\ first' = TRUE /\ len' = 0

Reply(octets) ==
  /\ phase = "transmit" /\ phase' = "log"
  /\ buffer' = [k \in DOMAIN octets |-> Byte(octets[k])]
  /\ bufferString' = <<>> /\ dbgString' = <<>>
  /\ at' = 0 /\ Forget

Finish ==
  /\ phase \in {"transmit", "shown"}
  /\ phase' = "idle" /\ at' = 0 /\ Forget
  /\ buffer' = <<>> /\ bufferString' = <<>> /\ dbgString' = <<>>

-----------------------------------------------------------------------------
(* logBuffer: a line that is complete is added when the next one begins,   *)
(* the last one after the loop.                                            *)

LogByte ==
  /\ phase = "log" /\ at < Len(buffer)
  /\ IF at % LineBytes = 0
     THEN bufferString' = bufferString \o dbgString /\ dbgString' = HexChar(buffer[at + 1])
     ELSE bufferString' = bufferString /\ dbgString' = dbgString \o HexChar(buffer[at + 1])
  /\ at' = at + 1
  /\ UNCHANGED <<phase, textVars, arrayVars, buffer>>

ReturnString ==
  /\ phase = "log" /\ at = Len(buffer)
  /\ bufferString' = bufferString \o dbgString /\ dbgString' = <<>>
  /\ phase' = "shown"
  /\ UNCHANGED <<at, textVars, arrayVars, buffer>>

ToByteArray == CountChar \/ NewArray \/ SkipChar \/ (\E v \in 0 .. 15 : PutChar(v)) \/ ReturnArray
LogBuffer   == LogByte \/ ReturnString

CodecNext == \/ \E text \in Texts : SendText(text)
             \/ ToByteArray
             \/ \E octets \in Replies : Reply(octets)
             \/ LogBuffer
             \/ Finish

CodecSpec == CodecInit /\ [][CodecNext]_codecVars

-----------------------------------------------------------------------------
(* The reference: digits counted in a text, and the halves of bytes.       *)

Digits(text, p) == {q \in 1 .. p : IsHex(text[q])}
Rank(text, p)   == Cardinality(Digits(text, p))

Half(bytes, k) == LET b == bytes[(k + 1) \div 2] % 256
                  IN IF k % 2 = 1 THEN b \div 16 ELSE b % 16

(* The k-th digit of the text, whatever its case and whatever separators   *)
(* stand between, is the k-th half of a byte; a half too many is zero.     *)
Reads(text, bytes) ==
  LET n == Rank(text, Len(text))
  IN /\ 2 * Len(bytes) \in {n, n + 1}
     /\ \A p \in Digits(text, Len(text)) : Half(bytes, Rank(text, p)) = Value(text[p])
     /\ 2 * Len(bytes) = n + 1 => Half(bytes, n + 1) = 0

(* Whatever is typed, the array is large enough for the loop that fills it *)
(* (outside any try), what is sent is what was typed, digit by digit, and  *)
(* what is shown reads as the bytes that were received, negative ones too: *)
(* typing it would send them.                                              *)
ApduExact ==
  /\ phase # "crashed"
  /\ phase = "transmit" => Reads(hexString, byteArray)
  /\ phase = "shown" => /\ Reads(bufferString, buffer)
                        /\ Rank(bufferString, Len(bufferString)) = 2 * Len(buffer)
=============================================================================
