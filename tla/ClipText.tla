------------------------------ MODULE ClipText ------------------------------
(***************************************************************************)
(* The cut of an oversized clipboard payload (messages.rs,                 *)
(* cap_clipboard_payload), over texts of characters of every UTF-8 length  *)
(* and a limit scaled down from MAX_CLIPBOARD_DATA.  A byte is its class:  *)
(* a character of its own, the first of so many, or a continuation.        *)
(***************************************************************************)
EXTENDS Integers, Sequences, SequencesExt

CONSTANTS
  Limits,    \* values of MAX_CLIPBOARD_DATA
  MaxChars   \* bound: characters of a text

ASSUME ClipTextAssumption == Limits \subseteq Nat

VARIABLES limit, text  \* text: the lengths of its characters

\* UTF-8.
Bytes(char) == [i \in 1..char |-> IF char = 1 THEN "ascii" ELSE IF i = 1 THEN "lead" ELSE "cont"]
Encoded(chars) == FoldLeft(LAMBDA data, char : data \o Bytes(char), <<>>, chars)

\* Mutant: continuation bytes are dropped, their first byte is not.
BackOffHalf(data) ==
  LET kept == { n \in 1..Len(data) : data[n] # "cont" }
  IN SubSeq(data, 1, IF kept = {} THEN 0 ELSE Max(kept))

\* Continuation bytes at the end are dropped, and the byte they continue.
BackOff(data) ==
  LET kept == { n \in 1..Len(data) : data[n] # "cont" }
      last == IF kept = {} THEN 0 ELSE Max(kept)
  IN SubSeq(data, 1, IF last > 0 /\ data[last] # "ascii" THEN last - 1 ELSE last)

cap_clipboard_payload(data, mime) ==
  IF Len(data) <= limit THEN data
  ELSE IF mime = "text" THEN BackOff(SubSeq(data, 1, limit)) ELSE SubSeq(data, 1, limit)

ClipTextInit == limit \in Limits /\ text = <<>>

Write == /\ Len(text) < MaxChars
         /\ \E char \in 1..4 : text' = Append(text, char)
         /\ UNCHANGED limit

ClipTextSpec == ClipTextInit /\ [][Write]_<<limit, text>>

\* "The truncated payload stays valid text": it encodes the first characters
\* of the text, keeps to the limit, and loses nothing when the text fits and
\* otherwise at most four bytes more than what exceeds the limit.
CutStaysText ==
  LET data == Encoded(text)
      cut  == cap_clipboard_payload(data, "text")
  IN /\ \E n \in 0..Len(text) : cut = Encoded(SubSeq(text, 1, n))
     /\ Len(cut) <= limit
     /\ IF Len(data) <= limit THEN cut = data ELSE Len(cut) >= limit - 4
=============================================================================
