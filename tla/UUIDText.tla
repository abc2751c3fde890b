------------------------------ MODULE UUIDText ------------------------------
(***************************************************************************)
(* storage/UUID.cpp: a UUID is sixteen bytes, and 36 characters for the    *)
(* engine's callers, who name an object by that text.                      *)
(***************************************************************************)
EXTENDS Naturals, Sequences

UUID_SIZE == 16
STR_SIZE == 36

HEX == <<"0", "1", "2", "3", "4", "5", "6", "7", "8", "9", "a", "b", "c", "d", "e", "f">>
UpperHEX == <<"A", "B", "C", "D", "E", "F">>

\* The version bits and the variant bits over random bytes.
RandomUUID(b) == [b EXCEPT ![7] = (@ % 16) + 64, ![9] = (@ % 64) + 128]

IsHex(c) == \E d \in 0..15 : HEX[d + 1] = c \/ (d >= 10 /\ UpperHEX[d - 9] = c)
HexToByte(c) == CHOOSE d \in 0..15 : HEX[d + 1] = c \/ (d >= 10 /\ UpperHEX[d - 9] = c)

TextOf(bytes) ==
  LET digits(i) == <<HEX[(bytes[i] \div 16) + 1], HEX[(bytes[i] % 16) + 1]>>
      out[i \in 0 .. UUID_SIZE] ==
        IF i = 0 THEN <<>>
        ELSE out[i - 1] \o (IF i \in {5, 7, 9, 11} THEN <<"-">> ELSE <<>>) \o digits(i)
  IN  out[UUID_SIZE]

\* One turn of the loop of fromString: a dash is skipped wherever a byte may
\* start, anything else starts a byte of two digits.
Parsed(str, r, i) ==
  IF ~r.ok \/ i < r.next THEN r
  ELSE IF str[i] = "-" THEN [r EXCEPT !.next = i + 1]
  ELSE IF \/ Len(r.bytes) >= UUID_SIZE
          \/ i + 1 > STR_SIZE \/ str[i + 1] = "-"
          \/ ~IsHex(str[i]) \/ ~IsHex(str[i + 1])
       THEN [r EXCEPT !.ok = FALSE]
       ELSE [r EXCEPT !.bytes = Append(@, HexToByte(str[i]) * 16 + HexToByte(str[i + 1])),
                      !.next = i + 2]

Whole(r) == [r EXCEPT !.ok = @ /\ Len(r.bytes) = UUID_SIZE]

FromText(str) ==
  LET begin == [bytes |-> <<>>, next |-> 1, ok |-> TRUE]
      after[i \in 0 .. STR_SIZE] == IF i = 0 THEN begin ELSE Parsed(str, after[i - 1], i)
  IN  IF Len(str) = STR_SIZE THEN Whole(after[STR_SIZE]) ELSE [begin EXCEPT !.ok = FALSE]
=============================================================================
