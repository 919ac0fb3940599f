------------------------------ MODULE Library -------------------------------
(***************************************************************************)
(* itoa() of lib/klib.c and vsprintf() of kernel/vsprintf.c as functions,  *)
(* and what their results should be.  Characters are their ASCII codes, a  *)
(* C string is the sequence of them in front of its terminator.            *)
(***************************************************************************)
EXTENDS Integers, Sequences, SequencesExt, FiniteSets

CONSTANT Bits   \* of an int: 32

ASSUME BitsAssumption == Bits \in Nat \ {0} /\ Bits % 4 = 0

(* Hexadecimal digits of an int, and what each of them counts.             *)
Digits == Bits \div 4
Power16[n \in 0 .. Digits] == IF n = 0 THEN 1 ELSE 16 * Power16[n - 1]

(* The numbers of an int, from -Half on.                                   *)
Half == Power16[Digits] \div 2
IntRange == -Half .. Half - 1

(* What is left of a number in an int: two's complement.                   *)
AsInt(n) == ((n + Half) % (2 * Half)) - Half

(* Division in C cuts towards 0.                                           *)
Div(a, b) == IF a < 0 THEN -((-a) \div b) ELSE a \div b

-----------------------------------------------------------------------------
(* Deviation: the digits after 9 follow at once in ASCII.                  *)
DigitNoGap(d) == 48 + d

(* '0' + d, and 7 more from 10 on.                                         *)
Digit(d) == IF 48 + d > 57 THEN 48 + d + 7 ELSE 48 + d

(* (num >> i) & 0xF for i = 28, 24, ..., 0; the sign is shifted in.        *)
Nibbles(num) == [i \in 1 .. Digits |-> (num \div Power16[Digits - i]) % 16]

(* itoa: no digit before the first that is not 0; flag is `str not empty'. *)
PutDigit(str, ch) == IF str # <<>> \/ ch > 0 THEN Append(str, Digit(ch)) ELSE str

itoa(num) ==
  LET str[i \in 0 .. Digits] ==
        IF i = 0 THEN <<>> ELSE PutDigit(str[i - 1], Nibbles(num)[i])
  IN <<48, 120>> \o IF num = 0 THEN <<48>> ELSE str[Digits]

PERCENT == 37
LOWER_X == 120

(* vsprintf: buf, whether the last character was the `%' of a conversion,  *)
(* and the next argument.  A conversion other than %x puts nothing and     *)
(* uses nothing.  The loop would run past the terminator of a format that  *)
(* ends with %, which is therefore not defined here.                       *)
PutChar(s, c, args) ==
  CASE ~s.conversion /\ c # PERCENT -> [s EXCEPT !.buf = Append(@, c)]
    [] ~s.conversion /\ c = PERCENT -> [s EXCEPT !.conversion = TRUE]
    [] s.conversion /\ c = LOWER_X ->
         [buf |-> s.buf \o itoa(args[s.p_next_arg]), conversion |-> FALSE,
          p_next_arg |-> s.p_next_arg + 1]
    [] OTHER -> [s EXCEPT !.conversion = FALSE]

vsprintf(fmt, args) ==
  LET after[i \in 0 .. Len(fmt)] ==
        IF i = 0 THEN [buf |-> <<>>, conversion |-> FALSE, p_next_arg |-> 1]
        ELSE PutChar(after[i - 1], fmt[i], args)
  IN after[Len(fmt)].buf

-----------------------------------------------------------------------------
(* What a number should look like: as an unsigned int, in as many digits   *)
(* as it takes.                                                            *)
HexDigits == <<48, 49, 50, 51, 52, 53, 54, 55, 56, 57, 65, 66, 67, 68, 69, 70>>

Hex(num) ==
  LET n == num % (2 * Half)
      k == CHOOSE k \in 1 .. Digits : n < Power16[k] /\ (k = 1 \/ n >= Power16[k - 1])
  IN <<48, 120>> \o [i \in 1 .. k |-> HexDigits[((n \div Power16[k - i]) % 16) + 1]]

(* A message is what printf() is meant to show: characters and, in place   *)
(* of 0, which no string contains, the next argument.                      *)
Number == 0

Format(msg) ==
  FlattenSeq([i \in DOMAIN msg |->
                IF msg[i] = Number THEN <<PERCENT, LOWER_X>> ELSE <<msg[i]>>])

Meant(msg, args) ==
  LET Index(i) == Cardinality({j \in 1 .. i : msg[j] = Number})
  IN FlattenSeq([i \in DOMAIN msg |->
                   IF msg[i] = Number THEN Hex(args[Index(i)]) ELSE <<msg[i]>>])
=============================================================================
