------------------------------- MODULE Convert -------------------------------
(***************************************************************************)
(* Numbers to characters and back: the number printers of src/src/stdio.c  *)
(* and atoi of src/src/stdlib.c.  A character is its digit value, or one   *)
(* of the codes below.  Integers have Word values and wrap; C's division   *)
(* rounds towards 0.                                                       *)
(***************************************************************************)
EXTENDS Integers, Sequences, SequencesExt

CONSTANT Word          \* number of values of an int; of a long for printl*

ASSUME ConvertAssumption == Word \in Nat /\ Word > 32 /\ Word % 2 = 0

MINUS == 16
BLANK == 17
LETTER == 18

IntMin == -(Word \div 2)
Int_ == IntMin .. -IntMin - 1
Wrap(n) == ((n - IntMin) % Word) + IntMin

\* C's / and %.
Quot(n, d) == IF n >= 0 THEN n \div d ELSE -((-n) \div d)
Rem(n, d) == n - d * Quot(n, d)

\* The loops while (num > 0) that take the digits of num, last one first.
DigitsUp(base) ==
  LET up[n \in IntMin .. Word] ==
        IF n > 0 THEN <<n % base>> \o up[n \div base] ELSE <<>>
  IN  up

MutPrintd(num) == (IF num < 0 THEN <<MINUS>> ELSE <<>>) \o Reverse(DigitsUp(10)[num])

\* printd and printld.  The negation of the least number is that number.
printd(num) ==
  IF num = 0 THEN <<0>>
  ELSE (IF num < 0 THEN <<MINUS>> ELSE <<>>)
         \o Reverse(DigitsUp(10)[IF num < 0 THEN Wrap(-num) ELSE num])

printlu(num) == IF num = 0 THEN <<0>> ELSE Reverse(DigitsUp(10)[num])

\* printx and printlx: do ... while (num > 0), so a negative number ends after
\* one digit, which is negative too or 0.
printx(num) ==
  Reverse(<<Rem(num, 16)>> \o DigitsUp(16)[Quot(num, 16)])

\* The first position of s, or the one behind it, where P does not hold.
Skip(s, P(_)) ==
  CHOOSE k \in 1 .. Len(s) + 1 :
    /\ \A j \in 1 .. k - 1 : P(s[j])
    /\ k <= Len(s) => ~P(s[k])

Digit(c) == c \in 0 .. 9

\* atoi: blanks, one minus sign, digits up to the first other character.
atoi(str) ==
  LET trimmed == SubSeq(str, Skip(str, LAMBDA c : c = BLANK), Len(str))
      is_negative == trimmed # <<>> /\ trimmed[1] = MINUS
      unsigned == IF is_negative THEN Tail(trimmed) ELSE trimmed
      digits == SubSeq(unsigned, 1, Skip(unsigned, Digit) - 1)
      ret == FoldLeft(LAMBDA r, d : Wrap(10 * r + d), 0, digits)
  IN  IF is_negative THEN Wrap(-ret) ELSE ret
------------------------------------------------------------------------------
\* The number that digits stand for.
Value(digits, base) ==
  LET val[k \in 0 .. Len(digits)] == IF k = 0 THEN 0 ELSE base * val[k - 1] + digits[k]
  IN  val[Len(digits)]

\* A printed number reads back as itself, in decimal through atoi, without
\* leading zeros in all bases.  The exceptions: the least number prints
\* as a minus sign alone, and %x prints one character of a negative number.
PrintedReadsBack(n) ==
  /\ IF n = IntMin THEN printd(n) = <<MINUS>> ELSE atoi(printd(n)) = n
  /\ IF n < 0 THEN Len(printx(n)) = 1
     ELSE Value(printx(n), 16) = n /\ (n > 0 => printx(n)[1] > 0)
  /\ LET u == n - IntMin IN Value(printlu(u), 10) = u

\* atoi of a text is the number in front: for every way to split the text into
\* blanks, a sign or none, digits and a rest that does not go on with them.
AtoiReadsFront(s) ==
  \A b \in 0 .. Len(s), g \in 0 .. 1, d \in 0 .. Len(s) :
    /\ b + g + d <= Len(s)
    /\ \A k \in 1 .. b : s[k] = BLANK
    /\ g = 1 => s[b + 1] = MINUS
    /\ \A k \in b + g + 1 .. b + g + d : Digit(s[k])
    /\ b + g + d < Len(s) => ~Digit(s[b + g + d + 1])
    /\ g + d = 0 /\ b < Len(s) => s[b + 1] \notin {BLANK, MINUS}
    => atoi(s) = Wrap((IF g = 1 THEN -1 ELSE 1) * Value(SubSeq(s, b + g + 1, b + g + d), 10))
==============================================================================
