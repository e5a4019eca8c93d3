------------------------------- MODULE Base64 -------------------------------
(***************************************************************************)
(* Base64.cpp, in which SMTPClient sends user name and password.  A char is *)
(* the set of its bits that are 1, and so is a uint32_t.  The table of the  *)
(* code, codec, gives each six bits a letter of their own: a letter is      *)
(* taken for its six bits, and Pad, '=', is none of them.                   *)
(***************************************************************************)
EXTENDS Integers, Sequences

Char == SUBSET (0 .. 7)
Sextet == SUBSET (0 .. 5)
Nul == {}
Pad == {6}

\* strlen() says that no char of a text is Nul.
Text == Seq(Char \ {Nul})
Ascii(text) == \A n \in DOMAIN text : 7 \notin text[n]

Left(word, k)  == {b \in 0 .. 31 : b - k \in word}      \* word << k
Right(word, k) == {b \in 0 .. 31 : b + k \in word}      \* word >> k

\* (uint32_t)c of a char, which has a sign.
Word(c) == IF 7 \in c THEN c \cup 8 .. 31 ELSE c

-----------------------------------------------------------------------------

neededChars(length) == (length * 8) \div 6 + (IF (length * 8) % 6 > 0 THEN 1 ELSE 0)

outputLength(length) ==
    LET needed == neededChars(length)
    IN  IF needed % 4 > 0 THEN needed + (4 - (needed % 4)) ELSE needed

\* The three chars from which the letter at i is made, so far as there are any.
Bank(input, i) ==
    LET startIndex == (i \div 4) * 3
    IN  UNION {Left(Word(input[startIndex + j + 1]), 16 - 8 * j) :
                 j \in {k \in 0 .. 2 : startIndex + k < Len(input)}}

Index(input, i) == Right(Left(Bank(input, i), 8 + 6 * (i % 4)), 26)

Encode(input) ==
    [n \in 1 .. outputLength(Len(input)) |->
        IF n - 1 < neededChars(Len(input)) THEN Index(input, n - 1) ELSE Pad]

\* Four letters in the upper 24 bits; what is no letter leaves its bits 0.
DecodeBank(input, i) ==
    UNION {Left(input[i + j + 1], 26 - 6 * j) : j \in {k \in 0 .. 3 : input[i + k + 1] # Pad}}

\* The buffer that Decode() fills, without the 0 at its end.
Decode(input) ==
    [n \in 1 .. (Len(input) * 6) \div 8 |->
        Right(DecodeBank(input, ((n - 1) \div 3) * 4), 24 - 8 * ((n - 1) % 3)) \cap (0 .. 7)]

-----------------------------------------------------------------------------
(* What Base64 is: the bits of the text, the highest of each char first,    *)
(* six by six, with 0s for those that are missing in the last six.          *)

TextBit(text, p) ==
    LET n == p \div 8 + 1 IN n <= Len(text) /\ 7 - (p % 8) \in text[n]

SixBits(text, i) == {b \in 0 .. 5 : TextBit(text, 6 * i + 5 - b)}

\* As many letters as the bits of the text need, and up to three Pads after them.
LengthsRight(text) ==
    LET needed == neededChars(Len(text))
        all    == outputLength(Len(text))
    IN  /\ 6 * needed \in 8 * Len(text) .. 8 * Len(text) + 5
        /\ all % 4 = 0 /\ all \in needed .. needed + 3

\* A text whose chars are all below 128 is encoded as Base64 says (Encode).
EncodesAscii(text) ==
    Ascii(text) =>
        \A i \in 0 .. neededChars(Len(text)) - 1 : Encode(text)[i + 1] = SixBits(text, i)

\* Decode() gives such a text back, and then only 0s, which end it (Encode,
\* Decode).
RoundTrip(text) ==
    Ascii(text) =>
        LET out == Decode(Encode(text))
        IN  /\ Len(out) >= Len(text)
            /\ \A n \in 1 .. Len(out) : out[n] = IF n <= Len(text) THEN text[n] ELSE Nul

\* The sign of a char above 127 spoils what comes before it in its three, and
\* nothing else: letters are right whose three have no such char but the first.
SpoilsItsThree(text) ==
    \A i \in 0 .. neededChars(Len(text)) - 1 :
        (\A j \in 1 .. 2 : LET n == (i \div 4) * 3 + j + 1
                           IN  n <= Len(text) => 7 \notin text[n])
        => Encode(text)[i + 1] = SixBits(text, i)

=============================================================================
