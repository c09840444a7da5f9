-------------------------------- MODULE Text --------------------------------
(***************************************************************************)
(* The texts of C and the functions of utils.c and StringRef.c that search *)
(* them.  A character is its code, memory a function from addresses to     *)
(* characters, a StringRef an address and a length.                        *)
(***************************************************************************)
EXTENDS Integers, Sequences, FiniteSetsExt, TLC

\* nullptr: no address of a text, and farther from each than a word of a table is long.
NULL == -1000000

\* The characters the code compares with.
NUL == 0
LF == 10
CR == 13
SP == 32
Percent == 37
Ampersand == 38
Plus == 43
Colon == 58
Equals == 61
QuestionMark == 63

CRLF == <<CR, LF>>

Upper == " !\"#$%&'()*+,-./0123456789:;<=>?@ABCDEFGHIJKLMNOPQRSTUVWXYZ"
Lower == "abcdefghijklmnopqrstuvwxyz"

Positions(alphabet) == 1 .. Len(alphabet)

CharAt(s, i) == SubSeq(s, i, i)

CodesFrom(alphabet, first) ==
  [c \in {CharAt(alphabet, i) : i \in Positions(alphabet)} |->
     first - 1 + CHOOSE i \in Positions(alphabet) : CharAt(alphabet, i) = c]

\* The code of each character that a text of a client or a table is made of.
Code == CodesFrom(Upper, SP) @@ CodesFrom(Lower, 97) @@ ("\t" :> 9 @@ "\n" :> LF @@ "\r" :> CR)

Codes(s) == [i \in 1 .. Len(s) |-> Code[CharAt(s, i)]]

\* Texts one behind the other, each with a separator behind it: as a function of how many.
Upto(texts, separator) ==
  LET upto[k \in 0 .. Len(texts)] ==
        IF k = 0 THEN <<>> ELSE upto[k - 1] \o (texts[k] \o separator)
  IN  upto

Concat(texts) == Upto(texts, <<>>)[Len(texts)]

Join(texts, separator) == Upto(texts, separator)[Len(texts) - 1] \o texts[Len(texts)]

\* A copy of a text from address 0 on, with its terminator.
Memory(text) == [a \in 0 .. Len(text) |-> IF a < Len(text) THEN text[a + 1] ELSE NUL]

TextOf(mem, ref) == [i \in 1 .. ref.len |-> mem[ref.str + i - 1]]

NoRef == [str |-> NULL, len |-> 0]

-----------------------------------------------------------------------------
\* What a loop over 0, 1, ... stops at: the first of S, or none when there is no such.
FirstOf(S, none) == IF S = {} THEN none ELSE Min(S)

strnchr(mem, str, chr, count) == FirstOf({a \in str .. str + count - 1 : mem[a] = chr}, NULL)

\* The loop of strnstr: `itr' characters of the needle match the text from `start' on, so
\* that the loop is at start + itr; where the next does not, the search goes back to one
\* behind the start of the match.
strnstr_NoStepBack(mem, haystack, needle, count) ==
  LET scan[at \in (0 .. count) \X (0 .. Len(needle) - 1)] ==
        LET start == at[1]
            itr   == at[2]
        IN  IF start + itr >= count THEN NULL
            ELSE IF mem[haystack + start + itr] # needle[itr + 1] THEN scan[<<start + itr + 1, 0>>]
            ELSE IF itr + 1 < Len(needle) THEN scan[<<start, itr + 1>>]
            ELSE haystack + start
  IN  scan[<<0, 0>>]

strnstr(mem, haystack, needle, count) ==
  LET scan[at \in (0 .. count) \X (0 .. Len(needle) - 1)] ==
        LET start == at[1]
            itr   == at[2]
        IN  IF start + itr >= count THEN NULL
            ELSE IF mem[haystack + start + itr] # needle[itr + 1] THEN scan[<<start + 1, 0>>]
            ELSE IF itr + 1 < Len(needle) THEN scan[<<start, itr + 1>>]
            ELSE haystack + start
  IN  scan[<<0, 0>>]

trim(mem, ref) ==
  LET newStart == FirstOf({i \in 0 .. ref.len - 1 : mem[ref.str + i] # SP}, ref.len)
      rest     == ref.len - newStart
      newEnd   == FirstOf({i \in 0 .. rest - 1 : mem[ref.str + ref.len - i - 1] # SP}, rest)
  IN  [str |-> ref.str + newStart, len |-> rest - newEnd]

isspace(c) == c \in 9 .. 13 \cup {SP}

strrefblnk(mem, ref) == \A i \in 0 .. ref.len - 1 : isspace(mem[ref.str + i])

\* equal_StringRef with a word of a table.
EqualsWord(mem, ref, word) == ref.len = Len(word) /\ TextOf(mem, ref) = word

-----------------------------------------------------------------------------
\* url_decode: the case distinctions on the two characters behind a percent sign.
Digits == 48 .. 57
UpperHex == 65 .. 70
LowerHex == 97 .. 102
HexDigits == Digits \cup UpperHex \cup LowerHex

isxdigit(c) == c \in HexDigits

HexValue(c) ==
  LET upper == IF c >= 97 THEN c - (97 - 65) ELSE c
  IN  IF upper >= 65 THEN upper - (65 - 10) ELSE upper - 48

\* A char has eight bits.
Unescaped(a, b) == (16 * HexValue(a) + HexValue(b)) % 256

-----------------------------------------------------------------------------
\* The reference for the searches: where the needle occurs within count characters.
Occurrences(mem, haystack, needle, count) ==
  {a \in haystack .. haystack + count - Len(needle) :
     \A k \in 1 .. Len(needle) : mem[a + k - 1] = needle[k]}

FirstOccurrence(mem, haystack, needle, count) ==
  FirstOf(Occurrences(mem, haystack, needle, count), NULL)
=============================================================================
