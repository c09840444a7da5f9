------------------------------ MODULE Utilities ------------------------------
(***************************************************************************)
(* The functions of utils.c with a state of their own: num_to_string and   *)
(* the buffer of the thread it writes to, compress_gz and the array it     *)
(* lets grow.  A digit stands for its character.  The thresholds of        *)
(* get_num_digits are powers of Base, 10 in the code.                      *)
(***************************************************************************)
EXTENDS Integers, FiniteSetsExt

CONSTANTS Base,      \* 10
          Numbers,   \* the numbers given to num_to_string
          Slack,     \* 1024: what an increase is at least
          MaxData,   \* bound: length of what is compressed
          MaxResult  \* bound: length of its compressed form

Power[places \in Nat] == IF places = 0 THEN 1 ELSE Base * Power[places - 1]

\* A size_t has at most 20 digits.
ASSUME UtilitiesAssumption ==
  /\ Base \in Nat /\ Base > 1 /\ Numbers \subseteq 0 .. Power[20] - 1
  /\ Slack \in Nat \ {0} /\ MaxData \in Nat /\ MaxResult \in Nat

VARIABLES digits_str_buffer,
          number,     \* the last argument of num_to_string
          digits,     \* the length of the StringRef it returned, 0 before
          zip         \* the locals of compress_gz, and where it is

utilityVars == <<digits_str_buffer, number, digits, zip>>

BufferSize == 41

Terminator == -1

-----------------------------------------------------------------------------
\* A step of get_num_digits: with at least `places' further digits they are counted and
\* divided away.
Count_Late(s, places) ==
  IF s.n > Power[places] THEN [r |-> s.r + places, n |-> s.n \div Power[places]] ELSE s

Count(s, places) ==
  IF s.n >= Power[places] THEN [r |-> s.r + places, n |-> s.n \div Power[places]] ELSE s

get_num_digits(n) ==
  Count(Count(Count(Count(Count([r |-> 1, n |-> n], 16), 8), 4), 2), 1).r

\* What is left of n after some passes of the loop of num_to_string, from the last digit on.
Left(n) == LET left[passes \in Nat] == IF passes = 0 THEN n ELSE left[passes - 1] \div Base
           IN  left

\* The digit it writes to place i.
Digit(n, length, i) == Left(n)[length - 1 - i] % Base

num_to_string(n) ==
  LET length == get_num_digits(n)
  IN  /\ number' = n /\ digits' = length
      /\ digits_str_buffer' = [i \in 0 .. BufferSize - 1 |->
                                 IF i < length THEN Digit(n, length, i)
                                 ELSE IF i = length THEN Terminator
                                 ELSE digits_str_buffer[i]]
      /\ UNCHANGED zip

-----------------------------------------------------------------------------
NoZip == [at |-> "idle", len |-> 0, result |-> 0, out |-> 0, capacity |-> 0]

UtilitiesInit == /\ digits_str_buffer = [i \in 0 .. BufferSize - 1 |-> Terminator]
                 /\ number = 0 /\ digits = 0 /\ zip = NoZip

\* The call with `len' bytes of which deflate makes `result', into an output that owns
\* nothing.
compress_gz(len, result) ==
  /\ zip.at = "idle"
  /\ zip' = [at |-> "loop", len |-> len, result |-> result, out |-> 0, capacity |-> 0]
  /\ UNCHANGED <<digits_str_buffer, number, digits>>

Increase == zip.len \div 2 + Slack

\* What realloc is asked for.
Room_IncreaseOnly == Increase

Room == zip.out + Increase

\* zlib fills what it is given as long as it has something to write.
Written == Min({Increase, zip.result - zip.out})

AvailOut == Increase - Written

\* The condition of the loop.
Again_Never == FALSE

Again_Always == AvailOut >= 0

Again == AvailOut = 0

Deflate == /\ zip.at = "loop"
           /\ zip' = [zip EXCEPT !.capacity = Room,
                                 !.out      = @ + Written,
                                 !.at       = IF Again THEN "loop" ELSE "done"]
           /\ UNCHANGED <<digits_str_buffer, number, digits>>

CompressReturns == /\ zip.at = "done" /\ zip' = NoZip
                   /\ UNCHANGED <<digits_str_buffer, number, digits>>

CompressNext ==
  \/ \E len \in 0 .. MaxData, result \in 0 .. MaxResult : compress_gz(len, result)
  \/ Deflate
  \/ CompressReturns

UtilitiesNext == CompressNext \/ \E n \in Numbers : num_to_string(n)

UtilitiesSpec == UtilitiesInit /\ [][UtilitiesNext]_utilityVars

-----------------------------------------------------------------------------
\* What a text of so many digits reads as.
Reading(text, length) ==
  LET value[k \in 0 .. length] == IF k = 0 THEN 0 ELSE Base * value[k - 1] + text[k - 1]
  IN  value[length]

\* get_num_digits counts exactly at every threshold: the text fits the buffer with its
\* terminator, has no leading zero, and reads as the number.
NumberIsWritten ==
  digits > 0 =>
    /\ digits < BufferSize /\ digits_str_buffer[digits] = Terminator
    /\ \A i \in 0 .. digits - 1 : digits_str_buffer[i] \in 0 .. Base - 1
    /\ digits > 1 => digits_str_buffer[0] # 0
    /\ Reading(digits_str_buffer, digits) = number

\* Each pass gives deflate as much room as realloc made: nothing is written behind it.
OutputFits == zip.out <= zip.capacity

\* The loop is left only when all of the result is written, also when it ends exactly
\* where the room does.
OutputIsWhole == zip.at = "done" => zip.out = zip.result

\* compress_gz returns, however long the result is.
CompressEnds == zip.at = "loop" ~> zip.at = "done"
=============================================================================
