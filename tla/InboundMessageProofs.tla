------------------------ MODULE InboundMessageProofs ------------------------
(***************************************************************************)
(* The life of a request, for every set of requests.  The parser reads and *)
(* stores only what it copied: strnstr finds the first occurrence,         *)
(* limit_len is what is left of the segment, and decoding in place         *)
(* overwrites nothing that is still to be read.  And it reads what was     *)
(* sent: the words of the first line, every part of the query and of the   *)
(* header but the first, and the pieces of the path.                       *)
(***************************************************************************)
EXTENDS InboundMessage, DataLemmas, SequenceTheorems

-----------------------------------------------------------------------------
(* The searches.                                                           *)

\* A loop over 0, 1, ... stops at the least number of a set that is bounded below.
LEMMA FirstIsLeast ==
  ASSUME NEW S, S \subseteq Int, NEW low \in Int, \A x \in S : low <= x, NEW none
  PROVE  /\ S = {} => FirstOf(S, none) = none
         /\ S # {} => FirstOf(S, none) \in S /\ \A y \in S : FirstOf(S, none) <= y
  <1>1. CASE S = {}
    BY <1>1 DEF FirstOf
  <1>2. CASE S # {}
    <2> DEFINE T == {x - low : x \in S}
    <2>1. T \subseteq Nat /\ T # {}
      <3>1. \A x \in S : x - low \in Nat
        OBVIOUS
      <3> QED
        BY <1>2, <3>1
    <2>2. PICK n \in T : \A m \in T : n <= m
      <3> HIDE DEF T
      <3> QED
        BY <2>1, LeastNumber
    <2>3. PICK x \in S : n = x - low
      OBVIOUS
    <2>4. ASSUME NEW y \in S PROVE x <= y
      <3>1. y - low \in T /\ n <= y - low
        BY <2>2
      <3> QED
        BY <2>3, <3>1
    <2>5. \E z \in S : \A y \in S : z <= y
      BY <2>4
    <2>6. FirstOf(S, none) = Min(S)
      BY <1>2 DEF FirstOf
    <2> QED
      BY <1>2, <2>5, <2>6 DEF Min
  <1> QED
    BY <1>1, <1>2

\* What strnchr returns: no address, or the first place of the character.
LEMMA StrnchrFinds ==
  ASSUME NEW m, NEW str \in Int, NEW chr, NEW count \in Int
  PROVE  LET found == strnchr(m, str, chr, count)
         IN  \/ found = NULL
             \/ found \in str .. str + count - 1 /\ m[found] = chr
  <1> DEFINE S == {a \in str .. str + count - 1 : m[a] = chr}
  <1>1. S \subseteq Int /\ \A x \in S : str <= x
    OBVIOUS
  <1>2. S # {} => FirstOf(S, NULL) \in S
    <2> HIDE DEF S
    <2> QED
      BY <1>1, FirstIsLeast
  <1>3. S = {} => FirstOf(S, NULL) = NULL
    BY DEF FirstOf
  <1> QED
    BY <1>2, <1>3 DEF strnchr

-----------------------------------------------------------------------------
(* strnstr finds the first occurrence.                                     *)

\* One iteration of the loop of strnstr at start + itr, with the rest of the loop as f.
ScanStep(m, haystack, needle, count, f, start, itr) ==
  IF start + itr >= count THEN NULL
  ELSE IF m[haystack + start + itr] # needle[itr + 1] THEN f[<<start + 1, 0>>]
  ELSE IF itr + 1 < Len(needle) THEN f[<<start, itr + 1>>]
  ELSE haystack + start

IsScan(m, haystack, needle, count, f) ==
  \A start \in 0 .. count, itr \in 0 .. Len(needle) - 1 :
    f[<<start, itr>>] = ScanStep(m, haystack, needle, count, f, start, itr)

\* The first occurrence from a place of the haystack on.
FirstFrom(m, haystack, needle, count, start) ==
  FirstOf({a \in Occurrences(m, haystack, needle, count) : haystack + start <= a}, NULL)

\* The rest of the needle, behind its first itr characters, is in the text.
RestMatches(m, haystack, needle, count, start, itr) ==
  /\ start + Len(needle) <= count
  /\ \A k \in itr + 1 .. Len(needle) : m[haystack + start + k - 1] = needle[k]

\* Where the needle begins, from a place on: there, or from the next place on.
LEMMA FirstFromSteps ==
  ASSUME NEW m, NEW haystack \in Int, NEW needle, Len(needle) \in Nat \ {0},
         NEW count \in Nat, NEW start \in Nat
  PROVE  /\ FirstFrom(m, haystack, needle, count, start) =
              IF RestMatches(m, haystack, needle, count, start, 0) THEN haystack + start
              ELSE FirstFrom(m, haystack, needle, count, start + 1)
         /\ start + Len(needle) > count =>
              FirstFrom(m, haystack, needle, count, start) = NULL
  <1> DEFINE Occ == Occurrences(m, haystack, needle, count)
             here == haystack + start
             S == {a \in Occ : here <= a}
             T == {a \in Occ : here + 1 <= a}
  <1>1. Occ \subseteq Int /\ \A a \in Occ : haystack <= a /\ a <= haystack + count - Len(needle)
    BY DEF Occurrences
  <1>2. RestMatches(m, haystack, needle, count, start, 0) <=> here \in Occ
    BY DEF Occurrences, RestMatches
  <1> HIDE DEF Occ
  <1>3. /\ FirstFrom(m, haystack, needle, count, start) = FirstOf(S, NULL)
        /\ FirstFrom(m, haystack, needle, count, start + 1) = FirstOf(T, NULL)
    <2>1. haystack + (start + 1) = here + 1
      OBVIOUS
    <2> QED
      BY <2>1 DEF FirstFrom, Occ
  <1>4. here \in Int
    OBVIOUS
  <1>5. CASE here \in Occ
    <2>1. here \in S /\ S \subseteq Int /\ \A x \in S : here <= x
      <3> HIDE DEF here
      <3>1. here <= here
        BY <1>4
      <3>2. S \subseteq Int
        BY <1>1
      <3> QED
        BY <1>5, <3>1, <3>2
    <2>2. FirstOf(S, NULL) \in S /\ FirstOf(S, NULL) <= here
      <3> HIDE DEF S, here
      <3> QED
        BY <1>4, <2>1, FirstIsLeast
    <2>3. FirstOf(S, NULL) = here
      <3> HIDE DEF here
      <3> QED
        BY <1>1, <1>4, <2>1, <2>2
    <2>4. start + Len(needle) <= count
      BY <1>1, <1>5
    <2> QED
      BY <1>2, <1>3, <1>5, <2>3, <2>4
  <1>6. CASE here \notin Occ
    <2>1. S = T
      <3>1. \A a \in Occ : here <= a <=> here + 1 <= a
        <4> HIDE DEF here
        <4> QED
          BY <1>1, <1>4, <1>6
      <3> QED
        BY <3>1
    <2>2. start + Len(needle) > count => S = {}
      <3> SUFFICES ASSUME start + Len(needle) > count, NEW a \in Occ PROVE ~(here <= a)
        OBVIOUS
      <3>1. a \in Int /\ a <= haystack + count - Len(needle)
        BY <1>1
      <3> QED
        BY <3>1
    <2>3. FirstOf({}, NULL) = NULL
      BY DEF FirstOf
    <2> HIDE DEF S, T
    <2> QED
      BY <1>2, <1>3, <1>6, <2>1, <2>2, <2>3
  <1> QED
    BY <1>5, <1>6

\* What the loop returns from each of its states is a solution of its recursion.
Found(m, haystack, needle, count) ==
  [at \in (0 .. count) \X (0 .. Len(needle) - 1) |->
     IF RestMatches(m, haystack, needle, count, at[1], at[2]) THEN haystack + at[1]
     ELSE FirstFrom(m, haystack, needle, count, at[1] + 1)]

\* Found is such a solution.
LEMMA FoundIsScan ==
  ASSUME NEW m, NEW haystack \in Int, NEW needle, Len(needle) \in Nat \ {0}, NEW count \in Nat
  PROVE  IsScan(m, haystack, needle, count, Found(m, haystack, needle, count))
  <1> DEFINE g == Found(m, haystack, needle, count)
             L == Len(needle)
             R(s, j) == RestMatches(m, haystack, needle, count, s, j)
             F(s) == FirstFrom(m, haystack, needle, count, s)
  <1> SUFFICES ASSUME NEW s \in 0 .. count, NEW j \in 0 .. L - 1
               PROVE  g[<<s, j>>] = ScanStep(m, haystack, needle, count, g, s, j)
    BY DEF IsScan
  <1>1. \A t \in 0 .. count, i \in 0 .. L - 1 :
          g[<<t, i>>] = IF R(t, i) THEN haystack + t ELSE F(t + 1)
    BY DEF Found
  <1>2. \A t \in Nat : /\ F(t) = IF R(t, 0) THEN haystack + t ELSE F(t + 1)
                       /\ t + L > count => F(t) = NULL
    BY FirstFromSteps
  <1>3. /\ R(s, j) => s + L <= count
        /\ s + L <= count => (R(s, j) <=> /\ m[haystack + s + j] = needle[j + 1]
                                          /\ j + 1 < L => R(s, j + 1))
    <2>1. R(s, j) <=> /\ s + L <= count
                      /\ \A k \in j + 1 .. L : m[haystack + s + k - 1] = needle[k]
      BY DEF RestMatches
    <2>2. R(s, j + 1) <=> /\ s + L <= count
                          /\ \A k \in j + 1 + 1 .. L : m[haystack + s + k - 1] = needle[k]
      BY DEF RestMatches
    <2>3. haystack + s + (j + 1) - 1 = haystack + s + j /\ j + 1 \in j + 1 .. L
      OBVIOUS
    <2>4. \A k \in j + 1 .. L : k = j + 1 \/ k \in j + 1 + 1 .. L
      OBVIOUS
    <2>5. \A k \in j + 1 + 1 .. L : k \in j + 1 .. L /\ j + 1 < L
      OBVIOUS
    <2> HIDE DEF R
    <2> QED
      BY <2>1, <2>2, <2>3, <2>4, <2>5
  <1> HIDE DEF g, R, F
  <1>4. CASE s + j >= count
    <2>1. g[<<s, j>>] = NULL
      <3>1. ~R(s, j) /\ s + 1 + L > count /\ s + 1 \in Nat
        BY <1>3, <1>4
      <3> QED
        BY <1>1, <1>2, <3>1
    <2> QED
      BY <1>4, <2>1 DEF ScanStep
  <1>5. CASE s + j < count /\ m[haystack + s + j] # needle[j + 1]
    <2>1. ~R(s, j) /\ s + 1 \in 0 .. count /\ 0 \in 0 .. L - 1
      BY <1>3, <1>5
    <2>2. g[<<s, j>>] = F(s + 1) /\ g[<<s + 1, 0>>] = F(s + 1)
      BY <1>1, <1>2, <2>1
    <2> QED
      BY <1>5, <2>2 DEF ScanStep
  <1>6. CASE s + j < count /\ m[haystack + s + j] = needle[j + 1] /\ j + 1 < L
    <2>1. j + 1 \in 0 .. L - 1
      BY <1>6
    <2>2. R(s, j) <=> R(s, j + 1)
      <3>1. R(s, j + 1) => s + L <= count
        BY DEF R, RestMatches
      <3> QED
        BY <1>3, <1>6, <3>1
    <2>3. g[<<s, j>>] = g[<<s, j + 1>>]
      BY <1>1, <2>1, <2>2
    <2> QED
      BY <1>6, <2>3 DEF ScanStep
  <1>7. CASE s + j < count /\ m[haystack + s + j] = needle[j + 1] /\ ~(j + 1 < L)
    <2>1. s + L <= count
      BY <1>7
    <2>2. R(s, j)
      BY <1>3, <1>7, <2>1
    <2> QED
      BY <1>1, <1>7, <2>2 DEF ScanStep
  <1> QED
    BY <1>4, <1>5, <1>6, <1>7

\* The recursion has one solution: the loop ends from each of its states.
LEMMA ScansAgree ==
  ASSUME NEW m, NEW haystack \in Int, NEW needle, Len(needle) \in Nat \ {0}, NEW count \in Nat,
         NEW f, IsScan(m, haystack, needle, count, f),
         NEW g, IsScan(m, haystack, needle, count, g)
  PROVE  f[<<0, 0>>] = g[<<0, 0>>]
  <1> DEFINE L == Len(needle)
             P == {d \in Nat : d <= count => \A j \in 0 .. L - 1 :
                                               f[<<count - d, j>>] = g[<<count - d, j>>]}
  <1>1. ASSUME NEW s \in 0 .. count, NEW j \in 0 .. L - 1,
               s < count => f[<<s + 1, 0>>] = g[<<s + 1, 0>>],
               j + 1 < L => f[<<s, j + 1>>] = g[<<s, j + 1>>]
        PROVE  f[<<s, j>>] = g[<<s, j>>]
    <2>1. /\ f[<<s, j>>] = ScanStep(m, haystack, needle, count, f, s, j)
          /\ g[<<s, j>>] = ScanStep(m, haystack, needle, count, g, s, j)
      BY DEF IsScan
    <2>2. s + j >= count \/ s < count
      OBVIOUS
    <2> QED
      BY <1>1, <2>1, <2>2 DEF ScanStep
  <1>2. 0 \in P
    <2>1. ASSUME NEW j \in 0 .. L - 1 PROVE f[<<count - 0, j>>] = g[<<count - 0, j>>]
      <3>1. /\ f[<<count, j>>] = ScanStep(m, haystack, needle, count, f, count, j)
            /\ g[<<count, j>>] = ScanStep(m, haystack, needle, count, g, count, j)
        BY DEF IsScan
      <3>2. count + j >= count /\ count - 0 = count
        OBVIOUS
      <3> QED
        BY <3>1, <3>2 DEF ScanStep
    <2> QED
      BY <2>1
  <1>3. ASSUME NEW d \in Nat, d \in P PROVE d + 1 \in P
    <2> SUFFICES ASSUME d + 1 <= count
                 PROVE  \A j \in 0 .. L - 1 : f[<<count - (d + 1), j>>] = g[<<count - (d + 1), j>>]
      OBVIOUS
    <2> DEFINE s == count - (d + 1)
               Q == {e \in Nat : e <= L - 1 => f[<<s, L - 1 - e>>] = g[<<s, L - 1 - e>>]}
    <2>1. s \in 0 .. count /\ s + 1 = count - d
      OBVIOUS
    <2>2. f[<<s + 1, 0>>] = g[<<s + 1, 0>>]
      <3>1. 0 \in 0 .. L - 1 /\ d <= count
        OBVIOUS
      <3> QED
        BY <1>3, <2>1, <3>1
    <2> HIDE DEF s
    <2>3. 0 \in Q
      <3>1. L - 1 - 0 \in 0 .. L - 1 /\ ~(L - 1 - 0 + 1 < L)
        OBVIOUS
      <3> QED
        BY <1>1, <2>1, <2>2, <3>1
    <2>4. ASSUME NEW e \in Nat, e \in Q PROVE e + 1 \in Q
      <3> SUFFICES ASSUME e + 1 <= L - 1
                   PROVE  f[<<s, L - 1 - (e + 1)>>] = g[<<s, L - 1 - (e + 1)>>]
        OBVIOUS
      <3>1. L - 1 - (e + 1) \in 0 .. L - 1 /\ L - 1 - (e + 1) + 1 = L - 1 - e
        OBVIOUS
      <3>2. f[<<s, L - 1 - e>>] = g[<<s, L - 1 - e>>]
        BY <2>4
      <3> QED
        BY <1>1, <2>1, <2>2, <3>1, <3>2
    <2>5. Nat \subseteq Q
      <3> HIDE DEF Q
      <3> QED
        BY <2>3, <2>4, Induction
    <2>6. ASSUME NEW j \in 0 .. L - 1 PROVE f[<<s, j>>] = g[<<s, j>>]
      <3>1. L - 1 - j \in Nat /\ L - 1 - j <= L - 1 /\ L - 1 - (L - 1 - j) = j
        OBVIOUS
      <3>2. L - 1 - j \in Q
        BY <2>5, <3>1
      <3> QED
        BY <3>1, <3>2
    <2> QED
      BY <2>6 DEF s
  <1>4. Nat \subseteq P
    <2> HIDE DEF P
    <2> QED
      BY <1>2, <1>3, Induction
  <1>5. count \in P /\ count - count = 0 /\ 0 \in 0 .. L - 1
    BY <1>4
  <1> QED
    BY <1>5

\* The loop of strnstr, with its steps back, returns the first occurrence of any needle in
\* any text.
LEMMA StrnstrFindsTheFirst ==
  ASSUME NEW m, NEW haystack \in Int, NEW needle, Len(needle) \in Nat \ {0}, NEW count \in Nat
  PROVE  strnstr(m, haystack, needle, count) = FirstOccurrence(m, haystack, needle, count)
  <1> DEFINE D == (0 .. count) \X (0 .. Len(needle) - 1)
             Loop(f) == f = [at \in D |->
                               IF at[1] + at[2] >= count THEN NULL
                               ELSE IF m[haystack + at[1] + at[2]] # needle[at[2] + 1]
                                    THEN f[<<at[1] + 1, 0>>]
                               ELSE IF at[2] + 1 < Len(needle) THEN f[<<at[1], at[2] + 1>>]
                               ELSE haystack + at[1]]
             F == CHOOSE f : Loop(f)
             g == Found(m, haystack, needle, count)
  <1>1. IsScan(m, haystack, needle, count, g)
    BY FoundIsScan
  <1>2. g = [at \in D |-> g[at]]
    BY DEF Found
  <1> HIDE DEF g
  <1>3. Loop(g)
    <2>1. ASSUME NEW at \in D
          PROVE  g[at] = IF at[1] + at[2] >= count THEN NULL
                         ELSE IF m[haystack + at[1] + at[2]] # needle[at[2] + 1]
                              THEN g[<<at[1] + 1, 0>>]
                         ELSE IF at[2] + 1 < Len(needle) THEN g[<<at[1], at[2] + 1>>]
                         ELSE haystack + at[1]
      <3>1. at = <<at[1], at[2]>> /\ at[1] \in 0 .. count /\ at[2] \in 0 .. Len(needle) - 1
        OBVIOUS
      <3>2. g[<<at[1], at[2]>>] = ScanStep(m, haystack, needle, count, g, at[1], at[2])
        BY <1>1, <3>1 DEF IsScan
      <3> QED
        BY <3>1, <3>2 DEF ScanStep
    <2> QED
      BY <1>2, <2>1
  <1>4. Loop(F)
    <2> HIDE DEF Loop
    <2> QED
      BY <1>3
  <1>5. strnstr(m, haystack, needle, count) = F[<<0, 0>>]
    BY DEF strnstr
  <1> HIDE DEF F
  <1>6. IsScan(m, haystack, needle, count, F)
    <2> SUFFICES ASSUME NEW s \in 0 .. count, NEW j \in 0 .. Len(needle) - 1
                 PROVE  F[<<s, j>>] = ScanStep(m, haystack, needle, count, F, s, j)
      BY DEF IsScan
    <2>1. <<s, j>> \in D /\ <<s, j>>[1] = s /\ <<s, j>>[2] = j
      OBVIOUS
    <2> QED
      BY <1>4, <2>1 DEF ScanStep
  <1>7. F[<<0, 0>>] = g[<<0, 0>>]
    BY <1>1, <1>6, ScansAgree
  <1>8. g[<<0, 0>>] = FirstFrom(m, haystack, needle, count, 0)
    <2>1. <<0, 0>> \in D
      OBVIOUS
    <2>2. g[<<0, 0>>] = IF RestMatches(m, haystack, needle, count, 0, 0) THEN haystack + 0
                        ELSE FirstFrom(m, haystack, needle, count, 0 + 1)
      BY <2>1 DEF g, Found
    <2>3. 0 \in Nat
      OBVIOUS
    <2> QED
      BY <2>2, <2>3, FirstFromSteps
  <1>9. FirstFrom(m, haystack, needle, count, 0) = FirstOccurrence(m, haystack, needle, count)
    <2>1. \A a \in Occurrences(m, haystack, needle, count) : haystack + 0 <= a
      BY DEF Occurrences
    <2>2. {a \in Occurrences(m, haystack, needle, count) : haystack + 0 <= a}
            = Occurrences(m, haystack, needle, count)
      BY <2>1
    <2> QED
      BY <2>2 DEF FirstFrom, FirstOccurrence
  <1> QED
    BY <1>5, <1>7, <1>8, <1>9

\* The first occurrence is one, and there is none when there is no first.
LEMMA FirstOccurrenceIsFirst ==
  ASSUME NEW m, NEW haystack \in Int, NEW needle, Len(needle) \in Nat \ {0}, NEW count \in Int,
         NEW found, found = FirstOccurrence(m, haystack, needle, count)
  PROVE  \/ found = NULL /\ Occurrences(m, haystack, needle, count) = {}
         \/ /\ found \in haystack .. haystack + count - Len(needle)
            /\ \A k \in 1 .. Len(needle) : m[found + k - 1] = needle[k]
            /\ \A a \in Occurrences(m, haystack, needle, count) : found <= a
  <1> DEFINE Occ == Occurrences(m, haystack, needle, count)
  <1>1. Occ \subseteq Int /\ \A a \in Occ : haystack <= a
    BY DEF Occurrences
  <1>2. /\ Occ = {} => FirstOf(Occ, NULL) = NULL
        /\ Occ # {} => FirstOf(Occ, NULL) \in Occ /\ \A a \in Occ : FirstOf(Occ, NULL) <= a
    <2> HIDE DEF Occ
    <2> QED
      BY <1>1, FirstIsLeast
  <1> HIDE DEF Occ
  <1>3. FirstOccurrence(m, haystack, needle, count) = FirstOf(Occ, NULL)
    BY DEF FirstOccurrence, Occ
  <1>4. \A a \in Occ : /\ a \in haystack .. haystack + count - Len(needle)
                       /\ \A k \in 1 .. Len(needle) : m[a + k - 1] = needle[k]
    BY DEF Occ, Occurrences
  <1> QED
    BY <1>2, <1>3, <1>4 DEF Occ

-----------------------------------------------------------------------------
(* Texts one behind the other, and where each of them is.                  *)

\* The text is in the memory, from an address on.
Holds(m, at, text) == \A i \in 1 .. Len(text) : m[at + i - 1] = text[i]

\* Where the text behind the first k starts, from the first on.
Start(texts, separator, k) == Len(Upto(texts, separator)[k])

\* The recursive definition has a solution, and its values are texts.
LEMMA UptoSteps ==
  ASSUME NEW S, NEW texts \in Seq(Seq(S)), NEW separator \in Seq(S)
  PROVE  LET u == Upto(texts, separator)
         IN  /\ u[0] = <<>> /\ \A k \in 0 .. Len(texts) : u[k] \in Seq(S)
             /\ \A k \in 0 .. Len(texts) - 1 : u[k + 1] = u[k] \o (texts[k + 1] \o separator)
  <1> DEFINE n == Len(texts)
             N == 0 .. n
             more(k) == texts[k] \o separator
             Loop(f) == f = [k \in N |-> IF k = 0 THEN <<>> ELSE f[k - 1] \o more(k)]
             u == CHOOSE f : Loop(f)
             step == [p \in Nat \X Seq(S) |-> IF p[1] < n THEN p[2] \o more(p[1] + 1) ELSE p[2]]
  <1>1. n \in Nat /\ \A k \in 1 .. n : more(k) \in Seq(S)
    <2>1. n \in Nat
      BY LenProperties
    <2>2. \A k \in 1 .. n : texts[k] \in Seq(S)
      BY ElementOfSeq
    <2> QED
      BY <2>1, <2>2, ConcatProperties
  <1> HIDE DEF n, more
  <1>2. step \in [Nat \X Seq(S) -> Seq(S)]
    <2> SUFFICES ASSUME NEW p \in Nat \X Seq(S)
                 PROVE  (IF p[1] < n THEN p[2] \o more(p[1] + 1) ELSE p[2]) \in Seq(S)
      OBVIOUS
    <2>1. p[1] \in Nat /\ p[2] \in Seq(S)
      OBVIOUS
    <2>2. CASE p[1] < n
      <3>1. more(p[1] + 1) \in Seq(S)
        BY <1>1, <2>1, <2>2
      <3> QED
        BY <2>1, <2>2, <3>1, ConcatProperties
    <2>3. CASE ~(p[1] < n)
      BY <2>1, <2>3
    <2> QED
      BY <2>2, <2>3
  <1>3. PICK f \in [Nat -> Seq(S)] : Iterates(f, <<>>, step)
    <2> HIDE DEF step
    <2>1. <<>> \in Seq(S)
      BY EmptySeq
    <2> QED
      BY <1>2, <2>1, Recursion
  <1>4. \A k \in 0 .. n - 1 : f[k + 1] = f[k] \o more(k + 1)
    <2> TAKE k \in 0 .. n - 1
    <2>1. k \in Nat /\ k < n /\ f[k] \in Seq(S)
      BY <1>1, <1>3
    <2>2. step[<<k, f[k]>>] = f[k] \o more(k + 1)
      <3>1. <<k, f[k]>> \in Nat \X Seq(S) /\ <<k, f[k]>>[1] = k /\ <<k, f[k]>>[2] = f[k]
        BY <2>1
      <3> QED
        BY <2>1, <3>1
    <2> HIDE DEF step
    <2> QED
      BY <1>3, <2>1, <2>2 DEF Iterates
  <1> DEFINE g == [k \in N |-> f[k]]
  <1> HIDE DEF step
  <1>5. /\ g = [k \in N |-> g[k]] /\ g[0] = <<>> /\ \A k \in N : g[k] \in Seq(S)
        /\ \A k \in 0 .. n - 1 : g[k + 1] = g[k] \o more(k + 1)
    <2>1. g = [k \in N |-> g[k]] /\ \A k \in N : g[k] = f[k]
      OBVIOUS
    <2>2. f[0] = <<>> /\ \A k \in N : f[k] \in Seq(S)
      BY <1>1, <1>3 DEF Iterates
    <2>3. 0 \in N /\ \A k \in 0 .. n - 1 : k \in N /\ k + 1 \in N
      BY <1>1
    <2> HIDE DEF g
    <2> QED
      BY <1>4, <2>1, <2>2, <2>3
  <1>6. \A k \in N : g[k] = IF k = 0 THEN <<>> ELSE g[k - 1] \o more(k)
    <2> TAKE k \in N
    <2>1. CASE k = 0
      BY <1>5, <2>1
    <2>2. CASE k # 0
      <3>1. k - 1 \in 0 .. n - 1 /\ k - 1 + 1 = k
        BY <1>1, <2>2
      <3> QED
        BY <1>5, <2>2, <3>1
    <2> QED
      BY <2>1, <2>2
  <1> HIDE DEF g
  <1>7. Loop(g)
    BY <1>5, <1>6
  <1>8. Loop(u)
    <2> HIDE DEF Loop
    <2> QED
      BY <1>7
  <1>9. u = Upto(texts, separator)
    BY DEF Upto, more, n
  <1> HIDE DEF u
  <1>10. u[0] = <<>> /\ \A k \in 0 .. n - 1 : u[k + 1] = u[k] \o more(k + 1)
    <2>1. u[0] = <<>>
      BY <1>1, <1>8
    <2>2. ASSUME NEW k \in 0 .. n - 1 PROVE u[k + 1] = u[k] \o more(k + 1)
      <3> DEFINE i == k + 1
      <3>1. i \in N /\ i # 0 /\ i - 1 = k
        BY <1>1
      <3> HIDE DEF i
      <3>2. u[i] = IF i = 0 THEN <<>> ELSE u[i - 1] \o more(i)
        BY <1>8, <3>1
      <3> QED
        BY <3>1, <3>2 DEF i
    <2> QED
      BY <2>1, <2>2
  <1>11. \A k \in N : u[k] \in Seq(S)
    <2> DEFINE P == {k \in Nat : k <= n => u[k] \in Seq(S)}
    <2>1. 0 \in P
      BY <1>10, EmptySeq
    <2>2. ASSUME NEW k \in Nat, k \in P PROVE k + 1 \in P
      <3> SUFFICES ASSUME k + 1 <= n PROVE u[k + 1] \in Seq(S)
        OBVIOUS
      <3>1. k \in 0 .. n - 1 /\ u[k] \in Seq(S) /\ k + 1 \in 1 .. n
        BY <1>1, <2>2
      <3> QED
        BY <1>1, <1>10, <3>1, ConcatProperties
    <2>3. Nat \subseteq P
      <3> HIDE DEF P
      <3> QED
        BY <2>1, <2>2, Induction
    <2> QED
      BY <1>1, <2>3
  <1> QED
    BY <1>9, <1>10, <1>11 DEF n, more

\* Each text starts behind the one before it and a separator.
LEMMA StartSteps ==
  ASSUME NEW S, NEW texts \in Seq(Seq(S)), NEW separator \in Seq(S)
  PROVE  /\ Len(separator) \in Nat /\ Len(texts) \in Nat
         /\ Start(texts, separator, 0) = 0
         /\ \A k \in 0 .. Len(texts) : Start(texts, separator, k) \in Nat
         /\ \A k \in 1 .. Len(texts) : texts[k] \in Seq(S) /\ Len(texts[k]) \in Nat
         /\ \A k \in 0 .. Len(texts) - 1 :
              Start(texts, separator, k + 1)
                = Start(texts, separator, k) + Len(texts[k + 1]) + Len(separator)
  <1> DEFINE u == Upto(texts, separator)
  <1>1. /\ u[0] = <<>> /\ \A k \in 0 .. Len(texts) : u[k] \in Seq(S)
        /\ \A k \in 0 .. Len(texts) - 1 : u[k + 1] = u[k] \o (texts[k + 1] \o separator)
    BY UptoSteps
  <1> HIDE DEF u
  <1>2. Len(separator) \in Nat /\ Len(texts) \in Nat
    BY LenProperties
  <1>3. \A k \in 1 .. Len(texts) : texts[k] \in Seq(S) /\ Len(texts[k]) \in Nat
    BY ElementOfSeq, LenProperties
  <1>4. \A k \in 0 .. Len(texts) : Len(u[k]) \in Nat
    BY <1>1, LenProperties
  <1>5. ASSUME NEW k \in 0 .. Len(texts) - 1
        PROVE  Len(u[k + 1]) = Len(u[k]) + Len(texts[k + 1]) + Len(separator)
    <2>1. k + 1 \in 1 .. Len(texts) /\ k \in 0 .. Len(texts)
      BY <1>2
    <2> DEFINE t == texts[k + 1]
    <2>2. t \in Seq(S) /\ u[k] \in Seq(S) /\ u[k + 1] = u[k] \o (t \o separator)
      BY <1>1, <1>3, <2>1
    <2>3. Len(t) \in Nat /\ Len(u[k]) \in Nat
      BY <1>3, <1>4, <2>1
    <2> HIDE DEF t
    <2>4. t \o separator \in Seq(S) /\ Len(t \o separator) = Len(t) + Len(separator)
      BY <2>2, ConcatProperties
    <2>5. Len(u[k + 1]) = Len(u[k]) + Len(t \o separator)
      BY <2>2, <2>4, ConcatProperties
    <2> DEFINE a == Len(u[k])
               b == Len(t)
               c == Len(separator)
    <2>6. /\ a \in Nat /\ b \in Nat /\ c \in Nat /\ Len(t \o separator) = b + c
          /\ Len(u[k + 1]) = a + Len(t \o separator)
      BY <1>2, <2>3, <2>4, <2>5
    <2> HIDE DEF a, b, c
    <2>7. Len(u[k + 1]) = a + (b + c)
      BY <2>6
    <2>8. a + (b + c) = a + b + c
      BY <2>6
    <2>9. Len(u[k + 1]) = Len(u[k]) + Len(t) + Len(separator)
      BY <2>7, <2>8 DEF a, b, c
    <2> QED
      BY <2>9 DEF t
  <1>6. Len(<<>>) = 0
    OBVIOUS
  <1> QED
    BY <1>1, <1>2, <1>3, <1>4, <1>5, <1>6 DEF Start, u

\* A text does not start before one in front of it.
LEMMA StartsGrow ==
  ASSUME NEW S, NEW texts \in Seq(Seq(S)), NEW separator \in Seq(S),
         NEW j \in 0 .. Len(texts), NEW k \in 0 .. Len(texts), j <= k
  PROVE  Start(texts, separator, j) <= Start(texts, separator, k)
  <1> DEFINE n == Len(texts)
             s(i) == Start(texts, separator, i)
             P == {d \in Nat : j + d <= n => s(j) <= s(j + d)}
  <1>1. /\ n \in Nat /\ \A i \in 0 .. n : s(i) \in Nat
        /\ \A i \in 0 .. n - 1 : s(i) <= s(i + 1)
    <2>1. /\ n \in Nat /\ Len(separator) \in Nat /\ \A i \in 0 .. n : s(i) \in Nat
          /\ \A i \in 1 .. n : Len(texts[i]) \in Nat
          /\ \A i \in 0 .. n - 1 : s(i + 1) = s(i) + Len(texts[i + 1]) + Len(separator)
      BY StartSteps
    <2> HIDE DEF s, n
    <2>2. ASSUME NEW i \in 0 .. n - 1 PROVE s(i) <= s(i + 1)
      <3>1. i \in 0 .. n /\ i + 1 \in 1 .. n
        BY <2>1
      <3>2. s(i) \in Nat /\ Len(texts[i + 1]) \in Nat
        BY <2>1, <3>1
      <3> QED
        BY <2>1, <3>2
    <2> QED
      BY <2>1, <2>2
  <1> HIDE DEF s
  <1>2. 0 \in P
    BY <1>1
  <1>3. ASSUME NEW d \in Nat, d \in P PROVE d + 1 \in P
    <2> SUFFICES ASSUME j + (d + 1) <= n PROVE s(j) <= s(j + (d + 1))
      OBVIOUS
    <2>1. j + d \in 0 .. n - 1 /\ j + d + 1 = j + (d + 1) /\ s(j) <= s(j + d)
      BY <1>1, <1>3
    <2>2. s(j + d) <= s(j + (d + 1)) /\ s(j + d) \in Nat /\ s(j + (d + 1)) \in Nat /\ s(j) \in Nat
      BY <1>1, <2>1
    <2> QED
      BY <2>1, <2>2
  <1>4. Nat \subseteq P
    <2> HIDE DEF P
    <2> QED
      BY <1>2, <1>3, Induction
  <1> DEFINE d == k - j
  <1>5. d \in Nat /\ j + d = k /\ j + d <= n
    BY <1>1
  <1> HIDE DEF d
  <1>6. d \in P
    BY <1>4, <1>5
  <1>7. s(j) <= s(j + d)
    BY <1>5, <1>6
  <1> QED
    BY <1>5, <1>7 DEF s

\* Two texts one behind the other are in memory one behind the other.
LEMMA HoldsBoth ==
  ASSUME NEW S, NEW s \in Seq(S), NEW t \in Seq(S), NEW m, NEW at \in Int
  PROVE  Holds(m, at, s \o t) <=> Holds(m, at, s) /\ Holds(m, at + Len(s), t)
  <1>1. /\ Len(s \o t) = Len(s) + Len(t)
        /\ \A i \in 1 .. Len(s) + Len(t) :
             (s \o t)[i] = IF i <= Len(s) THEN s[i] ELSE t[i - Len(s)]
    BY ConcatProperties
  <1>2. Len(s) \in Nat /\ Len(t) \in Nat
    BY LenProperties
  <1> DEFINE a == Len(s)
             b == Len(t)
             u == s \o t
  <1> HIDE DEF a, b, u
  <1>3. /\ a \in Nat /\ b \in Nat /\ Len(u) = a + b
        /\ \A i \in 1 .. a + b : u[i] = IF i <= a THEN s[i] ELSE t[i - a]
    BY <1>1, <1>2 DEF a, b, u
  <1>4. ASSUME Holds(m, at, u) PROVE Holds(m, at, s) /\ Holds(m, at + a, t)
    <2>1. \A i \in 1 .. a + b : m[at + i - 1] = u[i]
      BY <1>3, <1>4 DEF Holds
    <2>2. ASSUME NEW i \in 1 .. a PROVE m[at + i - 1] = s[i]
      <3>1. i \in 1 .. a + b /\ i <= a
        BY <1>3
      <3> QED
        BY <1>3, <2>1, <3>1
    <2>3. ASSUME NEW i \in 1 .. b PROVE m[at + a + i - 1] = t[i]
      <3> DEFINE j == a + i
      <3>1. j \in 1 .. a + b /\ ~(j <= a) /\ j - a = i /\ at + j - 1 = at + a + i - 1
        BY <1>3
      <3> HIDE DEF j
      <3>2. m[at + j - 1] = u[j] /\ u[j] = t[j - a]
        BY <1>3, <2>1, <3>1
      <3> QED
        BY <3>1, <3>2
    <2> QED
      BY <2>2, <2>3 DEF Holds, a, b
  <1>5. ASSUME Holds(m, at, s), Holds(m, at + a, t) PROVE Holds(m, at, u)
    <2>1. /\ \A i \in 1 .. a : m[at + i - 1] = s[i]
          /\ \A i \in 1 .. b : m[at + a + i - 1] = t[i]
      BY <1>5 DEF Holds, a, b
    <2>2. ASSUME NEW i \in 1 .. a + b PROVE m[at + i - 1] = u[i]
      <3>1. CASE i <= a
        <4>1. i \in 1 .. a
          BY <1>3, <3>1
        <4> QED
          BY <1>3, <2>1, <3>1, <4>1
      <3>2. CASE ~(i <= a)
        <4>1. i - a \in 1 .. b /\ at + a + (i - a) - 1 = at + i - 1
          BY <1>3, <3>2
        <4> QED
          BY <1>3, <2>1, <3>2, <4>1
      <3> QED
        BY <3>1, <3>2
    <2> QED
      BY <1>3, <2>2 DEF Holds
  <1> QED
    BY <1>4, <1>5 DEF a, u

\* Joined texts are a text: the ones up to the last with their separators, and the last.
LEMMA JoinShape ==
  ASSUME NEW S, NEW texts \in Seq(Seq(S)), NEW separator \in Seq(S), NEW n, n = Len(texts), n # 0
  PROVE  /\ n \in Nat \ {0} /\ Join(texts, separator) \in Seq(S)
         /\ Len(Join(texts, separator)) = Start(texts, separator, n - 1) + Len(texts[n])
         /\ \A m, at : at \in Int =>
              (Holds(m, at, Join(texts, separator)) <=>
                 /\ Holds(m, at, Upto(texts, separator)[n - 1])
                 /\ Holds(m, at + Start(texts, separator, n - 1), texts[n]))
  <1>1. n \in Nat \ {0} /\ n - 1 \in 0 .. n /\ n \in 1 .. n
    BY LenProperties
  <1> DEFINE s == Upto(texts, separator)[n - 1]
             t == texts[n]
  <1>2. s \in Seq(S)
    BY <1>1, UptoSteps
  <1>3. t \in Seq(S)
    BY <1>1, ElementOfSeq
  <1>4. Join(texts, separator) = s \o t /\ Start(texts, separator, n - 1) = Len(s)
    BY DEF Join, Start
  <1> HIDE DEF s, t
  <1>5. s \o t \in Seq(S) /\ Len(s \o t) = Len(s) + Len(t)
    BY <1>2, <1>3, ConcatProperties
  <1>6. ASSUME NEW m, NEW at, at \in Int
        PROVE  Holds(m, at, s \o t) <=> Holds(m, at, s) /\ Holds(m, at + Len(s), t)
    BY <1>2, <1>3, <1>6, HoldsBoth
  <1> QED
    BY <1>1, <1>4, <1>5, <1>6 DEF s, t

\* Where joined texts are, each of them is, and the separators are between them.
LEMMA JoinHolds ==
  ASSUME NEW S, NEW texts \in Seq(Seq(S)), NEW separator \in Seq(S), NEW n, n = Len(texts), n # 0,
         NEW m, NEW at \in Int, Holds(m, at, Join(texts, separator))
  PROVE  \A k \in 0 .. n - 1 :
           LET start == at + Start(texts, separator, k)
           IN  /\ Holds(m, start, texts[k + 1])
               /\ k < n - 1 => Holds(m, start + Len(texts[k + 1]), separator)
  <1> DEFINE u    == Upto(texts, separator)
             s(k) == Start(texts, separator, k)
             P    == {d \in Nat : d <= n - 1 => Holds(m, at, u[n - 1 - d])}
  <1>1. /\ n \in Nat \ {0} /\ Holds(m, at, u[n - 1]) /\ Holds(m, at + s(n - 1), texts[n])
    BY JoinShape
  <1>2. /\ \A k \in 0 .. n : u[k] \in Seq(S)
        /\ \A k \in 0 .. n - 1 : u[k + 1] = u[k] \o (texts[k + 1] \o separator)
    BY UptoSteps
  <1>3. \A k \in 1 .. n : texts[k] \in Seq(S)
    BY StartSteps
  <1>4. \A k \in 0 .. n : s(k) = Len(u[k]) /\ s(k) \in Nat
    BY StartSteps DEF Start
  <1> HIDE DEF u, s
  <1>5. ASSUME NEW k \in 0 .. n - 1, Holds(m, at, u[k + 1])
        PROVE  /\ Holds(m, at, u[k]) /\ Holds(m, at + s(k), texts[k + 1])
               /\ Holds(m, at + s(k) + Len(texts[k + 1]), separator)
    <2> DEFINE t == texts[k + 1]
    <2>1. /\ k \in 0 .. n /\ u[k] \in Seq(S) /\ t \in Seq(S) /\ t \o separator \in Seq(S)
          /\ s(k) = Len(u[k]) /\ at + s(k) \in Int /\ u[k + 1] = u[k] \o (t \o separator)
      <3>1. k \in 0 .. n /\ k + 1 \in 1 .. n
        BY <1>1
      <3>2. t \in Seq(S)
        BY <1>3, <3>1
      <3>4. u[k + 1] = u[k] \o (t \o separator)
        BY <1>2
      <3> HIDE DEF t
      <3>3. t \o separator \in Seq(S)
        BY <3>2, ConcatProperties
      <3>5. s(k) = Len(u[k]) /\ s(k) \in Nat /\ u[k] \in Seq(S)
        BY <1>2, <1>4, <3>1
      <3>6. at + s(k) \in Int
        BY <3>5
      <3> QED
        BY <3>1, <3>2, <3>3, <3>4, <3>5, <3>6
    <2> HIDE DEF t
    <2>2. Holds(m, at, u[k]) /\ Holds(m, at + s(k), t \o separator)
      <3>1. Holds(m, at, u[k] \o (t \o separator))
        BY <1>5, <2>1
      <3> DEFINE v == t \o separator
                 w == u[k]
      <3>2. v \in Seq(S) /\ w \in Seq(S) /\ Holds(m, at, w \o v)
        BY <2>1, <3>1
      <3> HIDE DEF v, w
      <3>3. Holds(m, at, w) /\ Holds(m, at + Len(w), v)
        BY <3>2, HoldsBoth
      <3> QED
        BY <2>1, <3>3 DEF v, w
    <2>3. Holds(m, at + s(k), t) /\ Holds(m, at + s(k) + Len(t), separator)
      BY <2>1, <2>2, HoldsBoth
    <2> QED
      BY <2>2, <2>3 DEF t
  <1>6. 0 \in P
    BY <1>1
  <1>7. ASSUME NEW d \in Nat, d \in P PROVE d + 1 \in P
    <2> SUFFICES ASSUME d + 1 <= n - 1 PROVE Holds(m, at, u[n - 1 - (d + 1)])
      OBVIOUS
    <2>1. n - 1 - (d + 1) \in 0 .. n - 1 /\ n - 1 - (d + 1) + 1 = n - 1 - d /\ d <= n - 1
      BY <1>1
    <2> QED
      BY <1>5, <1>7, <2>1
  <1>8. Nat \subseteq P
    <2> HIDE DEF P
    <2> QED
      BY <1>6, <1>7, Induction
  <1>9. ASSUME NEW k \in 0 .. n - 1 PROVE Holds(m, at, u[k])
    <2> DEFINE d == n - 1 - k
    <2>1. d \in Nat /\ n - 1 - d = k /\ d <= n - 1
      BY <1>1
    <2> HIDE DEF d
    <2>2. d \in P
      BY <1>8, <2>1
    <2> QED
      BY <2>1, <2>2
  <1>10. ASSUME NEW k \in 0 .. n - 1
         PROVE  /\ Holds(m, at + s(k), texts[k + 1])
                /\ k < n - 1 => Holds(m, at + s(k) + Len(texts[k + 1]), separator)
    <2>1. CASE k = n - 1
      BY <1>1, <2>1
    <2>2. CASE k < n - 1
      <3>1. k + 1 \in 0 .. n - 1
        BY <1>1, <2>2
      <3> QED
        BY <1>5, <1>9, <3>1
    <2> QED
      BY <1>1, <2>1, <2>2
  <1> QED
    BY <1>10 DEF s

-----------------------------------------------------------------------------
(* The texts of a request.                                                 *)

\* A function on the first numbers is a sequence.
LEMMA FunctionIsSeq ==
  ASSUME NEW S, NEW n \in Nat, NEW f \in [1 .. n -> S]
  PROVE  f \in Seq(S)
  OBVIOUS

\* A text of some characters is one of more.
LEMMA SeqWidens ==
  ASSUME NEW S, NEW T, S \subseteq T, NEW s \in Seq(S)
  PROVE  s \in Seq(T)
  <1>1. Len(s) \in Nat /\ s \in [1 .. Len(s) -> S]
    BY LenProperties
  <1>2. s \in [1 .. Len(s) -> T]
    BY <1>1
  <1> QED
    BY <1>1, <1>2, FunctionIsSeq

\* A text of one character.
LEMMA OneCharacter ==
  ASSUME NEW S, NEW c \in S
  PROVE  <<c>> \in Seq(S) /\ Len(<<c>>) = 1 /\ <<c>>[1] = c
  OBVIOUS

\* CRLF is a text of two characters.
LEMMA LineEnd ==
  CRLF \in Seq(Char) /\ Len(CRLF) = 2 /\ CRLF[1] = CR /\ CRLF[2] = LF
  BY DEF CRLF, CR, LF, Char

\* A copy holds the text, and a terminator behind it.
LEMMA MemoryHolds ==
  ASSUME NEW S, NEW text \in Seq(S)
  PROVE  Holds(Memory(text), 0, text) /\ Memory(text)[Len(text)] = NUL
  <1>1. Len(text) \in Nat
    BY LenProperties
  <1> DEFINE n == Len(text)
  <1> HIDE DEF n
  <1>2. Memory(text) = [a \in 0 .. n |-> IF a < n THEN text[a + 1] ELSE NUL] /\ n \in Nat
    BY <1>1 DEF Memory, n
  <1>3. ASSUME NEW i \in 1 .. n PROVE Memory(text)[0 + i - 1] = text[i]
    <2> DEFINE a == 0 + i - 1
    <2>1. a \in 0 .. n /\ a < n /\ a + 1 = i
      BY <1>2
    <2> HIDE DEF a
    <2>2. Memory(text)[a] = text[a + 1]
      BY <1>2, <2>1
    <2> QED
      BY <2>1, <2>2 DEF a
  <1>4. n \in 0 .. n /\ ~(n < n)
    BY <1>2
  <1> QED
    BY <1>2, <1>3, <1>4 DEF Holds, n

\* The text of a reference to where a text is.
LEMMA HoldsText ==
  ASSUME NEW S, NEW text \in Seq(S), NEW m, NEW at \in Int, Holds(m, at, text)
  PROVE  TextOf(m, [str |-> at, len |-> Len(text)]) = text
  <1>1. text = [i \in 1 .. Len(text) |-> text[i]]
    OBVIOUS
  <1>2. \A i \in 1 .. Len(text) : m[at + i - 1] = text[i]
    BY DEF Holds
  <1>3. TextOf(m, [str |-> at, len |-> Len(text)]) = [i \in 1 .. Len(text) |-> m[at + i - 1]]
    BY DEF TextOf
  <1> QED
    BY <1>1, <1>2, <1>3

\* A character in front of a text.
LEMMA BehindOne ==
  ASSUME NEW S, NEW c \in S, NEW t \in Seq(S)
  PROVE  /\ <<c>> \o t \in Seq(S) /\ Len(<<c>> \o t) = 1 + Len(t)
         /\ \A m, at : at \in Int /\ Holds(m, at, <<c>> \o t) => m[at] = c /\ Holds(m, at + 1, t)
  <1> DEFINE one == <<c>>
             n   == Len(t)
  <1>1. one \in Seq(S) /\ Len(one) = 1 /\ one[1] = c
    BY OneCharacter
  <1> HIDE DEF one
  <1>2. one \o t \in Seq(S) /\ Len(one \o t) = Len(one) + Len(t)
    BY <1>1, ConcatProperties
  <1>3. ASSUME NEW m, NEW at \in Int, Holds(m, at, one \o t)
        PROVE  m[at] = c /\ Holds(m, at + 1, t)
    <2>1. Holds(m, at, one) /\ Holds(m, at + Len(one), t)
      BY <1>1, <1>3, HoldsBoth
    <2>2. m[at + 1 - 1] = c
      BY <1>1, <2>1 DEF Holds
    <2>3. at + 1 - 1 = at
      OBVIOUS
    <2> QED
      BY <1>1, <2>1, <2>2, <2>3
  <1>4. Len(one \o t) = 1 + n
    <2>1. Len(one \o t) = Len(one) + n
      BY <1>2
    <2> HIDE DEF n
    <2> QED
      BY <1>1, <2>1
  <1> QED
    BY <1>2, <1>3, <1>4 DEF one, n

\* What the assumption says of each request.
LEMMA RequestFields ==
  ASSUME NEW r \in Requests
  PROVE  /\ r.words \in 1 .. 3 /\ r.method \in Seq(Char \ {SP}) /\ r.path \in Seq(Piece)
         /\ r.query \in Seq(Seq(Char \ {SP, Ampersand})) /\ r.version \in Seq(Char)
         /\ r.options \in Seq(Option) /\ r.complete \in BOOLEAN /\ r.body \in Seq(Char)
         /\ IsSplit(r)
  BY RequestsAssumption DEF Request

\* A piece has a text of its own, without a blank or a question mark.
LEMMA PieceTexts ==
  ASSUME NEW p \in Piece
  PROVE  /\ p.text \in Seq(Char \ {SP, QuestionMark}) /\ Len(p.text) \in 1 .. 3
         /\ \/ \E c \in Char \ {SP, Plus, QuestionMark} : p.text = <<c>> /\ p.means = c
            \/ p.text = <<Plus>> /\ p.means = SP
            \/ \E a \in HexDigits, b \in HexDigits :
                 p.text = <<Percent, a, b>> /\ p.means = Unescaped(a, b)
  <1> DEFINE C == Char \ {SP, QuestionMark}
  <1>1. Plus \in C /\ Percent \in C /\ HexDigits \subseteq C
    BY DEF Plus, Percent, HexDigits, Digits, UpperHex, LowerHex, Char, SP, QuestionMark
  <1>2. Char \ {SP, Plus, QuestionMark} \subseteq C
    OBVIOUS
  <1> HIDE DEF C
  <1>3. \/ \E c \in Char \ {SP, Plus, QuestionMark} : p = [text |-> <<c>>, means |-> c]
        \/ p = [text |-> <<Plus>>, means |-> SP]
        \/ \E a \in HexDigits, b \in HexDigits :
             p = [text |-> <<Percent, a, b>>, means |-> Unescaped(a, b)]
    BY DEF Piece
  <1>4. CASE \E c \in Char \ {SP, Plus, QuestionMark} : p = [text |-> <<c>>, means |-> c]
    <2>1. PICK c \in Char \ {SP, Plus, QuestionMark} : p = [text |-> <<c>>, means |-> c]
      BY <1>4
    <2>2. c \in C /\ p.text = <<c>> /\ p.means = c
      BY <1>2, <2>1
    <2>3. <<c>> \in Seq(C) /\ Len(<<c>>) = 1
      BY <2>2
    <2> QED
      BY <2>1, <2>2, <2>3 DEF C
  <1>5. CASE p = [text |-> <<Plus>>, means |-> SP]
    <2>1. p.text = <<Plus>> /\ p.means = SP
      BY <1>5
    <2>2. <<Plus>> \in Seq(C) /\ Len(<<Plus>>) = 1
      BY <1>1
    <2> QED
      BY <2>1, <2>2 DEF C
  <1>6. CASE \E a \in HexDigits, b \in HexDigits :
               p = [text |-> <<Percent, a, b>>, means |-> Unescaped(a, b)]
    <2>1. PICK a \in HexDigits, b \in HexDigits :
            p = [text |-> <<Percent, a, b>>, means |-> Unescaped(a, b)]
      BY <1>6
    <2>2. p.text = <<Percent, a, b>> /\ p.means = Unescaped(a, b) /\ a \in C /\ b \in C
      BY <1>1, <2>1
    <2>3. <<Percent, a, b>> \in Seq(C) /\ Len(<<Percent, a, b>>) = 3
      BY <1>1, <2>2
    <2> QED
      BY <2>2, <2>3 DEF C
  <1> QED
    BY <1>3, <1>4, <1>5, <1>6

PieceTextsOf(r) == [i \in DOMAIN r.path |-> r.path[i].text]

\* The texts of the pieces of a path.
LEMMA PathIsText ==
  ASSUME NEW r \in Requests
  PROVE  /\ PieceTextsOf(r) \in Seq(Seq(Char \ {SP, QuestionMark}))
         /\ Len(PieceTextsOf(r)) = Len(r.path) /\ Len(r.path) \in Nat
         /\ \A i \in 1 .. Len(r.path) : PieceTextsOf(r)[i] = r.path[i].text /\ r.path[i] \in Piece
         /\ <<>> \in Seq(Char \ {SP, QuestionMark})
         /\ PathText(r) \in Seq(Char \ {SP, QuestionMark})
         /\ Len(PathText(r)) = Start(PieceTextsOf(r), <<>>, Len(r.path))
         /\ PathText(r) = Upto(PieceTextsOf(r), <<>>)[Len(r.path)]
  <1> DEFINE C     == Char \ {SP, QuestionMark}
             texts == PieceTextsOf(r)
             n     == Len(r.path)
  <1>1. r.path \in Seq(Piece)
    BY RequestFields
  <1>2. n \in Nat /\ DOMAIN r.path = 1 .. n /\ \A i \in 1 .. n : r.path[i] \in Piece
    BY <1>1, LenProperties, ElementOfSeq
  <1> HIDE DEF n
  <1>3. texts \in [1 .. n -> Seq(C)] /\ \A i \in 1 .. n : texts[i] = r.path[i].text
    <2>1. \A i \in 1 .. n : r.path[i].text \in Seq(C)
      BY <1>2, PieceTexts
    <2> QED
      BY <1>2, <2>1 DEF PieceTextsOf
  <1> HIDE DEF texts, C
  <1>4. texts \in Seq(Seq(C)) /\ Len(texts) = n
    BY <1>2, <1>3, FunctionIsSeq
  <1>5. <<>> \in Seq(C)
    BY EmptySeq
  <1>6. PathText(r) = Upto(texts, <<>>)[n]
    BY <1>4 DEF PathText, Concat, texts, PieceTextsOf
  <1>7. Upto(texts, <<>>)[n] \in Seq(C)
    <2> DEFINE e == <<>>
    <2>1. e \in Seq(C) /\ n \in 0 .. Len(texts)
      BY <1>2, <1>4, <1>5
    <2> HIDE DEF e
    <2>2. Upto(texts, e)[n] \in Seq(C)
      BY <1>4, <2>1, UptoSteps
    <2> QED
      BY <2>2 DEF e
  <1> QED
    BY <1>2, <1>3, <1>4, <1>5, <1>6, <1>7 DEF C, n, texts, Start

\* The query, as one text behind its question mark.
QueryText(r) == Join(r.query, <<Ampersand>>)

\* The parameters of a query are texts without spaces, and so is the query.
LEMMA QueryIsText ==
  ASSUME NEW r \in Requests
  PROVE  /\ r.query \in Seq(Seq(Char \ {SP})) /\ <<Ampersand>> \in Seq(Char \ {SP})
         /\ Len(r.query) \in Nat
         /\ \A k \in 1 .. Len(r.query) : r.query[k] \in Seq(Char \ {SP, Ampersand})
         /\ r.query # <<>> => Len(r.query) # 0 /\ QueryText(r) \in Seq(Char \ {SP})
  <1> DEFINE C == Char \ {SP}
             D == Char \ {SP, Ampersand}
             q == r.query
             sep == <<Ampersand>>
  <1>1. q \in Seq(Seq(D))
    BY RequestFields
  <1>2. D \subseteq C
    OBVIOUS
  <1>3. Ampersand \in C
    BY DEF Ampersand, SP, Char
  <1> HIDE DEF C, D, q
  <1>4. sep \in Seq(C)
    BY <1>3
  <1>5. Seq(D) \subseteq Seq(C)
    BY <1>2, SeqWidens
  <1>6. q \in Seq(Seq(C))
    BY <1>1, <1>5, SeqWidens
  <1>7. Len(q) \in Nat /\ \A k \in 1 .. Len(q) : q[k] \in Seq(D)
    BY <1>1, LenProperties, ElementOfSeq
  <1>8. q # <<>> => Len(q) # 0
    BY <1>1, EmptySeq
  <1>9. q # <<>> => Join(q, sep) \in Seq(C)
    <2> HIDE DEF sep
    <2> QED
      BY <1>4, <1>6, <1>8, JoinShape
  <1> QED
    BY <1>4, <1>6, <1>7, <1>8, <1>9 DEF C, D, q, QueryText

\* The url is the path, and behind a question mark the query.
LEMMA UrlIsText ==
  ASSUME NEW r \in Requests
  PROVE  /\ UrlText(r) \in Seq(Char \ {SP})
         /\ r.query = <<>> => UrlText(r) = PathText(r)
         /\ r.query # <<>> =>
              /\ Len(UrlText(r)) = Len(PathText(r)) + 1 + Len(QueryText(r))
              /\ \A m, at : at \in Int /\ Holds(m, at, UrlText(r)) =>
                   /\ m[at + Len(PathText(r))] = QuestionMark
                   /\ Holds(m, at + Len(PathText(r)) + 1, QueryText(r))
         /\ \A m, at : at \in Int /\ Holds(m, at, UrlText(r)) => Holds(m, at, PathText(r))
  <1> DEFINE C == Char \ {SP}
             p == PathText(r)
             q == QueryText(r)
  <1>1. p \in Seq(C)
    <2>1. Char \ {SP, QuestionMark} \subseteq C
      OBVIOUS
    <2> HIDE DEF C
    <2> QED
      BY <2>1, PathIsText, SeqWidens
  <1>2. QuestionMark \in C
    BY DEF QuestionMark, SP, Char
  <1>3. r.query # <<>> => q \in Seq(C)
    BY QueryIsText
  <1>4. UrlText(r) = p \o IF r.query = <<>> THEN <<>> ELSE <<QuestionMark>> \o q
    BY DEF UrlText, QueryText
  <1> HIDE DEF C, p, q
  <1>5. CASE r.query = <<>>
    <2>1. UrlText(r) = p
      <3>1. p \o <<>> = p
        BY <1>1, ConcatEmptySeq
      <3> QED
        BY <1>4, <1>5, <3>1
    <2> QED
      BY <1>1, <1>5, <2>1 DEF C, p
  <1>6. CASE r.query # <<>>
    <2>1. UrlText(r) = p \o (<<QuestionMark>> \o q) /\ q \in Seq(C)
      BY <1>3, <1>4, <1>6
    <2> DEFINE b == <<QuestionMark>> \o q
    <2>2. b \in Seq(C) /\ Len(b) = 1 + Len(q)
      BY <1>2, <2>1, BehindOne
    <2>3. ASSUME NEW m, NEW at \in Int, Holds(m, at, b)
          PROVE  m[at] = QuestionMark /\ Holds(m, at + 1, q)
      BY <1>2, <2>1, <2>3, BehindOne
    <2> HIDE DEF b
    <2>4. UrlText(r) = p \o b
      BY <2>1 DEF b
    <2>5. p \o b \in Seq(C) /\ Len(p \o b) = Len(p) + Len(b)
      BY <1>1, <2>2, ConcatProperties
    <2>6. ASSUME NEW m, NEW at \in Int, Holds(m, at, p \o b)
          PROVE  /\ m[at + Len(p)] = QuestionMark /\ Holds(m, at + Len(p) + 1, q)
                 /\ Holds(m, at, p)
      <3>1. Holds(m, at, p) /\ Holds(m, at + Len(p), b)
        BY <1>1, <2>2, <2>6, HoldsBoth
      <3>2. at + Len(p) \in Int
        BY <1>1, LenProperties
      <3> QED
        BY <2>3, <3>1, <3>2
    <2>7. Len(p) \in Nat /\ Len(q) \in Nat
      BY <1>1, <2>1, LenProperties
    <2>8. Len(p \o b) = Len(p) + 1 + Len(q)
      <3> DEFINE x == Len(p)
                 y == Len(q)
                 z == Len(b)
      <3>1. x \in Nat /\ y \in Nat /\ z = 1 + y /\ Len(p \o b) = x + z
        BY <2>2, <2>5, <2>7
      <3> HIDE DEF x, y, z
      <3>2. x + z = x + 1 + y
        BY <3>1
      <3> QED
        BY <3>1, <3>2 DEF x, y
    <2> QED
      BY <1>6, <2>4, <2>5, <2>6, <2>8 DEF C, p, q
  <1> QED
    BY <1>5, <1>6

\* What is held by the first text and by the text behind it.
LEMMA FirstLineIsText ==
  ASSUME NEW r \in Requests
  PROVE  /\ FirstLine(r) \in Seq(Char) /\ Len(r.method) \in Nat /\ Len(UrlText(r)) \in Nat
         /\ Len(r.version) \in Nat /\ Len(r.method) <= Len(FirstLine(r))
         /\ r.words = 3 =>
              Len(FirstLine(r)) = Len(r.method) + Len(UrlText(r)) + 2 + Len(r.version)
         /\ \A m : Holds(m, 0, FirstLine(r)) =>
              /\ Holds(m, 0, r.method)
              /\ r.words = 3 =>
                   /\ m[Len(r.method)] = SP /\ Holds(m, Len(r.method) + 1, UrlText(r))
                   /\ m[Len(r.method) + 1 + Len(UrlText(r))] = SP
                   /\ Holds(m, Len(r.method) + Len(UrlText(r)) + 2, r.version)
  <1> DEFINE u == UrlText(r)
             v == r.version
             w == r.method
             a == Len(w)
             b == Len(u)
             c == Len(v)
             x == IF r.words >= 2 THEN <<SP>> \o u ELSE <<>>
             y == IF r.words = 3 THEN <<SP>> \o v ELSE <<>>
  <1>1. u \in Seq(Char) /\ v \in Seq(Char) /\ w \in Seq(Char) /\ SP \in Char
    <2>1. Char \ {SP} \subseteq Char
      OBVIOUS
    <2>2. u \in Seq(Char \ {SP}) /\ v \in Seq(Char) /\ w \in Seq(Char \ {SP})
      BY UrlIsText, RequestFields
    <2>3. SP \in Char
      BY DEF SP, Char
    <2> HIDE DEF u, v, w
    <2> QED
      BY <2>1, <2>2, <2>3, SeqWidens
  <1>2. FirstLine(r) = (w \o x) \o y
    BY DEF FirstLine
  <1>3. a \in Nat /\ b \in Nat /\ c \in Nat
    BY <1>1, LenProperties
  <1> HIDE DEF u, v, w
  <1>4. x \in Seq(Char) /\ y \in Seq(Char)
    <2>1. <<>> \in Seq(Char)
      BY EmptySeq
    <2>2. <<SP>> \o u \in Seq(Char) /\ <<SP>> \o v \in Seq(Char)
      BY <1>1, BehindOne
    <2> QED
      BY <2>1, <2>2
  <1>5. r.words = 3 => /\ x = <<SP>> \o u /\ y = <<SP>> \o v
                       /\ Len(x) = 1 + b /\ Len(y) = 1 + c
    BY <1>1, BehindOne
  <1>6. ASSUME NEW m, NEW at \in Int, r.words = 3
        PROVE  /\ Holds(m, at, x) => m[at] = SP /\ Holds(m, at + 1, u)
               /\ Holds(m, at, y) => m[at] = SP /\ Holds(m, at + 1, v)
    <2>1. x = <<SP>> \o u /\ y = <<SP>> \o v
      BY <1>5, <1>6
    <2> HIDE DEF x, y
    <2>2. Holds(m, at, <<SP>> \o u) => m[at] = SP /\ Holds(m, at + 1, u)
      BY <1>1, <1>6, BehindOne
    <2>3. Holds(m, at, <<SP>> \o v) => m[at] = SP /\ Holds(m, at + 1, v)
      BY <1>1, <1>6, BehindOne
    <2> QED
      BY <2>1, <2>2, <2>3
  <1> DEFINE k == Len(x)
             l == Len(y)
  <1>7. k \in Nat /\ l \in Nat
    BY <1>4, LenProperties
  <1> HIDE DEF x, y
  <1> DEFINE s == w \o x
  <1>8. s \in Seq(Char) /\ Len(s) = a + k
    BY <1>1, <1>4, ConcatProperties
  <1>9. s \o y \in Seq(Char) /\ Len(s \o y) = Len(s) + l
    <2> HIDE DEF s
    <2> QED
      BY <1>4, <1>8, ConcatProperties
  <1>10. ASSUME NEW m, Holds(m, 0, s \o y)
         PROVE  Holds(m, 0, w) /\ Holds(m, a, x) /\ Holds(m, a + k, y)
    <2> DEFINE o == 0
    <2>1. o \in Int /\ o + a = a /\ o + Len(s) = a + k
      BY <1>3, <1>7, <1>8
    <2>2. Holds(m, o, s \o y)
      BY <1>10
    <2> HIDE DEF o, s
    <2>3. Holds(m, o, s) /\ Holds(m, o + Len(s), y)
      BY <1>4, <1>8, <2>1, <2>2, HoldsBoth
    <2>4. Holds(m, o, w) /\ Holds(m, o + a, x)
      BY <1>1, <1>4, <2>1, <2>3, HoldsBoth DEF s
    <2> QED
      BY <2>1, <2>3, <2>4 DEF o
  <1>11. ASSUME NEW m, Holds(m, 0, s \o y), r.words = 3
         PROVE  /\ m[a] = SP /\ Holds(m, a + 1, u) /\ m[a + 1 + b] = SP
                /\ Holds(m, a + b + 2, v)
    <2>1. Holds(m, a, x) /\ Holds(m, a + k, y) /\ k = 1 + b
      BY <1>5, <1>10, <1>11
    <2> HIDE DEF a, b, k
    <2>2. a + k \in Int /\ a \in Int /\ a + k = a + 1 + b /\ a + k + 1 = a + b + 2
      BY <1>3, <2>1
    <2> QED
      BY <1>6, <1>11, <2>1, <2>2
  <1>12. Len(s \o y) = a + k + l /\ (r.words = 3 => k = 1 + b /\ l = 1 + c)
    BY <1>5, <1>8, <1>9
  <1> HIDE DEF a, b, c, k, l
  <1>13. a <= a + k + l /\ (r.words = 3 => a + k + l = a + b + 2 + c)
    BY <1>3, <1>7, <1>12
  <1>14. FirstLine(r) = s \o y
    BY <1>2
  <1> HIDE DEF s
  <1> QED
    BY <1>3, <1>9, <1>10, <1>11, <1>12, <1>13, <1>14 DEF a, b, c, u, v, w

\* The lines are texts, the first is the one with the url.
LEMMA LinesAreTexts ==
  ASSUME NEW r \in Requests
  PROVE  /\ Lines(r) \in Seq(Seq(Char)) /\ Len(Lines(r)) = 1 + Len(r.options)
         /\ Len(r.options) \in Nat /\ Len(Lines(r)) \in Nat \ {0}
         /\ (r.options = <<>> <=> Len(Lines(r)) = 1)
         /\ Lines(r)[1] = FirstLine(r)
         /\ \A i \in 1 .. Len(r.options) : Lines(r)[i + 1] = r.options[i].line
  <1> DEFINE n == Len(r.options)
             o == [i \in DOMAIN r.options |-> r.options[i].line]
             f == FirstLine(r)
             S == Seq(Char)
             l == <<f>> \o o
  <1>1. r.options \in Seq(Option)
    BY RequestFields
  <1>2. n \in Nat /\ DOMAIN r.options = 1 .. n /\ \A i \in 1 .. n : r.options[i].line \in S
    <2>1. n \in Nat /\ DOMAIN r.options = 1 .. n /\ \A i \in 1 .. n : r.options[i] \in Option
      BY <1>1, LenProperties, ElementOfSeq
    <2> QED
      BY <2>1 DEF Option
  <1>3. f \in S
    BY FirstLineIsText
  <1>4. r.options = <<>> <=> n = 0
    BY <1>1, EmptySeq
  <1>5. Lines(r) = l
    BY DEF Lines
  <1> HIDE DEF n, f, S
  <1>6. o \in [1 .. n -> S] /\ \A i \in 1 .. n : o[i] = r.options[i].line
    BY <1>2
  <1> HIDE DEF o
  <1>7. o \in Seq(S) /\ Len(o) = n
    BY <1>2, <1>6, FunctionIsSeq
  <1> DEFINE one == <<f>>
  <1>8. one \in Seq(S) /\ Len(one) = 1 /\ one[1] = f
    BY <1>3, OneCharacter
  <1>9. l = one \o o
    OBVIOUS
  <1> HIDE DEF one, l
  <1>10. /\ l \in Seq(S) /\ Len(l) = Len(one) + Len(o)
         /\ \A i \in 1 .. Len(one) + Len(o) :
              l[i] = IF i <= Len(one) THEN one[i] ELSE o[i - Len(one)]
    BY <1>7, <1>8, <1>9, ConcatProperties
  <1>11. Len(l) = 1 + n /\ \A i \in 1 .. 1 + n : l[i] = IF i <= 1 THEN one[i] ELSE o[i - 1]
    BY <1>7, <1>8, <1>10
  <1>12. l[1] = f
    BY <1>2, <1>8, <1>11
  <1>13. ASSUME NEW i \in 1 .. n PROVE l[i + 1] = r.options[i].line
    <2> DEFINE j == i + 1
    <2>1. j \in 1 .. 1 + n /\ ~(j <= 1) /\ j - 1 = i
      BY <1>2
    <2> HIDE DEF j
    <2>2. l[j] = o[j - 1]
      BY <1>11, <2>1
    <2> QED
      BY <1>6, <2>1, <2>2 DEF j
  <1>14. 1 + n \in Nat \ {0} /\ (1 + n = 1 <=> n = 0)
    BY <1>2
  <1> QED
    BY <1>2, <1>4, <1>5, <1>10, <1>11, <1>12, <1>13, <1>14 DEF n, f, S

\* The header is a text, the message one that begins with it.
LEMMA MessageIsText ==
  ASSUME NEW r \in Requests
  PROVE  /\ HeaderText(r) \in Seq(Char) /\ Message(r) \in Seq(Char)
         /\ Len(HeaderText(r)) \in Nat /\ Len(Message(r)) \in Nat
         /\ ~r.complete => Len(Message(r)) = Len(HeaderText(r))
         /\ r.complete => Len(HeaderText(r)) + 4 <= Len(Message(r))
         /\ \A m : Holds(m, 0, Message(r)) =>
              /\ Holds(m, 0, HeaderText(r))
              /\ r.complete => Holds(m, Len(HeaderText(r)), CRLF \o CRLF)
  <1> DEFINE h == HeaderText(r)
             e == CRLF \o CRLF
             b == r.body
             x == IF r.complete THEN e \o b ELSE <<>>
  <1>1. h \in Seq(Char)
    <2> DEFINE l == Lines(r)
    <2>1. l \in Seq(Seq(Char)) /\ Len(l) # 0 /\ CRLF \in Seq(Char)
      BY LinesAreTexts, LineEnd
    <2>2. h = Join(l, CRLF)
      BY DEF HeaderText
    <2> HIDE DEF l
    <2> QED
      BY <2>1, <2>2, JoinShape
  <1>2. Message(r) = h \o x
    BY DEF Message
  <1>3. b \in Seq(Char)
    BY RequestFields
  <1>4. e \in Seq(Char) /\ Len(e) = 4
    <2>1. e \in Seq(Char) /\ Len(e) = Len(CRLF) + Len(CRLF)
      BY LineEnd, ConcatProperties
    <2> HIDE DEF e
    <2> QED
      BY <2>1, LineEnd
  <1> HIDE DEF e, b, h
  <1>5. e \o b \in Seq(Char) /\ Len(e \o b) = Len(e) + Len(b)
    BY <1>3, <1>4, ConcatProperties
  <1>6. x \in Seq(Char) /\ <<>> \in Seq(Char) /\ Len(<<>>) = 0
    BY <1>5, EmptySeq
  <1>7. Len(h) \in Nat /\ Len(x) \in Nat /\ Len(b) \in Nat
    BY <1>1, <1>3, <1>6, LenProperties
  <1>8. (~r.complete => Len(x) = 0) /\ (r.complete => Len(x) >= 4 /\ x = e \o b)
    <2>1. CASE r.complete
      <3>1. x = e \o b /\ Len(x) = 4 + Len(b)
        BY <1>4, <1>5, <2>1
      <3> QED
        BY <1>7, <2>1, <3>1
    <2>2. CASE ~r.complete
      BY <1>6, <2>2
    <2> QED
      BY <2>1, <2>2
  <1> HIDE DEF x
  <1>9. h \o x \in Seq(Char) /\ Len(h \o x) = Len(h) + Len(x)
    BY <1>1, <1>6, ConcatProperties
  <1>10. ASSUME NEW m, Holds(m, 0, h \o x)
         PROVE  Holds(m, 0, h) /\ (r.complete => Holds(m, Len(h), e))
    <2> DEFINE o == 0
    <2>1. o \in Int /\ o + Len(h) = Len(h) /\ Len(h) \in Int
      BY <1>7
    <2>2. Holds(m, o, h \o x)
      BY <1>10
    <2> HIDE DEF o
    <2>3. Holds(m, o, h) /\ Holds(m, o + Len(h), x)
      BY <1>1, <1>6, <2>1, <2>2, HoldsBoth
    <2>4. Holds(m, Len(h), x)
      BY <2>1, <2>3
    <2>5. ASSUME r.complete PROVE Holds(m, Len(h), e)
      <3>1. Holds(m, Len(h), e \o b)
        BY <1>8, <2>4, <2>5
      <3> QED
        BY <1>3, <1>4, <2>1, <3>1, HoldsBoth
    <2> QED
      BY <2>3, <2>5 DEF o
  <1> DEFINE i == Len(h)
             j == Len(x)
             k == Len(h \o x)
  <1>11. /\ i \in Nat /\ j \in Nat /\ k = i + j
         /\ ~r.complete => j = 0
         /\ r.complete => j >= 4
    BY <1>7, <1>8, <1>9
  <1> HIDE DEF i, j, k
  <1>12. k \in Nat /\ (~r.complete => k = i) /\ (r.complete => i + 4 <= k)
    BY <1>11
  <1> QED
    BY <1>1, <1>2, <1>7, <1>9, <1>10, <1>12 DEF h, e, i, k

-----------------------------------------------------------------------------
(* Where a request is in its copy.                                         *)

\* No separator begins in the text of that length.
NoneIn(m, at, len, needle) == \A a \in at .. at + len - 1 : ~Holds(m, a, needle)

\* The parts are in memory from an address on, a separator between any two, none in one.
Layout(m, first, parts, needle) ==
  \A k \in 0 .. Len(parts) - 1 :
    LET at == first + Start(parts, needle, k)
    IN  /\ Holds(m, at, parts[k + 1]) /\ NoneIn(m, at, Len(parts[k + 1]), needle)
        /\ k < Len(parts) - 1 => Holds(m, at + Len(parts[k + 1]), needle)

\* What strnstr returns, by where the needle is in memory.
LEMMA StrnstrHolds ==
  ASSUME NEW m, NEW at \in Int, NEW needle, Len(needle) \in Nat \ {0}, NEW count \in Nat,
         NEW found, found = strnstr(m, at, needle, count)
  PROVE  \/ found = NULL /\ \A a \in at .. at + count - Len(needle) : ~Holds(m, a, needle)
         \/ /\ found \in at .. at + count - Len(needle) /\ Holds(m, found, needle)
            /\ \A a \in at .. at + count - Len(needle) : Holds(m, a, needle) => found <= a
  <1>1. found = FirstOccurrence(m, at, needle, count) /\ count \in Int
    BY StrnstrFindsTheFirst
  <1>2. \/ found = NULL /\ Occurrences(m, at, needle, count) = {}
        \/ /\ found \in at .. at + count - Len(needle)
           /\ \A k \in 1 .. Len(needle) : m[found + k - 1] = needle[k]
           /\ \A a \in Occurrences(m, at, needle, count) : found <= a
    BY <1>1, FirstOccurrenceIsFirst
  <1>3. Occurrences(m, at, needle, count)
          = {a \in at .. at + count - Len(needle) : Holds(m, a, needle)}
    BY DEF Occurrences, Holds
  <1>4. (\A k \in 1 .. Len(needle) : m[found + k - 1] = needle[k]) <=> Holds(m, found, needle)
    BY DEF Holds
  <1> DEFINE P == at .. at + count - Len(needle)
  <1> HIDE DEF P
  <1> QED
    BY <1>2, <1>3, <1>4 DEF P

\* strnstr stops behind a text that is free of the needle, if there the needle is.
LEMMA SearchEndsBehind ==
  ASSUME NEW m, NEW at \in Int, at >= 0, NEW len \in Nat,
         NEW needle, Len(needle) \in Nat \ {0}, NEW count \in Nat,
         NoneIn(m, at, len, needle)
  PROVE  /\ Holds(m, at + len, needle) /\ len + Len(needle) <= count =>
              strnstr(m, at, needle, count) = at + len
         /\ count < len + Len(needle) => strnstr(m, at, needle, count) = NULL
  <1> DEFINE found == strnstr(m, at, needle, count)
             l     == Len(needle)
  <1>1. \/ found = NULL /\ \A a \in at .. at + count - l : ~Holds(m, a, needle)
        \/ /\ found \in at .. at + count - l /\ Holds(m, found, needle)
           /\ \A a \in at .. at + count - l : Holds(m, a, needle) => found <= a
    BY StrnstrHolds
  <1>2. \A a \in at .. at + len - 1 : ~Holds(m, a, needle)
    BY DEF NoneIn
  <1>3. l \in Nat \ {0}
    OBVIOUS
  <1> HIDE DEF found, l
  <1>4. ASSUME Holds(m, at + len, needle), len + l <= count
        PROVE  found = at + len
    <2>1. at + len \in at .. at + count - l
      BY <1>3, <1>4
    <2>2. found \in at .. at + count - l /\ Holds(m, found, needle) /\ found <= at + len
      BY <1>1, <1>4, <2>1
    <2>3. found \notin at .. at + len - 1
      BY <1>2, <2>2
    <2> QED
      BY <1>3, <2>2, <2>3
  <1>5. ASSUME count < len + l PROVE found = NULL
    <2> SUFFICES ASSUME found \in at .. at + count - l, Holds(m, found, needle) PROVE FALSE
      BY <1>1
    <2>1. found \in at .. at + len - 1
      BY <1>3, <1>5
    <2> QED
      BY <1>2, <2>1
  <1> QED
    BY <1>4, <1>5 DEF found, l

\* A line end, and a single separator, in memory.
LEMMA HoldsSeparator ==
  ASSUME NEW m, NEW a \in Int
  PROVE  /\ Holds(m, a, CRLF) <=> m[a] = CR /\ m[a + 1] = LF
         /\ \A c : Holds(m, a, <<c>>) <=> m[a] = c
  <1>1. a + 1 - 1 = a /\ a + 2 - 1 = a + 1 /\ 1 .. 2 = {1, 2} /\ 1 .. 1 = {1}
    OBVIOUS
  <1>2. Holds(m, a, CRLF) <=> m[a] = CR /\ m[a + 1] = LF
    <2>1. Holds(m, a, CRLF) <=> m[a + 1 - 1] = CRLF[1] /\ m[a + 2 - 1] = CRLF[2]
      BY <1>1, LineEnd DEF Holds
    <2> QED
      BY <1>1, <2>1, LineEnd
  <1>3. ASSUME NEW c PROVE Holds(m, a, <<c>>) <=> m[a] = c
    <2> DEFINE one == <<c>>
    <2>1. Len(one) = 1 /\ one[1] = c
      OBVIOUS
    <2> HIDE DEF one
    <2>2. Holds(m, a, one) <=> m[a + 1 - 1] = c
      BY <1>1, <2>1 DEF Holds
    <2> QED
      BY <1>1, <2>2 DEF one
  <1> QED
    BY <1>2, <1>3

\* The header in the copy, and what is behind it.
LEMMA HeaderInMemory ==
  ASSUME NEW r \in Requests, NEW m, m = Memory(Message(r)), NEW h, h = Len(HeaderText(r))
  PROVE  /\ h \in Nat /\ Holds(m, 0, HeaderText(r))
         /\ ~r.complete => m[h] = NUL /\ h = Len(Message(r))
         /\ r.complete => /\ m[h] = CR /\ m[h + 1] = LF /\ m[h + 2] = CR /\ m[h + 3] = LF
                          /\ h + 4 <= Len(Message(r)) /\ Holds(m, h, CRLF \o CRLF)
  <1>1. Message(r) \in Seq(Char) /\ h \in Nat
    BY MessageIsText
  <1>2. Holds(m, 0, Message(r)) /\ m[Len(Message(r))] = NUL
    BY <1>1, MemoryHolds
  <1>3. /\ Holds(m, 0, HeaderText(r)) /\ (r.complete => Holds(m, h, CRLF \o CRLF))
        /\ ~r.complete => h = Len(Message(r))
        /\ r.complete => h + 4 <= Len(Message(r))
    BY <1>2, MessageIsText
  <1>4. ASSUME r.complete
        PROVE  m[h] = CR /\ m[h + 1] = LF /\ m[h + 2] = CR /\ m[h + 3] = LF
    <2> DEFINE e == CRLF
    <2>1. e \in Seq(Char) /\ Len(e) = 2 /\ Holds(m, h, e \o e) /\ h \in Int
      BY <1>1, <1>3, <1>4, LineEnd
    <2> HIDE DEF e
    <2>2. Holds(m, h, e) /\ Holds(m, h + 2, e)
      <3>1. Holds(m, h, e) /\ Holds(m, h + Len(e), e)
        BY <2>1, HoldsBoth
      <3> QED
        BY <2>1, <3>1
    <2>3. m[h] = CR /\ m[h + 1] = LF /\ m[h + 2] = CR /\ m[h + 2 + 1] = LF
      BY <1>1, <2>2, HoldsSeparator DEF e
    <2>4. h + 2 + 1 = h + 3
      BY <1>1
    <2> QED
      BY <2>3, <2>4
  <1> QED
    BY <1>1, <1>2, <1>3, <1>4

\* The lines of a header, in its copy.
LEMMA LinesLayout ==
  ASSUME NEW r \in Requests, NEW m, m = Memory(Message(r)), NEW n, n = Len(Lines(r))
  PROVE  /\ Layout(m, 0, Lines(r), CRLF)
         /\ Len(HeaderText(r)) = Start(Lines(r), CRLF, n - 1) + Len(Lines(r)[n])
  <1> DEFINE l    == Lines(r)
             h    == Len(HeaderText(r))
             s(k) == Start(l, CRLF, k)
             t(k) == Len(l[k])
  <1>1. /\ l \in Seq(Seq(Char)) /\ n \in Nat \ {0} /\ CRLF \in Seq(Char)
        /\ HeaderText(r) = Join(l, CRLF)
    BY LinesAreTexts, LineEnd DEF HeaderText
  <1>2. h \in Nat /\ Holds(m, 0, Join(l, CRLF)) /\ (m[h] = NUL \/ m[h] = CR)
    BY <1>1, HeaderInMemory
  <1> HIDE DEF l
  <1>3. h = s(n - 1) + t(n)
    BY <1>1, JoinShape DEF l
  <1>4. /\ \A k \in 0 .. n : s(k) \in Nat
        /\ \A k \in 1 .. n : t(k) \in Nat
    BY <1>1, StartSteps DEF l
  <1>5. \A k \in 0 .. n - 1 : /\ Holds(m, 0 + s(k), l[k + 1])
                              /\ k < n - 1 => Holds(m, 0 + s(k) + t(k + 1), CRLF)
    <2> DEFINE o == 0
    <2>1. o \in Int /\ Holds(m, o, Join(l, CRLF)) /\ n = Len(l) /\ n # 0
      BY <1>1, <1>2 DEF l
    <2> HIDE DEF o
    <2>2. \A k \in 0 .. n - 1 : /\ Holds(m, o + s(k), l[k + 1])
                                /\ k < n - 1 => Holds(m, o + s(k) + t(k + 1), CRLF)
      BY <1>1, <2>1, JoinHolds
    <2> QED
      BY <2>2 DEF o
  <1>6. \A k \in 1 .. n : Free(l[k], CRLF)
    <2>1. \A k \in DOMAIN l : Free(l[k], CRLF)
      BY RequestFields DEF IsSplit, l
    <2>2. DOMAIN l = 1 .. n
      BY <1>1, LenProperties DEF l
    <2> QED
      BY <2>1, <2>2
  <1> HIDE DEF s, t, h
  <1>7. ASSUME NEW k \in 0 .. n - 1 PROVE NoneIn(m, 0 + s(k), t(k + 1), CRLF)
    <2> DEFINE at == 0 + s(k)
               len == t(k + 1)
    <2>1. at \in Nat /\ len \in Nat /\ k + 1 \in 1 .. n
      <3>1. k \in 0 .. n /\ k + 1 \in 1 .. n
        BY <1>1
      <3>2. s(k) \in Nat /\ t(k + 1) \in Nat
        BY <1>4, <3>1
      <3> QED
        BY <3>1, <3>2
    <2>2. Holds(m, at, l[k + 1]) /\ (k < n - 1 => Holds(m, at + len, CRLF))
      BY <1>5
    <2>3. k = n - 1 => at + len = h
      <3> SUFFICES ASSUME k = n - 1 PROVE 0 + s(k) + t(k + 1) = h
        OBVIOUS
      <3>1. k + 1 = n
        BY <1>1
      <3> QED
        BY <1>3, <1>4, <2>1, <3>1
    <2> HIDE DEF at
    <2>4. len = Len(l[k + 1])
      BY DEF t
    <2> HIDE DEF len
    <2>5. m[at + len] # LF
      <3>1. CASE k < n - 1
        <4>1. m[at + len] = CR
          BY <2>1, <2>2, <3>1, HoldsSeparator
        <4> QED
          BY <4>1 DEF CR, LF
      <3>2. CASE k = n - 1
        <4>1. m[at + len] = NUL \/ m[at + len] = CR
          BY <1>2, <2>3, <3>2 DEF h
        <4> QED
          BY <4>1 DEF CR, LF, NUL
      <3> QED
        BY <1>1, <3>1, <3>2
    <2>6. ASSUME NEW a \in at .. at + len - 1, Holds(m, a, CRLF) PROVE FALSE
      <3>1. m[a] = CR /\ m[a + 1] = LF
        BY <2>1, <2>6, HoldsSeparator
      <3>2. a + 1 # at + len
        BY <2>5, <3>1
      <3> DEFINE i == a - at
                 line == l[k + 1]
      <3>3. i \in 0 .. len - 2 /\ i + 1 \in 1 .. len /\ i + 2 \in 1 .. len
        BY <2>1, <3>2
      <3>4. \A j \in 1 .. len : m[at + j - 1] = line[j]
        BY <2>2, <2>4 DEF Holds
      <3>5. at + (i + 1) - 1 = a /\ at + (i + 2) - 1 = a + 1
        BY <2>1
      <3>6. Free(line, CRLF) /\ len = Len(line)
        BY <1>6, <2>1, <2>4
      <3> HIDE DEF i, line
      <3>7. line[i + 1] = CR /\ line[i + 2] = LF
        <4> DEFINE p == i + 1
                   q == i + 2
        <4>1. p \in 1 .. len /\ q \in 1 .. len /\ at + p - 1 = a /\ at + q - 1 = a + 1
          BY <3>3, <3>5
        <4> HIDE DEF p, q
        <4>2. line[p] = CR /\ line[q] = LF
          BY <3>1, <3>4, <4>1
        <4> QED
          BY <4>2 DEF p, q
      <3>8. PICK j \in 1 .. Len(CRLF) : line[i + j] # CRLF[j]
        BY <3>3, <3>6, LineEnd DEF Free
      <3>9. j = 1 \/ j = 2
        BY <3>8, LineEnd
      <3> QED
        BY <3>7, <3>8, <3>9, LineEnd
    <2>7. NoneIn(m, at, len, CRLF)
      BY <2>6 DEF NoneIn
    <2> QED
      BY <2>7 DEF at, len
  <1>8. Layout(m, 0, l, CRLF)
    BY <1>5, <1>7 DEF Layout, s, t, l
  <1> QED
    BY <1>3, <1>8 DEF s, t, l, h

\* The parameters of a query, where the query is.
LEMMA QueryLayout ==
  ASSUME NEW r \in Requests, NEW m, NEW first \in Nat, r.query # <<>>,
         Holds(m, first, QueryText(r))
  PROVE  Layout(m, first, r.query, <<Ampersand>>)
  <1> DEFINE q    == r.query
             n    == Len(q)
             sep  == <<Ampersand>>
             s(k) == Start(q, sep, k)
  <1>1. /\ q \in Seq(Seq(Char \ {SP})) /\ sep \in Seq(Char \ {SP}) /\ n \in Nat /\ n # 0
        /\ \A k \in 1 .. n : q[k] \in Seq(Char \ {SP, Ampersand})
    BY QueryIsText
  <1>2. Holds(m, first, Join(q, sep)) /\ first \in Int
    BY DEF QueryText
  <1> HIDE DEF sep, q
  <1>3. \A k \in 0 .. n - 1 : /\ Holds(m, first + s(k), q[k + 1])
                              /\ k < n - 1 => Holds(m, first + s(k) + Len(q[k + 1]), sep)
    BY <1>1, <1>2, JoinHolds
  <1>4. \A k \in 0 .. n : s(k) \in Nat
    BY <1>1, StartSteps
  <1> HIDE DEF s
  <1>5. ASSUME NEW k \in 0 .. n - 1 PROVE NoneIn(m, first + s(k), Len(q[k + 1]), sep)
    <2> DEFINE at == first + s(k)
               part == q[k + 1]
               len == Len(part)
    <2>1. at \in Nat
      <3>1. k \in 0 .. n
        BY <1>1
      <3> QED
        BY <1>4, <3>1
    <2>2. part \in Seq(Char \ {SP, Ampersand})
      <3>1. k + 1 \in 1 .. n
        BY <1>1
      <3> QED
        BY <1>1, <3>1
    <2>3. Holds(m, at, part)
      BY <1>3
    <2> HIDE DEF at, part
    <2>4. len \in Nat /\ \A i \in 1 .. len : part[i] \in Char \ {SP, Ampersand}
      BY <2>2, LenProperties, ElementOfSeq
    <2>5. \A i \in 1 .. len : m[at + i - 1] = part[i]
      BY <2>3 DEF Holds
    <2> HIDE DEF len
    <2>6. ASSUME NEW a \in at .. at + len - 1, Holds(m, a, sep) PROVE FALSE
      <3>1. m[a] = Ampersand
        BY <2>1, <2>6, HoldsSeparator DEF sep
      <3> DEFINE i == a - at + 1
      <3>2. i \in 1 .. len /\ at + i - 1 = a
        BY <2>1, <2>4
      <3> HIDE DEF i
      <3> QED
        BY <2>4, <2>5, <3>1, <3>2
    <2>7. NoneIn(m, at, len, sep)
      BY <2>6 DEF NoneIn
    <2> QED
      BY <2>7 DEF at, len, part
  <1>6. Layout(m, first, q, sep)
    BY <1>3, <1>5 DEF Layout, s
  <1> QED
    BY <1>6 DEF q, sep

\* Each place of the texts is in one of them or in the separator behind it.
LEMMA EachPlaceIsInAPart ==
  ASSUME NEW S, NEW texts \in Seq(Seq(S)), NEW separator \in Seq(S), NEW n, n = Len(texts),
         NEW x \in Nat, x < Start(texts, separator, n)
  PROVE  \E k \in 0 .. n - 1 :
           Start(texts, separator, k) <= x /\ x < Start(texts, separator, k + 1)
  <1> DEFINE s(k) == Start(texts, separator, k)
             P    == {j \in 0 .. n : x < s(j)}
  <1>1. n \in Nat /\ s(0) = 0 /\ \A k \in 0 .. n : s(k) \in Nat
    BY StartSteps
  <1>2. x < s(n)
    OBVIOUS
  <1> HIDE DEF s
  <1>3. P \subseteq Nat /\ P # {}
    <2>1. n \in 0 .. n
      BY <1>1
    <2> QED
      BY <1>2, <2>1
  <1>4. PICK j \in P : \A i \in P : j <= i
    <2> HIDE DEF P
    <2> QED
      BY <1>3, LeastNumber
  <1>5. j # 0
    BY <1>1, <1>4
  <1> DEFINE k == j - 1
  <1>6. k \in 0 .. n - 1 /\ k \in 0 .. n /\ k + 1 = j /\ ~(j <= k)
    BY <1>1, <1>4, <1>5
  <1>7. k \notin P
    <2> HIDE DEF P, k
    <2> QED
      BY <1>4, <1>6
  <1>8. s(k) <= x
    <2> HIDE DEF k
    <2> QED
      BY <1>1, <1>6, <1>7
  <1> HIDE DEF k
  <1> QED
    BY <1>4, <1>6, <1>8 DEF s

\* The header ends at the first empty line, where the client put it.
LEMMA SeparatorIsBehindTheHeader ==
  ASSUME NEW r \in Requests
  PROVE  Separator(r) = IF r.complete THEN Len(HeaderText(r)) ELSE NULL
  <1> DEFINE m    == Memory(Message(r))
             z    == Len(Message(r))
             h    == Len(HeaderText(r))
             l    == Lines(r)
             n    == Len(l)
             s(k) == Start(l, CRLF, k)
             t(k) == Len(l[k])
             e    == CRLF \o CRLF
  <1>1. /\ h \in Nat /\ z \in Nat
        /\ ~r.complete => m[h] = NUL /\ h = z
        /\ r.complete => h + 4 <= z /\ Holds(m, h, e)
    BY HeaderInMemory, MessageIsText
  <1>2. Layout(m, 0, l, CRLF) /\ h = s(n - 1) + t(n)
    BY LinesLayout
  <1>3. /\ l \in Seq(Seq(Char)) /\ CRLF \in Seq(Char) /\ n \in Nat \ {0} /\ Len(CRLF) = 2
    BY LinesAreTexts, LineEnd
  <1>4. /\ \A k \in 0 .. n : s(k) \in Nat
        /\ \A k \in 1 .. n : t(k) \in Nat
        /\ \A k \in 0 .. n - 1 : s(k + 1) = s(k) + t(k + 1) + Len(CRLF)
    BY <1>3, StartSteps
  <1>5. \A k \in 2 .. n : t(k) = 0 => ~r.complete /\ k = n
    <2> SUFFICES ASSUME NEW k \in 2 .. n, t(k) = 0 PROVE ~r.complete /\ k = n
      OBVIOUS
    <2> DEFINE i == k - 1
               o == r.options[i].line
    <2>1. n = 1 + Len(r.options) /\ Len(r.options) \in Nat
      BY LinesAreTexts
    <2>2. i \in 1 .. Len(r.options) /\ i + 1 = k /\ r.options \in Seq(Option)
      BY <2>1, RequestFields
    <2>3. l[k] = o /\ o \in Seq(Char)
      <3> HIDE DEF i
      <3>1. r.options[i] \in Option
        BY <2>2, ElementOfSeq
      <3> QED
        BY <2>2, <3>1, LinesAreTexts DEF Option
    <2>4. o = <<>>
      <3> HIDE DEF o, l
      <3> QED
        BY <2>3, EmptySeq
    <2>5. i \in DOMAIN r.options /\ (o = <<>> => ~r.complete /\ i = Len(r.options))
      <3>1. i \in DOMAIN r.options
        BY <2>2
      <3> QED
        BY <3>1, RequestFields DEF IsSplit
    <2> QED
      BY <2>1, <2>4, <2>5
  <1>6. e \in Seq(Char) /\ Len(e) = 4
    <2>1. e \in Seq(Char) /\ Len(e) = Len(CRLF) + Len(CRLF)
      BY LineEnd, ConcatProperties
    <2> HIDE DEF e
    <2> QED
      BY <2>1, LineEnd
  <1>7. \A a \in Int : Holds(m, a, e) <=> Holds(m, a, CRLF) /\ Holds(m, a + 2, CRLF)
    <2> DEFINE c == CRLF
    <2>1. c \in Seq(Char) /\ Len(c) = 2
      BY LineEnd
    <2> HIDE DEF c
    <2>2. ASSUME NEW a \in Int PROVE Holds(m, a, c \o c) <=> Holds(m, a, c) /\ Holds(m, a + 2, c)
      <3>1. Holds(m, a, c \o c) <=> Holds(m, a, c) /\ Holds(m, a + Len(c), c)
        BY <2>1, HoldsBoth
      <3> QED
        BY <2>1, <3>1
    <2> QED
      BY <2>2 DEF c
  <1>8. \A k \in 0 .. n - 1 : /\ NoneIn(m, 0 + s(k), t(k + 1), CRLF)
                              /\ k < n - 1 => Holds(m, 0 + s(k) + t(k + 1), CRLF)
    BY <1>2 DEF Layout
  <1> HIDE DEF s, t, m, h, e, l
  <1>9. \A k \in 0 .. n - 1 :
          /\ \A a \in s(k) .. s(k) + t(k + 1) - 1 : ~Holds(m, a, CRLF)
          /\ k < n - 1 => Holds(m, s(k) + t(k + 1), CRLF)
    <2> SUFFICES ASSUME NEW k \in 0 .. n - 1
                 PROVE  /\ \A a \in s(k) .. s(k) + t(k + 1) - 1 : ~Holds(m, a, CRLF)
                        /\ k < n - 1 => Holds(m, s(k) + t(k + 1), CRLF)
      OBVIOUS
    <2>1. k \in 0 .. n
      BY <1>3
    <2>2. 0 + s(k) = s(k)
      BY <1>4, <2>1
    <2> QED
      BY <1>8, <2>2 DEF NoneIn
  \* No empty line ends in front of the end of the header.
  <1>10. ASSUME NEW a \in 0 .. h - 1, a + 4 <= z, Holds(m, a, CRLF), Holds(m, a + 2, CRLF)
         PROVE  FALSE
    <2>1. a < s(n)
      <3>1. /\ n - 1 \in 0 .. n - 1 /\ n - 1 + 1 = n /\ n \in 1 .. n
            /\ n \in 0 .. n /\ n - 1 \in 0 .. n
        BY <1>3
      <3>2. s(n) = s(n - 1) + t(n) + Len(CRLF)
        BY <1>4, <3>1
      <3> QED
        BY <1>2, <1>3, <1>4, <3>1, <3>2
    <2>2. PICK k \in 0 .. n - 1 : s(k) <= a /\ a < s(k + 1)
      <3>1. a \in Nat /\ n = Len(l)
        BY <1>1 DEF l
      <3> QED
        BY <1>3, <2>1, <3>1, EachPlaceIsInAPart DEF s, l
    <2> DEFINE b == s(k) + t(k + 1)
    <2>3. k \in 0 .. n /\ k + 1 \in 1 .. n /\ k + 1 \in 0 .. n
      BY <1>3
    <2>4. b \in Nat /\ s(k + 1) = b + 2 /\ s(k) \in Nat
      BY <1>3, <1>4, <2>3
    <2>5. a >= b
      <3>1. a \notin s(k) .. s(k) + t(k + 1) - 1
        BY <1>9, <1>10
      <3> QED
        BY <1>4, <2>2, <2>3, <2>4, <3>1
    <2>6. k < n - 1
      <3> SUFFICES ASSUME k = n - 1 PROVE FALSE
        BY <1>3
      <3>1. k + 1 = n
        BY <1>3
      <3>2. b = h
        BY <1>2, <3>1
      <3> QED
        BY <1>1, <2>4, <2>5, <3>2
    <2>7. Holds(m, b, CRLF)
      BY <1>9, <2>6
    <2> HIDE DEF b
    <2>8. a = b
      <3>1. m[a] = CR /\ m[b + 1] = LF
        BY <1>10, <2>4, <2>7, HoldsSeparator
      <3>2. a # b + 1
        BY <3>1 DEF CR, LF
      <3> QED
        BY <2>2, <2>4, <2>5, <3>2
    <2> DEFINE j == k + 1
    <2>9. j \in 0 .. n - 1 /\ j + 1 \in 2 .. n /\ j + 1 \in 1 .. n /\ j \in 0 .. n /\ s(j) = a + 2
      BY <1>3, <2>4, <2>6, <2>8
    <2> HIDE DEF j
    <2>10. t(j + 1) = 0
      <3> SUFFICES ASSUME t(j + 1) # 0 PROVE FALSE
        OBVIOUS
      <3>1. t(j + 1) \in Nat /\ s(j) \in Nat
        BY <1>4, <2>9
      <3>2. a + 2 \in s(j) .. s(j) + t(j + 1) - 1
        BY <2>9, <3>1
      <3> QED
        BY <1>9, <1>10, <2>9, <3>2
    <2>11. ~r.complete /\ j + 1 = n
      BY <1>5, <2>9, <2>10
    <2>12. h = a + 2
      <3>1. j = n - 1
        BY <1>3, <2>9, <2>11
      <3> QED
        BY <1>1, <1>2, <2>9, <2>10, <2>11, <3>1
    <2> QED
      BY <1>1, <1>10, <2>11, <2>12
  <1>11. Separator(r) = FirstOccurrence(m, 0, e, z)
    BY DEF Separator, m, e
  <1> DEFINE found == FirstOccurrence(m, 0, e, z)
             P == 0 .. z - 4
  <1>12. \/ found = NULL /\ \A a \in P : ~Holds(m, a, e)
         \/ /\ found \in P /\ Holds(m, found, e)
            /\ \A a \in P : Holds(m, a, e) => found <= a
    <2>1. ASSUME NEW o \in Int, o = 0
          PROVE  \/ found = NULL /\ \A a \in o .. o + z - Len(e) : ~Holds(m, a, e)
                 \/ /\ found \in o .. o + z - Len(e) /\ Holds(m, found, e)
                    /\ \A a \in o .. o + z - Len(e) : Holds(m, a, e) => found <= a
      <3>1. Len(e) \in Nat \ {0} /\ z \in Nat
        BY <1>1, <1>6
      <3>2. found = strnstr(m, o, e, z)
        BY <1>1, <2>1, <3>1, StrnstrFindsTheFirst
      <3> HIDE DEF found, P, z
      <3> QED
        BY <3>1, <3>2, StrnstrHolds
    <2>2. ASSUME NEW o \in Int, o = 0 PROVE o .. o + z - Len(e) = P
      BY <1>1, <1>6, <2>2
    <2>3. 0 \in Int
      OBVIOUS
    <2> HIDE DEF P, found
    <2> QED
      BY <2>1, <2>2, <2>3
  <1>13. \A a \in P : Holds(m, a, e) => a >= h
    <2> SUFFICES ASSUME NEW a \in P, Holds(m, a, e), a < h PROVE FALSE
      BY <1>1
    <2>1. a \in 0 .. h - 1 /\ a + 4 <= z /\ a \in Int
      BY <1>1
    <2> QED
      BY <1>7, <1>10, <2>1
  <1>14. CASE r.complete
    <2>1. h \in P /\ Holds(m, h, e)
      BY <1>1, <1>14
    <2>2. found \in P /\ found <= h /\ found >= h
      BY <1>12, <1>13, <2>1
    <2>3. found = h
      <3> HIDE DEF found
      <3> QED
        BY <1>1, <2>2
    <2> QED
      BY <1>11, <1>14, <2>3 DEF h
  <1>15. CASE ~r.complete
    <2>1. \A a \in P : ~(a >= h)
      BY <1>1, <1>15
    <2>2. found = NULL
      <3> HIDE DEF found, P
      <3> QED
        BY <1>12, <1>13, <2>1
    <2> QED
      BY <1>11, <1>15, <2>2
  <1> QED
    BY <1>14, <1>15

-----------------------------------------------------------------------------
(* The inductive invariant.                                                *)

Phases ==
  {"idle", "header", "query", "options", "parsed", "decoding", "decoded", "killed", "astray"}

\* References into the copy.
InCopy == {ref \in Ref : 0 <= ref.str /\ 0 <= ref.len /\ ref.str + ref.len <= Size}

\* The fields are what their types say, and the copy is as long as what was sent.
FieldsInv ==
  /\ pc \in Phases
  /\ pc = "idle" => request = NoRequest /\ mem = <<>> /\ decode = NoDecode
  /\ pc # "idle" => request \in Requests /\ mem \in [0 .. Size -> 0 .. 255]
  /\ msg \in [method : HTTP_Method, version : HTTP_Version, url : Ref, body : Ref,
              header_options : [HTTPHeaderRequestOption -> Ref], parameters : {msg.parameters}]
  /\ loop \in [chunk : Int, limit : Int, limit_len : Int, visited : SUBSET Ref]
  /\ decode \in [write_index : Nat, read_index : Nat]

\* The parser only reads the copy.
CopyInv == pc \in {"header", "query", "options", "parsed"} => mem = Sent /\ decode = NoDecode

\* The body begins at the empty line; without one the first line is not split.
BodyInv ==
  pc # "idle" =>
    \/ msg.body = NoRef /\ pc \in {"header", "killed"}
    \/ /\ msg.body.str = Separator(request) /\ msg.body.str \in 1 .. Size
       /\ msg.body.len = Size - msg.body.str

\* The url, once the first line is split, begins behind the first space and ends before the
\* second; only where the header has a single space may its length have wrapped.
UrlInv ==
  pc \in {"query", "options", "parsed", "decoding", "decoded"} =>
    /\ WordStart \in 1 .. Size /\ WordLimit \in 0 .. Size
    /\ msg.url.str = WordStart /\ msg.url.str + msg.url.len <= WordLimit
    /\ msg.url.len < 0 => SecondSpace = NULL

\* The question mark the query was found by is still there to shorten the url.
QueryInv ==
  pc = "query" => /\ QmarkIndex(msg.url) \in Nat \ {0}
                  /\ 0 <= msg.url.len => QmarkIndex(msg.url) < msg.url.len

\* The rest of the segment lies in the copy, and limit_len is its length.
LoopInv ==
  pc \in {"query", "options"} =>
    /\ loop.chunk \in Nat /\ loop.limit \in Int /\ loop.limit <= Size
    /\ loop.limit_len = loop.limit - loop.chunk

\* Every reference that parse_InboundMessage stores is into the copy it owns, except the
\* url of a header with a single space whose length has wrapped.
RefsAreInTheCopy ==
  pc # "idle" =>
    /\ msg.url \in InCopy \cup {NoRef} \/ (msg.url.len < 0 /\ SecondSpace = NULL)
    /\ msg.body \in InCopy \cup {NoRef}
    /\ \A i \in HTTPHeaderRequestOption : msg.header_options[i] \in InCopy \cup {NoRef}
    /\ MapShape(msg.parameters, Seq(0 .. 255), InCopy)

IInv == /\ FieldsInv /\ CopyInv /\ BodyInv /\ UrlInv /\ QueryInv /\ LoopInv
        /\ RefsAreInTheCopy /\ DecodeKeepsTheRest

-----------------------------------------------------------------------------
(* What the helpers return.                                                *)

\* A copy of a request is as long as the request, and one longer by its terminator.
LEMMA MemoryShape ==
  ASSUME NEW r \in Requests
  PROVE  /\ Message(r) \in Seq(Char) /\ Len(Message(r)) \in Nat
         /\ Memory(Message(r)) \in [0 .. Len(Message(r)) -> 0 .. 255]
  <1>1. Message(r) \in Seq(Char)
    BY MessageIsText
  <1> DEFINE text == Message(r)
  <1>2. Len(text) \in Nat /\ \A i \in 1 .. Len(text) : text[i] \in 1 .. 255
    <2> HIDE DEF text
    <2> QED
      BY <1>1, ElementOfSeq, LenProperties DEF text, Char
  <1> HIDE DEF text
  <1>3. \A a \in 0 .. Len(text) :
          (IF a < Len(text) THEN text[a + 1] ELSE NUL) \in 0 .. 255
    <2> TAKE a \in 0 .. Len(text)
    <2>1. a < Len(text) => a + 1 \in 1 .. Len(text)
      BY <1>2
    <2> QED
      BY <1>2, <2>1 DEF NUL
  <1>4. Memory(text) \in [0 .. Len(text) -> 0 .. 255]
    BY <1>3 DEF Memory
  <1> QED
    BY <1>1, <1>2, <1>4 DEF text

\* The empty line, if there is one, ends before the text does.
LEMMA SeparatorPlace ==
  ASSUME NEW r \in Requests, Separator(r) \notin {NULL, 0}
  PROVE  Separator(r) \in 1 .. Len(Message(r))
  <1> DEFINE m == Memory(Message(r))
             n == Len(Message(r))
             s == FirstOccurrence(m, 0, CRLF \o CRLF, n)
  <1>1. n \in Nat
    BY MemoryShape
  <1>2. Len(CRLF \o CRLF) = 4
    BY DEF CRLF
  <1>3. s = NULL \/ s \in 0 .. 0 + n - 4
    <2> DEFINE needle == CRLF \o CRLF
    <2>1. 0 \in Int /\ n \in Int /\ Len(needle) \in Nat \ {0} /\ Len(needle) = 4
      BY <1>1, <1>2
    <2>2. s = FirstOccurrence(m, 0, needle, n)
      OBVIOUS
    <2> HIDE DEF m, n, s, needle
    <2>3. s = NULL \/ s \in 0 .. 0 + n - Len(needle)
      BY <2>1, <2>2, FirstOccurrenceIsFirst
    <2> QED
      BY <2>1, <2>3
  <1>4. Separator(r) = s
    BY DEF Separator
  <1> HIDE DEF s, n
  <1>5. Separator(r) \in 1 .. n
    BY <1>1, <1>3, <1>4
  <1> QED
    BY <1>5 DEF n

\* No separator is empty.
LEMMA SeparatorsHaveLength ==
  /\ Len(<<SP>>) = 1 /\ Len(CRLF) = 2
  /\ \A phase : Len(ChunkSep(phase)) \in 1 .. 2
  BY DEF CRLF, ChunkSep

\* strnstr returns no address or one at which the needle fits.
LEMMA StrnstrRange ==
  ASSUME NEW m, NEW str \in Int, NEW needle, Len(needle) \in Nat \ {0}, NEW count \in Nat
  PROVE  LET found == strnstr(m, str, needle, count)
         IN  found = NULL \/ found \in str .. str + count - Len(needle)
  <1> DEFINE found == FirstOccurrence(m, str, needle, count)
  <1>1. strnstr(m, str, needle, count) = found
    BY StrnstrFindsTheFirst
  <1>2. found = NULL \/ found \in str .. str + count - Len(needle)
    <2>1. found = FirstOccurrence(m, str, needle, count) /\ count \in Int
      OBVIOUS
    <2> HIDE DEF found
    <2> QED
      BY <2>1, FirstOccurrenceIsFirst
  <1> HIDE DEF found
  <1> QED
    BY <1>1, <1>2

\* trim leaves a part of the text.
LEMMA TrimWithin ==
  ASSUME NEW m, NEW ref, ref.str \in Int, ref.len \in Nat
  PROVE  LET t == trim(m, ref)
         IN  /\ t = [str |-> t.str, len |-> t.len] /\ t.str \in Int /\ t.len \in Nat
             /\ ref.str <= t.str /\ t.str + t.len <= ref.str + ref.len
  <1> DEFINE S    == {i \in 0 .. ref.len - 1 : m[ref.str + i] # SP}
             a    == FirstOf(S, ref.len)
             rest == ref.len - a
             T    == {i \in 0 .. rest - 1 : m[ref.str + ref.len - i - 1] # SP}
             b    == FirstOf(T, rest)
  <1>1. a \in 0 .. ref.len
    <2>1. S \subseteq Int /\ (\A x \in S : 0 <= x) /\ S \subseteq 0 .. ref.len
      OBVIOUS
    <2>2. 0 \in Int /\ ref.len \in 0 .. ref.len
      OBVIOUS
    <2> HIDE DEF S
    <2> QED
      BY <2>1, <2>2, FirstIsLeast
  <1> HIDE DEF a
  <1>2. rest \in Nat /\ rest <= ref.len /\ a + rest = ref.len
    BY <1>1
  <1> HIDE DEF rest
  <1>3. b \in 0 .. rest
    <2>1. T \subseteq Int /\ (\A x \in T : 0 <= x) /\ T \subseteq 0 .. rest
      BY <1>2
    <2>2. 0 \in Int /\ rest \in 0 .. rest
      BY <1>2
    <2> HIDE DEF T
    <2> QED
      BY <2>1, <2>2, FirstIsLeast
  <1>4. trim(m, ref) = [str |-> ref.str + a, len |-> rest - b]
    BY DEF trim, a, rest
  <1> HIDE DEF b
  <1> QED
    BY <1>1, <1>2, <1>3, <1>4

\* A map into some values is one into more.
LEMMA MapShapeWidens ==
  ASSUME NEW K, NEW V, NEW W, V \subseteq W, NEW m, MapShape(m, K, V)
  PROVE  MapShape(m, K, W)
  <1>1. VectorShape(m.values, W)
    <2>1. VectorShape(m.values, V)
      BY DEF MapShape
    <2> QED
      BY <2>1 DEF VectorShape
  <1> QED
    BY <1>1 DEF MapShape

\* Map_set keeps the shape, whether the key is present or not.
LEMMA MapSetShape ==
  ASSUME NEW K, NEW V, NEW m, MapShape(m, K, V), NEW k \in K, NEW v \in V
  PROVE  MapShape(Map_set(m, k, v), K, V)
  BY MapSetPresent, MapSetAbsent

\* The text of a reference into the copy.
LEMMA TextOfCopy ==
  ASSUME FieldsInv, pc # "idle", NEW ref \in InCopy
  PROVE  TextOf(mem, ref) \in Seq(0 .. 255)
  <1>1. /\ mem \in [0 .. Size -> 0 .. 255] /\ ref.str \in Nat /\ ref.len \in Nat
        /\ ref.str + ref.len <= Size /\ Size \in Nat
    BY MemoryShape DEF FieldsInv, InCopy, Ref, Size
  <1>2. \A i \in 1 .. ref.len : mem[ref.str + i - 1] \in 0 .. 255
    <2> TAKE i \in 1 .. ref.len
    <2>1. ref.str + i - 1 \in 0 .. Size
      BY <1>1
    <2> QED
      BY <1>1, <2>1
  <1>3. TextOf(mem, ref) \in [1 .. ref.len -> 0 .. 255]
    BY <1>2 DEF TextOf
  <1> QED
    BY <1>1, <1>3, FunctionIsSeq

\* The fields of the record are in it, and a change of one leaves the others.
LEMMA Fields ==
  ASSUME FieldsInv
  PROVE  /\ msg = [method |-> msg.method, version |-> msg.version, url |-> msg.url,
                   body |-> msg.body, header_options |-> msg.header_options,
                   parameters |-> msg.parameters]
         /\ loop = [chunk |-> loop.chunk, limit |-> loop.limit, limit_len |-> loop.limit_len,
                    visited |-> loop.visited]
         /\ decode = [write_index |-> decode.write_index, read_index |-> decode.read_index]
         /\ pc # "idle" => Size \in Nat /\ mem = [a \in 0 .. Size |-> mem[a]]
  <1>1. pc # "idle" => Size \in Nat
    BY MemoryShape DEF FieldsInv, Size
  <1> QED
    BY <1>1 DEF FieldsInv, Ref

-----------------------------------------------------------------------------
(* Every action keeps the invariant.                                       *)

\* What depends on the request alone stays with it.
LEMMA SameRequest ==
  ASSUME UNCHANGED request
  PROVE  /\ Size' = Size /\ InCopy' = InCopy /\ Sent' = Sent
         /\ SecondSpace' = SecondSpace /\ WordStart' = WordStart /\ WordLimit' = WordLimit
  <1>1. Size' = Size /\ Spaces' = Spaces
    BY DEF Size, Spaces
  <1>2. FirstSpace' = FirstSpace
    BY <1>1 DEF FirstSpace
  <1>3. SecondSpace' = SecondSpace
    BY <1>1, <1>2 DEF SecondSpace
  <1> QED
    BY <1>1, <1>2, <1>3 DEF InCopy, Sent, WordStart, WordLimit

\* No request is being served.
LEMMA InitHoldsIInv == Init => IInv
  <1> SUFFICES ASSUME Init PROVE IInv
    OBVIOUS
  <1>1. NoRef \in Ref /\ 0 \in HTTP_Method /\ 0 \in HTTP_Version
    BY DEF NoRef, Ref, NULL, HTTP_Method, HTTP_Version
  <1>2. FieldsInv
    BY <1>1 DEF Init, Empty, NoLoop, NoDecode, FieldsInv, Phases, NULL
  <1> QED
    BY <1>2 DEF Init, IInv, CopyInv, BodyInv, UrlInv, QueryInv, LoopInv, RefsAreInTheCopy,
                DecodeKeepsTheRest

\* The copy, the empty map, and the body at the empty line.
LEMMA ParseKeepsIInv ==
  ASSUME IInv, NEW r \in Requests, parse_InboundMessage(r)
  PROVE  IInv'
  <1> DEFINE n == Len(Message(r))
             b == IF Separator(r) \notin {NULL, 0}
                  THEN [str |-> Separator(r), len |-> n - Separator(r)] ELSE NoRef
  <1>1. NoRef \in Ref /\ 0 \in HTTP_Method /\ 0 \in HTTP_Version
    BY DEF NoRef, Ref, NULL, HTTP_Method, HTTP_Version
  <1>2. /\ pc' = "header" /\ request' = r /\ mem' = Memory(Message(r)) /\ Size' = n
        /\ decode' = NoDecode /\ loop' = loop
    BY DEF parse_InboundMessage, Size, IInv, FieldsInv
  <1>3. msg' = [method |-> 0, version |-> 0, url |-> NoRef, body |-> b,
                header_options |-> [i \in HTTPHeaderRequestOption |-> NoRef],
                parameters |-> Map_make(10)]
    BY DEF parse_InboundMessage, Empty
  <1>4. /\ n \in Nat /\ Memory(Message(r)) \in [0 .. n -> 0 .. 255]
        /\ Separator(r) \notin {NULL, 0} => Separator(r) \in 1 .. n
    BY MemoryShape, SeparatorPlace
  <1>5. b \in InCopy' \cup {NoRef} /\ b \in Ref
    <2>1. CASE Separator(r) \notin {NULL, 0}
      <3>1. Separator(r) \in 1 .. n /\ b = [str |-> Separator(r), len |-> n - Separator(r)]
        BY <1>4, <2>1
      <3> HIDE DEF b, n
      <3> QED
        BY <1>2, <1>4, <3>1 DEF InCopy, Ref
    <2>2. CASE ~(Separator(r) \notin {NULL, 0})
      BY <1>1, <2>2
    <2> QED
      BY <2>1, <2>2
  <1>6. \/ b = NoRef
        \/ b.str = Separator(r) /\ Separator(r) \in 1 .. n /\ b.len = n - Separator(r)
    BY <1>4
  <1>7. MapShape(Map_make(10), Seq(0 .. 255), InCopy')
    <2>1. 10 \in Nat
      OBVIOUS
    <2> QED
      BY <2>1, MapMakeShape
  <1> HIDE DEF b, n
  <1>8. FieldsInv'
    BY <1>1, <1>2, <1>3, <1>4, <1>5 DEF IInv, FieldsInv, Phases, NoDecode
  <1>9. CopyInv' /\ BodyInv' /\ RefsAreInTheCopy'
    BY <1>2, <1>3, <1>5, <1>6, <1>7 DEF CopyInv, BodyInv, RefsAreInTheCopy, Sent
  <1> QED
    BY <1>2, <1>8, <1>9 DEF IInv, UrlInv, QueryInv, LoopInv, DecodeKeepsTheRest

\* A search goes through characters of the copy; one that stays in it, through as many as it
\* is told to.
LEMMA ReachIsInTheCopy ==
  ASSUME Size \in Nat, NEW at \in 0 .. Size + 1, NEW count \in Int
  PROVE  /\ Reach(at, count) \in Nat /\ at + Reach(at, count) <= Size + 1
         /\ count \in Nat => Reach(at, count) <= count
         /\ count \in Nat /\ at + count <= Size + 1 =>
              Reach(at, count) = count /\ ~LeavesCopy(at, count)
  <1>1. CASE LeavesCopy(at, count)
    BY <1>1 DEF Reach, LeavesCopy
  <1>2. CASE ~LeavesCopy(at, count)
    BY <1>2 DEF Reach, LeavesCopy
  <1> QED
    BY <1>1, <1>2

\* The call of parse_options: killed or astray, or in the loop with the rest behind a
\* separator.
LEMMA ParseOptionsEnters ==
  ASSUME Size \in Nat, NEW segment, segment.str \in 0 .. Size + 1, segment.len \in Int,
         segment.str + segment.len <= Size,
         loop \in [chunk : Int, limit : Int, limit_len : Int, visited : SUBSET Ref],
         NEW phase, ParseOptions(segment, phase)
  PROVE  /\ loop' \in [chunk : Int, limit : Int, limit_len : Int, visited : SUBSET Ref]
         /\ segment.len \in Nat => pc' # "astray" \/ phase = "astray"
         /\ \/ pc' \in {"killed", "astray"}
            \/ /\ pc' = phase /\ loop'.limit = segment.str + segment.len
               /\ segment.str <= loop'.chunk /\ loop'.chunk \in Nat
               /\ loop'.limit_len = loop'.limit - loop'.chunk
  <1> DEFINE count == Reach(segment.str, segment.len)
             sep   == strnstr(mem, segment.str, ChunkSep(phase), count)
             start == sep + Len(ChunkSep(phase))
             enter == [chunk     |-> start, limit |-> segment.str + segment.len,
                       limit_len |-> segment.len - (start - segment.str), visited |-> {}]
             lost  == IF LeavesCopy(segment.str, segment.len) THEN "astray" ELSE "killed"
  <1>1. Len(ChunkSep(phase)) \in 1 .. 2
    BY SeparatorsHaveLength
  <1>11. /\ count \in Nat
         /\ segment.len \in Nat => lost = "killed"
    <2>1. segment.len \in Nat => segment.str + segment.len <= Size + 1
      OBVIOUS
    <2> QED
      BY <2>1, ReachIsInTheCopy
  <1>3. IF sep = NULL THEN pc' = lost /\ loop' = loop ELSE pc' = phase /\ loop' = enter
    BY DEF ParseOptions
  <1>31. lost \in {"killed", "astray"}
    OBVIOUS
  <1> HIDE DEF count, lost
  <1>2. sep = NULL \/ sep \in segment.str .. segment.str + count - Len(ChunkSep(phase))
    <2> DEFINE needle == ChunkSep(phase)
    <2>1. Len(needle) \in Nat \ {0}
      <3> DEFINE k == Len(needle)
      <3>1. k \in 1 .. 2
        BY <1>1
      <3> HIDE DEF k
      <3>2. k \in Nat \ {0}
        BY <3>1
      <3> QED
        BY <3>2 DEF k
    <2>2. segment.str \in Int /\ count \in Nat
      BY <1>11
    <2> HIDE DEF needle
    <2>3. \/ strnstr(mem, segment.str, needle, count) = NULL
          \/ strnstr(mem, segment.str, needle, count)
               \in segment.str .. segment.str + count - Len(needle)
      BY <2>1, <2>2, StrnstrRange
    <2> QED
      BY <2>3 DEF needle
  <1> HIDE DEF sep
  <1>4. CASE sep = NULL
    BY <1>3, <1>11, <1>31, <1>4
  <1>5. CASE sep # NULL
    <2> DEFINE a == segment.str
               l == segment.len
               k == Len(ChunkSep(phase))
    <2>1. /\ a \in Nat /\ l \in Int /\ count \in Nat /\ k \in 1 .. 2 /\ sep \in a .. a + count - k
          /\ start = sep + k
      BY <1>1, <1>11, <1>2, <1>5
    <2>2. pc' = phase /\ loop' = [chunk |-> start, limit |-> a + l,
                                  limit_len |-> l - (start - a), visited |-> {}]
      BY <1>3, <1>5
    <2> HIDE DEF start, a, l, k
    <2>3. start \in Nat /\ a <= start /\ a + l \in Int /\ l - (start - a) = a + l - start
      BY <2>1
    <2> QED
      BY <2>2, <2>3 DEF a, l
  <1> QED
    BY <1>4, <1>5

\* strnstr finds the first space, as strnchr would.
LEMMA SpaceIsFound ==
  ASSUME NEW m, NEW str \in Int, NEW count \in Nat,
         NEW found, found = strnstr(m, str, <<SP>>, count)
  PROVE  \/ found = NULL /\ \A a \in str .. str + count - 1 : m[a] # SP
         \/ /\ found \in str .. str + count - 1 /\ m[found] = SP
            /\ \A a \in str .. str + count - 1 : m[a] = SP => found <= a
  <1> DEFINE needle == <<SP>>
             Occ    == Occurrences(m, str, needle, count)
  <1>1. Len(needle) = 1 /\ needle[1] = SP
    OBVIOUS
  <1>2. found = strnstr(m, str, needle, count)
    OBVIOUS
  <1> HIDE DEF needle
  <1>3. ASSUME NEW x \in Int
        PROVE  (\A k \in 1 .. Len(needle) : m[x + k - 1] = needle[k]) <=> m[x] = SP
    <2>1. x + 1 - 1 = x /\ \A k \in 1 .. 1 : k = 1
      OBVIOUS
    <2> QED
      BY <1>1, <2>1
  <1>4. Occ = {x \in str .. str + count - 1 : m[x] = SP}
    BY <1>1, <1>3 DEF Occurrences
  <1>5. found = FirstOccurrence(m, str, needle, count)
    <2>1. Len(needle) \in Nat \ {0}
      BY <1>1
    <2> QED
      BY <1>2, <2>1, StrnstrFindsTheFirst
  <1>6. \/ found = NULL /\ Occ = {}
        \/ /\ found \in str .. str + count - Len(needle)
           /\ \A k \in 1 .. Len(needle) : m[found + k - 1] = needle[k]
           /\ \A a \in Occ : found <= a
    <2>1. Len(needle) \in Nat \ {0} /\ count \in Int
      BY <1>1
    <2> QED
      BY <1>5, <2>1, FirstOccurrenceIsFirst
  <1> HIDE DEF Occ
  <1> QED
    BY <1>1, <1>3, <1>4, <1>6

\* The body is where the header ends; the copy is what was sent until it is decoded.
LEMMA HeaderIsWhole ==
  ASSUME IInv, pc # "idle", msg.body # NoRef
  PROVE  /\ request \in Requests /\ request.complete
         /\ msg.body.str = Len(HeaderText(request)) /\ msg.body.str \in Nat
         /\ Header = [str |-> 0, len |-> msg.body.str]
         /\ pc \in {"header", "query", "options", "parsed"} => mem = Memory(Message(request))
         /\ msg.body.str + msg.body.len = Size /\ msg.body.str \in 1 .. Size /\ Size \in Nat
  <1>1. request \in Requests /\ Size \in Nat
    BY Fields DEF IInv, FieldsInv
  <1>2. /\ msg.body.str = Separator(request) /\ msg.body.str \in 1 .. Size
        /\ msg.body.len = Size - msg.body.str
    BY DEF IInv, BodyInv
  <1>3. request.complete /\ msg.body.str = Len(HeaderText(request))
    <2>1. NULL \notin 1 .. Size
      BY DEF NULL
    <2> QED
      BY <1>1, <1>2, <2>1, SeparatorIsBehindTheHeader
  <1>4. pc \in {"header", "query", "options", "parsed"} => mem = Memory(Message(request))
    BY DEF IInv, CopyInv, Sent
  <1> QED
    BY <1>1, <1>2, <1>3, <1>4 DEF Header

\* The characters of a header are in front of the body, in the copy as in what was sent.
LEMMA SpacesAreInMemory ==
  ASSUME IInv, pc = "header", msg.body # NoRef
  PROVE  Spaces = {a \in 0 .. msg.body.str - 1 : mem[a] = SP}
  <1> DEFINE text == HeaderText(request)
             n    == msg.body.str
  <1>1. /\ request \in Requests /\ n = Len(text) /\ n \in Nat
        /\ mem = Memory(Message(request)) /\ pc # "idle"
    BY HeaderIsWhole
  <1>2. \A i \in 1 .. Len(text) : mem[0 + i - 1] = text[i]
    BY <1>1, HeaderInMemory DEF Holds
  <1>3. Spaces = {a \in 0 .. Len(text) - 1 : text[a + 1] = SP}
    BY DEF Spaces
  <1> HIDE DEF text, n
  <1>4. \A a \in 0 .. n - 1 : mem[a] = text[a + 1]
    <2> TAKE a \in 0 .. n - 1
    <2> DEFINE i == a + 1
    <2>1. i \in 1 .. n /\ 0 + i - 1 = a
      BY <1>1
    <2> HIDE DEF i
    <2>2. mem[0 + i - 1] = text[i]
      BY <1>1, <1>2, <2>1
    <2> QED
      BY <2>1, <2>2 DEF i
  <1> QED
    BY <1>1, <1>3, <1>4 DEF n

\* The place of the first of some numbers.
LEMMA FirstOfPlaces ==
  ASSUME NEW S, S \subseteq Nat
  PROVE  /\ S = {} => FirstOf(S, NULL) = NULL
         /\ S # {} => FirstOf(S, NULL) \in S /\ \A a \in S : FirstOf(S, NULL) <= a
  <1>1. S \subseteq Int /\ 0 \in Int /\ \A x \in S : 0 <= x
    OBVIOUS
  <1> QED
    BY <1>1, FirstIsLeast

\* decompose_header finds the spaces of the header, where it has two; where it has one, the
\* url ends in the body or has a length that wraps.
LEMMA UrlIsTheSecondWord ==
  ASSUME IInv, pc = "header", ~HeaderIsUnreadable
  PROVE  /\ msg.body # NoRef /\ msg.body.str \in 1 .. Size
         /\ Header = [str |-> 0, len |-> msg.body.str]
         /\ first_space_len = FirstSpace /\ FirstSpace \in 0 .. msg.body.str - 1
         /\ mem[FirstSpace] = SP
         /\ SecondSpace # NULL => second_space = SecondSpace
         /\ LineRefs.url \in Ref /\ LineRefs.url.str = WordStart
         /\ WordStart \in 1 .. Size /\ WordLimit \in 0 .. Size
         /\ LineRefs.url.str + LineRefs.url.len <= WordLimit
         /\ LineRefs.url.len < 0 => SecondSpace = NULL
  <1> DEFINE sep   == msg.body.str
             first == first_space_len
             found == second_space
             count == Reach(first + 1, sep)
             Rest  == Spaces \ {FirstSpace}
  <1>0. 0 \in Int /\ 0 \in Nat
    OBVIOUS
  <1>1. msg.body # NoRef
    <2> SUFFICES ASSUME msg.body = NoRef PROVE HeaderIsUnreadable
      OBVIOUS
    <2>1. first = strnstr(mem, 0, <<SP>>, 0)
      BY DEF first_space_len, Header, NoRef
    <2> HIDE DEF first
    <2>2. first = NULL \/ first \in 0 .. 0 + 0 - 1
      BY <1>0, <2>1, SpaceIsFound
    <2> QED
      BY <2>2 DEF HeaderIsUnreadable, first
  <1>2. /\ sep \in 1 .. Size /\ Size \in Nat
        /\ Header = [str |-> 0, len |-> sep] /\ Header.len = sep
    <2>1. pc # "idle"
      OBVIOUS
    <2> QED
      BY <1>1, <2>1, HeaderIsWhole
  <1>3. Spaces = {a \in 0 .. sep - 1 : mem[a] = SP}
    BY <1>1, SpacesAreInMemory
  <1>4. first = strnstr(mem, 0, <<SP>>, sep) /\ first # NULL
    BY <1>2 DEF first_space_len, HeaderIsUnreadable
  <1>5. found = strnstr(mem, first + 1, <<SP>>, count)
    BY <1>2 DEF second_space
  <1>6. LineRefs.url = [str |-> first + 1, len |-> found - (first + 1)]
    BY DEF LineRefs, second_space_len
  <1> HIDE DEF first, sep, found, count
  <1>7. /\ first \in 0 .. sep - 1 /\ mem[first] = SP
        /\ \A a \in 0 .. sep - 1 : mem[a] = SP => first <= a
    <2>1. sep \in Nat /\ 0 + sep - 1 = sep - 1
      BY <1>2
    <2> QED
      BY <1>0, <1>4, <2>1, SpaceIsFound
  <1>8. first = FirstSpace
    <2>1. Spaces \subseteq Nat /\ first \in Spaces
      BY <1>2, <1>3, <1>7
    <2>2. FirstSpace \in Spaces /\ FirstSpace <= first
      BY <2>1, FirstOfPlaces DEF FirstSpace
    <2>3. FirstSpace \in 0 .. sep - 1 /\ first <= FirstSpace
      BY <1>3, <1>7, <2>2
    <2> QED
      BY <1>2, <1>7, <2>2, <2>3
  <1>9. Rest \subseteq Nat /\ Rest = {a \in first + 1 .. sep - 1 : mem[a] = SP}
    <2>1. \A a : a \in Rest <=> a \in 0 .. sep - 1 /\ mem[a] = SP /\ a # first
      BY <1>3, <1>8
    <2>2. \A a : a \in Rest <=> a \in first + 1 .. sep - 1 /\ mem[a] = SP
      BY <1>2, <1>7, <2>1
    <2> HIDE DEF Rest
    <2>3. \A a \in first + 1 .. sep - 1 : a \in Nat
      BY <1>2, <1>7
    <2> QED
      BY <2>2, <2>3
  <1>10. /\ (SecondSpace = NULL /\ Rest = {}) \/ SecondSpace \in Rest
         /\ \A a \in Rest : SecondSpace <= a
    <2>1. SecondSpace = FirstOf(Rest, NULL)
      BY DEF SecondSpace
    <2> HIDE DEF Rest
    <2> QED
      BY <1>9, <2>1, FirstOfPlaces
  <1> HIDE DEF Rest
  <1>11. count \in Nat /\ first + 1 + count <= Size + 1 /\ sep <= first + 1 + count
    <2> DEFINE at == first + 1
    <2>1. at \in 0 .. Size + 1 /\ sep \in Int /\ sep <= at + sep /\ sep <= Size + 1
      BY <1>2, <1>7
    <2>2. count = Reach(at, sep)
      BY DEF count
    <2> HIDE DEF at
    <2>3. count \in Nat /\ at + count <= Size + 1
      BY <1>2, <2>1, <2>2, ReachIsInTheCopy
    <2>4. count = sep \/ count = Size + 1 - at
      BY <2>2 DEF Reach
    <2> QED
      BY <1>2, <2>1, <2>3, <2>4 DEF at
  <1>12. \/ found = NULL /\ \A a \in first + 1 .. first + 1 + count - 1 : mem[a] # SP
         \/ /\ found \in first + 1 .. first + 1 + count - 1 /\ mem[found] = SP
            /\ \A a \in first + 1 .. first + 1 + count - 1 : mem[a] = SP => found <= a
    <2> DEFINE at == first + 1
    <2>1. at \in Int /\ count \in Nat /\ found = strnstr(mem, at, <<SP>>, count)
      BY <1>2, <1>5, <1>7, <1>11
    <2> HIDE DEF at
    <2>2. \/ found = NULL /\ \A a \in at .. at + count - 1 : mem[a] # SP
          \/ /\ found \in at .. at + count - 1 /\ mem[found] = SP
             /\ \A a \in at .. at + count - 1 : mem[a] = SP => found <= a
      BY <2>1, SpaceIsFound
    <2> QED
      BY <2>2 DEF at
  <1>13. first + 1 \in 1 .. Size /\ WordStart = first + 1
    BY <1>2, <1>7, <1>8 DEF WordStart
  <1>14. CASE SecondSpace = NULL
    <2>1. WordLimit = Size
      BY <1>14 DEF WordLimit
    <2>2. found - (first + 1) \in Int /\ first + 1 + (found - (first + 1)) <= Size
      BY <1>2, <1>7, <1>11, <1>12 DEF NULL
    <2> QED
      BY <1>1, <1>2, <1>6, <1>7, <1>8, <1>13, <1>14, <2>1, <2>2 DEF Ref, sep, first
  <1>15. CASE SecondSpace # NULL
    <2>1. SecondSpace \in first + 1 .. sep - 1 /\ mem[SecondSpace] = SP
      BY <1>9, <1>10, <1>15
    <2>2. SecondSpace \in first + 1 .. first + 1 + count - 1
      BY <1>2, <1>7, <1>11, <2>1
    <2>3. found \in first + 1 .. first + 1 + count - 1 /\ mem[found] = SP /\ found <= SecondSpace
      BY <1>12, <2>1, <2>2
    <2>4. found \in first + 1 .. sep - 1
      BY <1>2, <1>7, <1>11, <2>1, <2>3
    <2>5. SecondSpace <= found
      BY <1>9, <1>10, <2>3, <2>4
    <2>6. found = SecondSpace
      BY <1>2, <1>7, <2>1, <2>3, <2>4, <2>5
    <2>7. WordLimit = found /\ WordLimit \in 0 .. Size
      BY <1>2, <1>7, <1>15, <2>4, <2>6 DEF WordLimit
    <2>8. found - (first + 1) \in Nat /\ first + 1 + (found - (first + 1)) <= found
      BY <1>2, <1>7, <2>4
    <2> QED
      BY <1>1, <1>2, <1>6, <1>7, <1>8, <1>13, <2>6, <2>7, <2>8 DEF Ref, sep, first, found
  <1> QED
    BY <1>14, <1>15

\* The codes are within their tables.
LEMMA CodesInRange ==
  ASSUME NEW ref
  PROVE  get_method_code(ref) \in HTTP_Method /\ get_version_code(ref) \in HTTP_Version
  <1>1. ASSUME NEW n \in Nat, NEW S, S \subseteq (0 .. n) \ {0} PROVE FirstOf(S, 0) \in 0 .. n
    <2>1. S \subseteq Int /\ 0 \in Int /\ \A x \in S : 0 <= x
      BY <1>1
    <2>2. S = {} => FirstOf(S, 0) = 0
      BY DEF FirstOf
    <2>3. S # {} => FirstOf(S, 0) \in S
      BY <2>1, FirstIsLeast
    <2> QED
      BY <1>1, <2>2, <2>3, 0 \in 0 .. n
  <1>2. 9 \in Nat /\ 5 \in Nat
    OBVIOUS
  <1> QED
    BY <1>1, <1>2 DEF get_method_code, get_version_code, HTTP_Method, HTTP_Version

\* The question mark, if it is not at the start, is inside the url, and the query is what
\* follows it.
LEMMA QueryIsInTheUrl ==
  ASSUME Size \in Nat, NEW ref, ref.str \in 0 .. Size + 1, ref.len \in Int, HasQuery(ref)
  PROVE  /\ QmarkIndex(ref) \in Nat \ {0} /\ (0 <= ref.len => QmarkIndex(ref) < ref.len)
         /\ QueryRef(ref).str \in 0 .. Size + 1 /\ ref.str <= QueryRef(ref).str
         /\ QueryRef(ref).len \in Int /\ (0 <= ref.len => 0 <= QueryRef(ref).len)
         /\ QueryRef(ref).str + QueryRef(ref).len = ref.str + ref.len
  <1> DEFINE count == Reach(ref.str, ref.len)
             found == strnchr(mem, ref.str, QuestionMark, count)
             q     == QmarkIndex(ref)
             a     == ref.str
             l     == ref.len
  <1>1. count \in Nat /\ a + count <= Size + 1 /\ (l \in Nat => count <= l)
    BY ReachIsInTheCopy
  <1>2. q = found - a
    BY DEF QmarkIndex
  <1>3. found = NULL \/ found \in a .. a + count - 1
    <2>1. a \in Int /\ count \in Int
      BY <1>1
    <2>2. found = strnchr(mem, a, QuestionMark, count)
      OBVIOUS
    <2> HIDE DEF a, count, found
    <2>3. strnchr(mem, a, QuestionMark, count) = NULL
          \/ strnchr(mem, a, QuestionMark, count) \in a .. a + count - 1
      BY <2>1, StrnchrFinds
    <2> QED
      BY <2>2, <2>3
  <1>4. q > 0
    BY DEF HasQuery
  <1>5. QueryRef(ref) = [str |-> a + q + 1, len |-> l - q - 1]
    BY DEF QueryRef
  <1>6. a \in 0 .. Size + 1 /\ l \in Int
    OBVIOUS
  <1> HIDE DEF a, l, q, found, count
  <1>7. q \in Nat \ {0} /\ q <= count - 1
    BY <1>1, <1>2, <1>3, <1>4, <1>6 DEF NULL
  <1>8. /\ 0 <= l => q < l /\ 0 <= l - q - 1
        /\ a + q + 1 \in 0 .. Size + 1 /\ a <= a + q + 1 /\ l - q - 1 \in Int
        /\ a + q + 1 + (l - q - 1) = a + l
    BY <1>1, <1>6, <1>7
  <1> QED
    BY <1>5, <1>7, <1>8 DEF a, l, q

\* The first line is split, and parse_options is called for the query or the header.
LEMMA DecomposeKeepsIInv ==
  ASSUME IInv, decompose_header
  PROVE  IInv'
  <1>1. /\ pc = "header" /\ UNCHANGED <<request, mem, decode>> /\ request \in Requests
        /\ Size' = Size /\ InCopy' = InCopy /\ Sent' = Sent /\ Size \in Nat
        /\ mem = Sent /\ decode = NoDecode /\ mem \in [0 .. Size -> 0 .. 255]
    BY SameRequest, Fields DEF decompose_header, IInv, FieldsInv, CopyInv
  <1>2. CASE HeaderIsUnreadable
    <2>1. pc' = "killed" /\ UNCHANGED <<msg, loop>>
      BY <1>2 DEF decompose_header
    <2>2. FieldsInv' /\ BodyInv' /\ RefsAreInTheCopy'
      BY <1>1, <2>1, SameRequest DEF IInv, FieldsInv, BodyInv, RefsAreInTheCopy, Phases
    <2> QED
      BY <2>1, <2>2 DEF IInv, CopyInv, UrlInv, QueryInv, LoopInv, DecodeKeepsTheRest
  <1>4. CASE ~HeaderIsUnreadable /\ LineIsAstray
    <2>1. msg.body # NoRef
      BY <1>1, <1>4, UrlIsTheSecondWord
    <2>2. pc' = "astray" /\ UNCHANGED <<msg, loop>>
      BY <1>4 DEF decompose_header
    <2>3. FieldsInv' /\ BodyInv' /\ RefsAreInTheCopy'
      BY <1>1, <2>1, <2>2, SameRequest
         DEF IInv, FieldsInv, BodyInv, RefsAreInTheCopy, Phases
    <2> QED
      BY <2>2, <2>3 DEF IInv, CopyInv, UrlInv, QueryInv, LoopInv, DecodeKeepsTheRest
  <1>3. CASE ~HeaderIsUnreadable /\ ~LineIsAstray
    <2> DEFINE u       == LineRefs.url
               segment == IF HasQuery(u) THEN QueryRef(u) ELSE Header
               phase   == IF HasQuery(u) THEN "query" ELSE "options"
    <2>1. /\ msg' = [msg EXCEPT !.method  = get_method_code(LineRefs.method), !.url = u,
                                !.version = get_version_code(LineRefs.version)]
          /\ ParseOptions(segment, phase)
      BY <1>3 DEF decompose_header
    <2>2. /\ msg.body # NoRef /\ msg.body.str \in 1 .. Size
          /\ Header = [str |-> 0, len |-> msg.body.str]
          /\ u \in Ref /\ u.str = WordStart /\ WordStart \in 1 .. Size
          /\ WordLimit \in 0 .. Size /\ u.str + u.len <= WordLimit
          /\ u.len < 0 => SecondSpace = NULL
      BY <1>1, <1>3, UrlIsTheSecondWord
    <2> HIDE DEF u
    <2>21. u.len \in Int /\ u.str \in 0 .. Size + 1 /\ u.str + u.len <= Size /\ u.str \in Nat
      BY <1>1, <2>2 DEF Ref
    <2>3. /\ segment.str \in 0 .. Size + 1 /\ segment.len \in Int
          /\ segment.str + segment.len <= Size
          /\ HasQuery(u) => /\ QmarkIndex(u) \in Nat \ {0}
                            /\ 0 <= u.len => QmarkIndex(u) < u.len
      <3>1. CASE HasQuery(u)
        <4>1. /\ QmarkIndex(u) \in Nat \ {0} /\ (0 <= u.len => QmarkIndex(u) < u.len)
              /\ QueryRef(u).str \in 0 .. Size + 1 /\ QueryRef(u).len \in Int
              /\ QueryRef(u).str + QueryRef(u).len = u.str + u.len
          BY <1>1, <2>21, <3>1, QueryIsInTheUrl
        <4>2. segment = QueryRef(u)
          BY <3>1
        <4> HIDE DEF segment
        <4> QED
          BY <2>21, <4>1, <4>2
      <3>2. CASE ~HasQuery(u)
        BY <1>1, <2>2, <3>2
      <3> QED
        BY <3>1, <3>2
    <2>4. /\ loop' \in [chunk : Int, limit : Int, limit_len : Int, visited : SUBSET Ref]
          /\ \/ pc' \in {"killed", "astray"}
             \/ /\ pc' = phase /\ loop'.chunk \in Nat
                /\ loop'.limit \in Int /\ loop'.limit <= Size
                /\ loop'.limit_len = loop'.limit - loop'.chunk
      <3>1. loop \in [chunk : Int, limit : Int, limit_len : Int, visited : SUBSET Ref]
        BY DEF IInv, FieldsInv
      <3> HIDE DEF segment, phase
      <3>2. /\ loop' \in [chunk : Int, limit : Int, limit_len : Int, visited : SUBSET Ref]
            /\ \/ pc' \in {"killed", "astray"}
               \/ /\ pc' = phase /\ loop'.limit = segment.str + segment.len
                  /\ segment.str <= loop'.chunk /\ loop'.chunk \in Nat
                  /\ loop'.limit_len = loop'.limit - loop'.chunk
        BY <1>1, <2>1, <2>3, <3>1, ParseOptionsEnters
      <3>3. segment.str + segment.len \in Int
        BY <2>3
      <3> QED
        BY <2>3, <3>2, <3>3
    <2>5. /\ msg' \in [method : HTTP_Method, version : HTTP_Version, url : Ref, body : Ref,
                       header_options : [HTTPHeaderRequestOption -> Ref],
                       parameters : {msg'.parameters}]
          /\ msg'.url = u /\ msg'.body = msg.body /\ msg'.parameters = msg.parameters
          /\ msg'.header_options = msg.header_options
      <3>1. /\ get_method_code(LineRefs.method) \in HTTP_Method
            /\ get_version_code(LineRefs.version) \in HTTP_Version
        BY CodesInRange
      <3>2. msg \in [method : HTTP_Method, version : HTTP_Version, url : Ref, body : Ref,
                     header_options : [HTTPHeaderRequestOption -> Ref],
                     parameters : {msg.parameters}]
        BY DEF IInv, FieldsInv
      <3> QED
        BY <2>1, <2>2, <3>1, <3>2
    <2>6. u \in InCopy \/ (u.len < 0 /\ SecondSpace = NULL)
      BY <1>1, <2>2, <2>21 DEF InCopy
    <2>7. FieldsInv'
      BY <1>1, <2>4, <2>5 DEF IInv, FieldsInv, Phases
    <2>8. CopyInv' /\ BodyInv' /\ UrlInv' /\ LoopInv' /\ RefsAreInTheCopy'
      <3>1. CopyInv' /\ LoopInv'
        BY <1>1, <2>4 DEF CopyInv, LoopInv
      <3>2. UrlInv'
        BY <1>1, <2>2, <2>5, SameRequest DEF UrlInv
      <3>3. BodyInv'
        <4>1. /\ msg.body.str = Separator(request) /\ msg.body.len = Size - msg.body.str
          BY <1>1, <2>2 DEF IInv, BodyInv
        <4> QED
          BY <1>1, <2>2, <2>5, <4>1 DEF BodyInv
      <3>4. RefsAreInTheCopy'
        BY <1>1, <2>5, <2>6, SameRequest DEF IInv, RefsAreInTheCopy
      <3> QED
        BY <3>1, <3>2, <3>3, <3>4
    <2>9. QueryInv'
      <3>1. QmarkIndex(msg.url)' = QmarkIndex(u)
        BY <1>1, <2>5 DEF QmarkIndex, Reach, LeavesCopy
      <3>2. pc' = "query" => HasQuery(u)
        BY <2>4
      <3> QED
        BY <2>3, <2>5, <3>1, <3>2 DEF QueryInv
    <2>10. DecodeKeepsTheRest'
      BY <2>4 DEF DecodeKeepsTheRest
    <2> QED
      BY <2>7, <2>8, <2>9, <2>10 DEF IInv
  <1> QED
    BY <1>2, <1>3, <1>4

\* A chunk and the two halves of an item lie in the segment.
LEMMA ChunkIsInTheCopy ==
  ASSUME IInv, InLoop, NEW chunk, chunk = ChunkRef, NEW sep, sep = ItemSepIn(chunk)
  PROVE  /\ chunk.str = loop.chunk /\ chunk.len \in 0 .. loop.limit_len /\ chunk \in Ref
         /\ Advance(chunk) \in Nat
         /\ sep # NULL => KeyOf(chunk, sep) \in InCopy /\ ValueOf(chunk, sep) \in InCopy
  <1> DEFINE c      == loop.chunk
             l      == loop.limit_len
             needle == ChunkSep(pc)
             found  == strnstr(mem, c, needle, l)
  <1>1. /\ c \in Nat /\ l \in Nat /\ c + l = loop.limit /\ c + l <= Size /\ Size \in Nat
        /\ pc # "idle"
    <2>1. Size \in Nat /\ pc \in {"query", "options"} /\ c < loop.limit
      BY Fields DEF InLoop, IInv
    <2> QED
      BY <2>1 DEF IInv, LoopInv
  <1>2. Len(needle) \in 1 .. 2
    BY SeparatorsHaveLength
  <1> HIDE DEF needle
  <1>3. found = NULL \/ found \in c .. c + l - Len(needle)
    <2>1. Len(needle) \in Nat \ {0} /\ c \in Int
      <3> DEFINE k == Len(needle)
      <3>1. k \in 1 .. 2
        BY <1>2
      <3> HIDE DEF k
      <3>2. k \in Nat \ {0}
        BY <3>1
      <3> QED
        BY <1>1, <3>2 DEF k
    <2> QED
      BY <1>1, <2>1, StrnstrRange
  <1>4. chunk = [str |-> c, len |-> IF found = NULL THEN l ELSE found - c]
    BY DEF ChunkRef, needle
  <1> HIDE DEF c, l, found
  <1>5. chunk.str = c /\ chunk.len \in 0 .. l
    <2> DEFINE k == Len(needle)
    <2>1. k \in 1 .. 2 /\ (found = NULL \/ found \in c .. c + l - k)
      BY <1>2, <1>3
    <2> HIDE DEF k
    <2> QED
      BY <1>1, <1>4, <2>1
  <1>6. chunk \in Ref
    BY <1>1, <1>4, <1>5 DEF Ref
  <1>7. Advance(chunk) \in Nat
    <2> DEFINE k == Len(ChunkSep(pc))
    <2>1. k \in 1 .. 2 /\ Advance(chunk) = chunk.len + k
      BY SeparatorsHaveLength DEF Advance
    <2> HIDE DEF k
    <2> QED
      BY <1>1, <1>5, <2>1
  <1>8. sep = NULL \/ sep \in c .. c + chunk.len - 1
    <2>1. chunk.str \in Int /\ chunk.len \in Int
      BY <1>1, <1>5
    <2>2. sep = strnchr(mem, chunk.str, ItemSep(pc), chunk.len)
      BY DEF ItemSepIn
    <2> QED
      BY <1>5, <2>1, <2>2, StrnchrFinds
  <1>9. ASSUME sep # NULL PROVE KeyOf(chunk, sep) \in InCopy /\ ValueOf(chunk, sep) \in InCopy
    <2> DEFINE k == [str |-> chunk.str, len |-> sep - chunk.str]
               v == [str |-> sep + 1, len |-> chunk.len - (sep - chunk.str) - 1]
    <2>1. sep \in c .. c + chunk.len - 1 /\ chunk.len \in Nat /\ chunk.len <= l
      BY <1>1, <1>5, <1>8, <1>9
    <2>2. /\ k.str \in Nat /\ k.len \in Nat /\ k.str + k.len <= Size
          /\ v.str \in Nat /\ v.len \in Nat /\ v.str + v.len <= Size
      BY <1>1, <1>5, <2>1
    <2>3. KeyOf(chunk, sep) = trim(mem, k) /\ ValueOf(chunk, sep) = trim(mem, v)
      BY DEF KeyOf, ValueOf
    <2> HIDE DEF k, v
    <2>4. ASSUME NEW ref, ref.str \in Nat, ref.len \in Nat, ref.str + ref.len <= Size
          PROVE  trim(mem, ref) \in InCopy
      <3> DEFINE t == trim(mem, ref)
      <3>1. /\ t = [str |-> t.str, len |-> t.len] /\ t.str \in Int /\ t.len \in Nat
            /\ ref.str <= t.str /\ t.str + t.len <= ref.str + ref.len
        <4>1. ref.str \in Int
          BY <2>4
        <4> QED
          BY <2>4, <4>1, TrimWithin
      <3> HIDE DEF t
      <3>2. 0 <= t.str /\ 0 <= t.len /\ t.str + t.len <= Size /\ t \in Ref
        BY <1>1, <2>4, <3>1 DEF Ref
      <3> QED
        BY <3>2 DEF InCopy, t
    <2> QED
      BY <2>2, <2>3, <2>4
  <1> QED
    BY <1>5, <1>6, <1>7, <1>9 DEF c, l

\* An iteration of parse_options stores at most one reference, into the copy.
LEMMA ParseChunkKeepsIInv ==
  ASSUME IInv, ParseChunk
  PROVE  IInv'
  <1>1. PICK chunk \in {ChunkRef} : \E sep \in {ItemSepIn(chunk)} :
          /\ msg' = IF IsStored(chunk, sep)
                    THEN Add(pc, KeyOf(chunk, sep), ValueOf(chunk, sep)) ELSE msg
          /\ loop' = [loop EXCEPT !.chunk     = @ + Advance(chunk),
                                  !.limit_len = LengthLeft(chunk),
                                  !.visited   = @ \cup {chunk}]
    BY DEF ParseChunk
  <1>2. PICK sep \in {ItemSepIn(chunk)} :
          /\ msg' = IF IsStored(chunk, sep)
                    THEN Add(pc, KeyOf(chunk, sep), ValueOf(chunk, sep)) ELSE msg
          /\ loop' = [loop EXCEPT !.chunk     = @ + Advance(chunk),
                                  !.limit_len = LengthLeft(chunk),
                                  !.visited   = @ \cup {chunk}]
    BY <1>1
  <1> DEFINE key == KeyOf(chunk, sep)
             val == ValueOf(chunk, sep)
  <1>3. /\ InLoop /\ UNCHANGED <<pc, request, mem, decode>> /\ pc \in {"query", "options"}
        /\ Size' = Size /\ InCopy' = InCopy /\ Sent' = Sent
        /\ FieldsInv /\ RefsAreInTheCopy /\ pc # "idle"
    BY SameRequest DEF ParseChunk, InLoop, IInv
  <1>4. /\ chunk \in Ref /\ Advance(chunk) \in Nat
        /\ sep # NULL => key \in InCopy /\ val \in InCopy
    BY <1>3, ChunkIsInTheCopy
  <1> HIDE DEF key, val
  <1>5. /\ msg' \in [method : HTTP_Method, version : HTTP_Version, url : Ref, body : Ref,
                     header_options : [HTTPHeaderRequestOption -> Ref],
                     parameters : {msg'.parameters}]
        /\ msg'.url = msg.url /\ msg'.body = msg.body
        /\ \A i \in HTTPHeaderRequestOption : msg'.header_options[i] \in InCopy \cup {NoRef}
        /\ MapShape(msg'.parameters, Seq(0 .. 255), InCopy)
    <2>1. /\ msg \in [method : HTTP_Method, version : HTTP_Version, url : Ref, body : Ref,
                      header_options : [HTTPHeaderRequestOption -> Ref],
                      parameters : {msg.parameters}]
          /\ \A i \in HTTPHeaderRequestOption : msg.header_options[i] \in InCopy \cup {NoRef}
          /\ MapShape(msg.parameters, Seq(0 .. 255), InCopy)
      BY <1>3 DEF FieldsInv, RefsAreInTheCopy
    <2>2. CASE ~IsStored(chunk, sep)
      BY <1>2, <2>1, <2>2
    <2>3. CASE IsStored(chunk, sep) /\ pc = "query"
      <3>1. key \in InCopy /\ val \in InCopy
        BY <1>4, <2>3 DEF IsStored
      <3>2. MapShape(Map_set(msg.parameters, TextOf(mem, key), val), Seq(0 .. 255), InCopy)
        BY <1>3, <2>1, <3>1, TextOfCopy, MapSetShape
      <3>3. msg' = [msg EXCEPT !.parameters = Map_set(@, TextOf(mem, key), val)]
        BY <1>2, <2>3 DEF Add, key, val
      <3> QED
        BY <2>1, <3>2, <3>3
    <2>4. CASE IsStored(chunk, sep) /\ pc # "query"
      <3>1. val \in InCopy /\ val \in Ref
        BY <1>4, <2>4 DEF IsStored, InCopy
      <3> DEFINE h == [msg.header_options EXCEPT ![get_parameter_code(key)] = val]
      <3>2. /\ h \in [HTTPHeaderRequestOption -> Ref]
            /\ \A i \in HTTPHeaderRequestOption : h[i] \in InCopy \cup {NoRef}
        BY <2>1, <3>1
      <3>3. msg' = [msg EXCEPT !.header_options = h]
        BY <1>2, <2>4 DEF Add, key, val
      <3> HIDE DEF h
      <3> QED
        BY <2>1, <3>2, <3>3
    <2> QED
      BY <2>2, <2>3, <2>4
  <1>6. /\ loop' \in [chunk : Int, limit : Int, limit_len : Int, visited : SUBSET Ref]
        /\ loop'.chunk \in Nat /\ loop'.limit \in Int /\ loop'.limit <= Size
        /\ loop'.limit_len = loop'.limit - loop'.chunk
    <2>1. /\ loop.chunk \in Nat /\ loop.limit \in Int /\ loop.limit <= Size
          /\ loop.limit_len = loop.limit - loop.chunk
      BY <1>3 DEF IInv, LoopInv
    <2>2. LengthLeft(chunk) = loop.limit_len - Advance(chunk)
      BY DEF LengthLeft
    <2>3. loop \in [chunk : Int, limit : Int, limit_len : Int, visited : SUBSET Ref]
      BY <1>3 DEF FieldsInv
    <2>4. loop' = [chunk |-> loop.chunk + Advance(chunk), limit |-> loop.limit,
                   limit_len |-> loop.limit_len - Advance(chunk),
                   visited |-> loop.visited \cup {chunk}]
      BY <1>2, <2>2, <2>3
    <2> QED
      BY <1>4, <2>1, <2>3, <2>4
  <1>7. FieldsInv'
    BY <1>3, <1>5, <1>6 DEF FieldsInv
  <1>8. CopyInv' /\ BodyInv' /\ UrlInv' /\ LoopInv' /\ RefsAreInTheCopy'
    BY <1>3, <1>5, <1>6, SameRequest
       DEF IInv, CopyInv, BodyInv, UrlInv, LoopInv, RefsAreInTheCopy
  <1>9. QueryInv'
    <2>1. QmarkIndex(msg.url)' = QmarkIndex(msg.url)
      BY <1>3, <1>5 DEF QmarkIndex, Reach, LeavesCopy
    <2> QED
      BY <1>3, <1>5, <2>1 DEF IInv, QueryInv
  <1>10. DecodeKeepsTheRest'
    BY <1>3 DEF DecodeKeepsTheRest
  <1> QED
    BY <1>7, <1>8, <1>9, <1>10 DEF IInv

\* The url loses no more than its length, and the options are parsed.
LEMMA AfterQueryKeepsIInv ==
  ASSUME IInv, AfterQuery
  PROVE  IInv'
  <1>1. /\ pc = "query" /\ UNCHANGED <<request, mem, decode>> /\ request \in Requests
        /\ Size' = Size /\ InCopy' = InCopy /\ Sent' = Sent /\ Size \in Nat
        /\ mem = Sent /\ decode = NoDecode /\ mem \in [0 .. Size -> 0 .. 255]
    BY SameRequest, Fields DEF AfterQuery, IInv, FieldsInv, CopyInv
  <1>2. /\ msg.body.str = Separator(request) /\ msg.body.str \in 1 .. Size
        /\ msg.body.len = Size - msg.body.str /\ Header = [str |-> 0, len |-> msg.body.str]
        /\ WordStart \in 1 .. Size /\ WordLimit \in 0 .. Size
        /\ msg.url.str = WordStart /\ msg.url.str + msg.url.len <= WordLimit
        /\ msg.url.len < 0 => SecondSpace = NULL
        /\ QmarkIndex(msg.url) \in Nat \ {0}
        /\ 0 <= msg.url.len => QmarkIndex(msg.url) < msg.url.len
        /\ msg.url.len \in Int
    <2>1. msg.body # NoRef
      <3>1. msg.body.str \in 1 .. Size
        BY <1>1 DEF IInv, BodyInv
      <3>2. msg.body.str # NULL
        BY <1>1, <3>1 DEF NULL
      <3> QED
        BY <3>2 DEF NoRef
    <2> QED
      BY <1>1, <2>1 DEF IInv, FieldsInv, Ref, BodyInv, UrlInv, QueryInv, Header
  <1> DEFINE u == [str |-> msg.url.str, len |-> msg.url.len - QmarkIndex(msg.url)]
  <1>3. /\ msg' = [msg EXCEPT !.url = u] /\ ParseOptions(Header, "options")
    <2>1. msg.url = [str |-> msg.url.str, len |-> msg.url.len]
      BY DEF IInv, FieldsInv, Ref
    <2>2. msg' = [msg EXCEPT !.url.len = @ - QmarkIndex(msg.url)]
          /\ ParseOptions(Header, "options")
      BY DEF AfterQuery
    <2> QED
      BY <2>1, <2>2
  <1>4. /\ u.str = WordStart /\ u.str + u.len <= WordLimit /\ u \in Ref
        /\ u.len < 0 => SecondSpace = NULL
        /\ u \in InCopy \/ (u.len < 0 /\ SecondSpace = NULL)
    <2> DEFINE q == QmarkIndex(msg.url)
               a == msg.url.str
               l == msg.url.len
               w == WordLimit
    <2>1. /\ q \in Nat \ {0} /\ l \in Int /\ (0 <= l => q < l) /\ a = WordStart /\ a \in 1 .. Size
          /\ w \in 0 .. Size /\ a + l <= w /\ Size \in Nat /\ (l < 0 => SecondSpace = NULL)
          /\ u = [str |-> a, len |-> l - q]
      BY <1>1, <1>2
    <2> HIDE DEF q, u, a, l, w
    <2>2. /\ u.str = a /\ u.len = l - q /\ u = [str |-> u.str, len |-> u.len]
          /\ l - q \in Int /\ (l - q < 0 => l < 0) /\ a + (l - q) <= w /\ a + (l - q) <= Size
      BY <2>1
    <2>3. u \in Ref
      BY <2>1, <2>2 DEF Ref
    <2> QED
      BY <2>1, <2>2, <2>3 DEF InCopy, w
  <1> HIDE DEF u
  <1>5. /\ loop' \in [chunk : Int, limit : Int, limit_len : Int, visited : SUBSET Ref]
        /\ \/ pc' \in {"killed", "astray"}
           \/ /\ pc' = "options" /\ loop'.chunk \in Nat
              /\ loop'.limit \in Int /\ loop'.limit <= Size
              /\ loop'.limit_len = loop'.limit - loop'.chunk
    <2>1. loop \in [chunk : Int, limit : Int, limit_len : Int, visited : SUBSET Ref]
      BY DEF IInv, FieldsInv
    <2> DEFINE segment == Header
               phase   == "options"
    <2>2. /\ segment.str \in 0 .. Size + 1 /\ segment.len \in Int
          /\ segment.str + segment.len <= Size /\ segment.str + segment.len \in Int
      BY <1>1, <1>2
    <2>3. ParseOptions(segment, phase) /\ phase = "options"
      BY <1>3
    <2> HIDE DEF segment, phase
    <2>4. /\ loop' \in [chunk : Int, limit : Int, limit_len : Int, visited : SUBSET Ref]
          /\ \/ pc' \in {"killed", "astray"}
             \/ /\ pc' = phase /\ loop'.limit = segment.str + segment.len
                /\ segment.str <= loop'.chunk /\ loop'.chunk \in Nat
                /\ loop'.limit_len = loop'.limit - loop'.chunk
      BY <1>1, <2>1, <2>2, <2>3, ParseOptionsEnters
    <2> QED
      BY <2>2, <2>3, <2>4
  <1>6. /\ msg' \in [method : HTTP_Method, version : HTTP_Version, url : Ref, body : Ref,
                     header_options : [HTTPHeaderRequestOption -> Ref],
                     parameters : {msg'.parameters}]
        /\ msg'.url = u /\ msg'.body = msg.body /\ msg'.parameters = msg.parameters
        /\ msg'.header_options = msg.header_options
    <2>1. msg \in [method : HTTP_Method, version : HTTP_Version, url : Ref, body : Ref,
                   header_options : [HTTPHeaderRequestOption -> Ref],
                   parameters : {msg.parameters}]
      BY DEF IInv, FieldsInv
    <2> QED
      BY <1>3, <1>4, <2>1
  <1>7. FieldsInv'
    BY <1>1, <1>5, <1>6 DEF IInv, FieldsInv, Phases
  <1>8. CopyInv' /\ LoopInv' /\ QueryInv' /\ DecodeKeepsTheRest'
    BY <1>1, <1>5 DEF CopyInv, LoopInv, QueryInv, DecodeKeepsTheRest
  <1>9. UrlInv' /\ BodyInv'
    BY <1>1, <1>2, <1>4, <1>6, SameRequest DEF UrlInv, BodyInv
  <1>10. RefsAreInTheCopy'
    BY <1>1, <1>4, <1>6, SameRequest DEF IInv, RefsAreInTheCopy
  <1> QED
    BY <1>7, <1>8, <1>9, <1>10 DEF IInv

\* A step that changes nothing.
LEMMA StutterKeepsIInv ==
  ASSUME IInv, UNCHANGED vars
  PROVE  IInv'
  <1>1. UNCHANGED <<pc, request, mem, msg, loop, decode>> /\ Size' = Size /\ InCopy' = InCopy
        /\ Sent' = Sent /\ url' = url /\ QmarkIndex(msg.url)' = QmarkIndex(msg.url)
    BY SameRequest DEF vars, url, QmarkIndex, Reach, LeavesCopy
  <1> QED
    BY <1>1, SameRequest DEF IInv, FieldsInv, CopyInv, BodyInv, UrlInv, QueryInv, LoopInv,
                RefsAreInTheCopy, DecodeKeepsTheRest

\* The steps of a request that change neither the copy nor what refers to it.
LEMMA OnlyThePhaseChanges ==
  ASSUME IInv, UNCHANGED <<request, mem, msg, decode>>,
         \/ pc = "options" /\ pc' = "parsed" /\ loop' = NoLoop
         \/ pc = "parsed" /\ pc' = "decoding" /\ loop' = loop
  PROVE  IInv'
  <1>1. /\ Size' = Size /\ InCopy' = InCopy /\ Sent' = Sent /\ pc # "idle" /\ pc' # "idle"
        /\ mem = Sent /\ decode = NoDecode
    BY SameRequest DEF IInv, CopyInv
  <1>2. FieldsInv'
    BY <1>1 DEF IInv, FieldsInv, Phases, NoLoop, NULL
  <1>3. CopyInv' /\ BodyInv' /\ UrlInv' /\ QueryInv' /\ LoopInv' /\ RefsAreInTheCopy'
    BY <1>1, SameRequest
       DEF IInv, CopyInv, BodyInv, UrlInv, QueryInv, LoopInv, RefsAreInTheCopy
  <1>4. DecodeKeepsTheRest'
    <2>1. CASE pc' = "parsed"
      BY <2>1 DEF DecodeKeepsTheRest
    <2>2. CASE pc' = "decoding"
      <3>1. decode' = NoDecode /\ url' = url /\ mem' = Sent'
        BY <1>1 DEF url
      <3> QED
        BY <3>1 DEF DecodeKeepsTheRest, NoDecode
    <2> QED
      BY <2>1, <2>2
  <1> QED
    BY <1>2, <1>3, <1>4 DEF IInv

\* A character is written where decoding is, in front of what is not read yet.
LEMMA WriteKeepsIInv ==
  ASSUME IInv, pc = "decoding", NEW c \in 0 .. 255,
         mem' = [mem EXCEPT ![url.str + decode.write_index] = c],
         UNCHANGED <<request, msg, loop>>,
         \/ /\ pc' = "decoded" /\ decode' = decode
         \/ /\ pc' = "decoding" /\ DecodeLoop
            /\ \E taken \in 1 .. 3 : decode' = [write_index |-> decode.write_index + 1,
                                                read_index  |-> decode.read_index + taken]
  PROVE  IInv'
  <1>1. /\ Size' = Size /\ InCopy' = InCopy /\ Sent' = Sent /\ url' = url
        /\ pc # "idle" /\ pc' # "idle" /\ mem \in [0 .. Size -> 0 .. 255]
        /\ url.str \in Nat /\ url.len \in Int
        /\ decode.write_index \in Nat /\ decode.read_index \in Nat
        /\ decode.write_index <= decode.read_index
        /\ 0 <= url.len => decode.write_index <= url.len
    BY SameRequest DEF IInv, FieldsInv, Ref, UrlInv, DecodeKeepsTheRest, url
  <1> DEFINE at      == url.str + decode.write_index
             written == url.str .. url.str + decode.write_index - 1
             next    == url.str .. url.str + decode.write_index
  <1>2. mem' \in [0 .. Size -> 0 .. 255] /\ \A a \in DOMAIN mem : a # at => mem'[a] = mem[a]
    BY <1>1
  <1>3. /\ decode' \in [write_index : Nat, read_index : Nat]
        /\ decode'.write_index <= decode'.read_index
        /\ 0 <= url.len => decode'.write_index <= url.len
        /\ decode'.write_index = decode.write_index + (IF pc' = "decoded" THEN 0 ELSE 1)
    <2>1. CASE pc' = "decoded"
      BY <1>1, <2>1 DEF IInv, FieldsInv
    <2>2. CASE pc' = "decoding"
      <3>1. PICK taken \in 1 .. 3 : decode' = [write_index |-> decode.write_index + 1,
                                               read_index  |-> decode.read_index + taken]
        BY <2>2
      <3> DEFINE w == decode.write_index
                 r == decode.read_index
      <3>2. w \in Nat /\ r \in Nat /\ w <= r /\ (0 <= url.len => w < url.len) /\ url.len \in Int
        BY <1>1, <2>2 DEF DecodeLoop, InUrl, LessUnsigned
      <3>3. decode' = [write_index |-> w + 1, read_index |-> r + taken]
        BY <3>1
      <3> HIDE DEF w, r
      <3>4. /\ w + 1 \in Nat /\ r + taken \in Nat /\ w + 1 <= r + taken
            /\ 0 <= url.len => w + 1 <= url.len
        BY <3>2
      <3>5. /\ decode' \in [write_index : Nat, read_index : Nat]
            /\ decode'.write_index <= decode'.read_index
            /\ 0 <= url.len => decode'.write_index <= url.len
            /\ decode'.write_index = w + 1
        BY <3>3, <3>4
      <3> QED
        BY <2>2, <3>5 DEF w
    <2> QED
      BY <2>1, <2>2
  <1>4. FieldsInv'
    BY <1>1, <1>2, <1>3 DEF IInv, FieldsInv, Phases
  <1>5. CopyInv' /\ BodyInv' /\ UrlInv' /\ QueryInv' /\ LoopInv' /\ RefsAreInTheCopy'
    BY <1>1, SameRequest
       DEF IInv, CopyInv, BodyInv, UrlInv, QueryInv, LoopInv, RefsAreInTheCopy
  <1>6. DecodeKeepsTheRest'
    <2>1. \A a \in DOMAIN mem \ written : mem[a] = Sent[a]
      BY <1>1 DEF IInv, DecodeKeepsTheRest
    <2>2. \A a \in DOMAIN mem' \ next : mem'[a] = Sent[a]
      <3> SUFFICES ASSUME NEW a \in DOMAIN mem' \ next PROVE mem'[a] = Sent[a]
        OBVIOUS
      <3>1. a \in DOMAIN mem /\ a # at /\ a \notin written
        BY <1>1, <1>2
      <3> QED
        BY <1>2, <2>1, <3>1
    <2>3. decode'.write_index - (IF pc' = "decoded" THEN 0 ELSE 1) = decode.write_index
      BY <1>1, <1>3
    <2>4. url.str .. url.str + decode'.write_index - (IF pc' = "decoded" THEN 0 ELSE 1) = next
      BY <1>1, <1>3, <2>3
    <2> HIDE DEF next
    <2> QED
      BY <1>1, <1>3, <2>2, <2>4 DEF DecodeKeepsTheRest
  <1> QED
    BY <1>4, <1>5, <1>6 DEF IInv

\* An iteration of url_decode that writes one character.
LEMMA PutKeepsIInv ==
  ASSUME IInv, DecodeLoop, NEW c \in 0 .. 255, NEW taken \in 1 .. 3, Put(c, taken)
  PROVE  IInv'
  <1>1. /\ pc = "decoding" /\ pc' = "decoding" /\ UNCHANGED <<request, msg, loop>>
        /\ mem' = [mem EXCEPT ![url.str + decode.write_index] = c]
        /\ decode' = [write_index |-> decode.write_index + 1,
                      read_index  |-> decode.read_index + taken]
    BY DEF Put, DecodeLoop
  <1> QED
    BY <1>1, WriteKeepsIInv

\* What two hexadecimal digits mean fits a byte.
LEMMA UnescapedIsACharacter ==
  ASSUME NEW a, NEW b, isxdigit(a), isxdigit(b)
  PROVE  Unescaped(a, b) \in 0 .. 255
  <1>1. ASSUME NEW c, isxdigit(c) PROVE HexValue(c) \in Int
    BY <1>1 DEF isxdigit, HexDigits, Digits, UpperHex, LowerHex, HexValue
  <1> DEFINE v == 16 * HexValue(a) + HexValue(b)
  <1>2. v \in Int
    BY <1>1
  <1> HIDE DEF v
  <1>3. v % 256 \in 0 .. 255
    BY <1>2
  <1> QED
    BY <1>3 DEF Unescaped, v

\* The iterations of url_decode and its end.
LEMMA url_decodeKeepsIInv ==
  ASSUME IInv, url_decode
  PROVE  IInv'
  <1>1. CASE DecodePercent
    <2> DEFINE c == Unescaped(Read(1), Read(2))
    <2>1. c \in 0 .. 255 /\ DecodeLoop /\ Put(c, 3) /\ pc = "decoding"
      BY <1>1, UnescapedIsACharacter DEF DecodePercent, IsEscape, DecodeLoop
    <2> HIDE DEF c
    <2> QED
      BY <2>1, PutKeepsIInv
  <1>2. CASE DecodePlus
    <2>1. SP \in 0 .. 255 /\ DecodeLoop /\ Put(SP, 1) /\ pc = "decoding"
      BY <1>2 DEF DecodePlus, DecodeLoop, SP
    <2> QED
      BY <2>1, PutKeepsIInv
  <1>3. CASE DecodePlain
    <2> DEFINE c == Read(0)
    <2>1. DecodeLoop /\ Put(c, 1) /\ pc = "decoding"
      BY <1>3 DEF DecodePlain, DecodeLoop
    <2>2. c \in 0 .. 255
      <3>1. /\ mem \in [0 .. Size -> 0 .. 255] /\ Size \in Nat /\ url.str \in Nat
            /\ decode.read_index \in Nat
        <4>1. FieldsInv /\ CopyInv /\ UrlInv
          BY DEF IInv
        <4>2. Size \in Nat /\ request \in Requests /\ mem \in [0 .. Size -> 0 .. 255]
              /\ decode.read_index \in Nat
          BY <2>1, <4>1, Fields DEF FieldsInv
        <4>3. url.str \in Nat
          BY <2>1, <4>1, <4>2 DEF UrlInv, url
        <4> QED
          BY <4>2, <4>3
      <3>2. url.str + decode.read_index + 0 \in 0 .. Size
        BY <2>1, <3>1 DEF DecodeLoop, ReadsCopy
      <3> QED
        BY <3>1, <3>2 DEF Read
    <2> HIDE DEF c
    <2> QED
      BY <2>1, <2>2, PutKeepsIInv
  <1>4. CASE DecodeEnd
    <2>1. NUL \in 0 .. 255 /\ pc = "decoding" /\ pc' = "decoded"
          /\ mem' = [mem EXCEPT ![url.str + decode.write_index] = NUL]
          /\ UNCHANGED <<request, msg, loop, decode>>
      BY <1>4 DEF DecodeEnd, NUL
    <2> QED
      BY <2>1, WriteKeepsIInv
  <1>5. CASE DecodeStuck
    <2>1. UNCHANGED vars
      BY <1>5 DEF DecodeStuck
    <2> QED
      BY <2>1, StutterKeepsIInv
  <1>6. CASE DecodeAstray
    <2>1. UNCHANGED <<request, mem, msg, loop, decode>> /\ pc = "decoding" /\ pc' = "astray"
      BY <1>6 DEF DecodeAstray
    <2>2. FieldsInv' /\ BodyInv' /\ RefsAreInTheCopy'
      BY <2>1, SameRequest DEF IInv, FieldsInv, BodyInv, RefsAreInTheCopy, Phases
    <2> QED
      BY <2>1, <2>2 DEF IInv, CopyInv, UrlInv, QueryInv, LoopInv, DecodeKeepsTheRest
  <1> QED
    BY <1>1, <1>2, <1>3, <1>4, <1>5, <1>6 DEF url_decode

\* The message is gone with its copy.
LEMMA DestroyKeepsIInv ==
  ASSUME IInv, destroy_InboundHttpMessage
  PROVE  IInv'
  <1>1. /\ pc' = "idle" /\ request' = NoRequest /\ mem' = <<>> /\ msg' = Empty
        /\ decode' = NoDecode /\ loop' = loop
    BY DEF destroy_InboundHttpMessage
  <1>2. NoRef \in Ref /\ 0 \in HTTP_Method /\ 0 \in HTTP_Version
    BY DEF NoRef, Ref, NULL, HTTP_Method, HTTP_Version
  <1>3. FieldsInv'
    BY <1>1, <1>2 DEF IInv, FieldsInv, Phases, Empty, NoDecode
  <1> QED
    BY <1>1, <1>3 DEF IInv, CopyInv, BodyInv, UrlInv, QueryInv, LoopInv, RefsAreInTheCopy,
                      DecodeKeepsTheRest

\* Every step keeps the invariant.
LEMMA IInvIsInductive ==
  ASSUME IInv, [Next]_vars
  PROVE  IInv'
  <1>1. CASE UNCHANGED vars
    BY <1>1, StutterKeepsIInv
  <1>2. ASSUME NEW r \in Requests, parse_InboundMessage(r) PROVE IInv'
    BY <1>2, ParseKeepsIInv
  <1>3. CASE Working
    <2>1. CASE decompose_header
      BY <2>1, DecomposeKeepsIInv
    <2>2. CASE ParseChunk
      BY <2>2, ParseChunkKeepsIInv
    <2>3. CASE AfterQuery
      BY <2>3, AfterQueryKeepsIInv
    <2>4. CASE decompose_message
      <3>1. /\ UNCHANGED <<request, mem, msg, decode>>
            /\ pc = "options" /\ pc' = "parsed" /\ loop' = NoLoop
        BY <2>4 DEF decompose_message
      <3> QED
        BY <3>1, OnlyThePhaseChanges
    <2>5. CASE url_decode
      BY <2>5, url_decodeKeepsIInv
    <2> QED
      BY <1>3, <2>1, <2>2, <2>3, <2>4, <2>5 DEF Working
  <1>4. CASE DecodeUrl
    <2>1. /\ UNCHANGED <<request, mem, msg, decode>>
          /\ pc = "parsed" /\ pc' = "decoding" /\ loop' = loop
      BY <1>4 DEF DecodeUrl
    <2> QED
      BY <2>1, OnlyThePhaseChanges
  <1>5. CASE destroy_InboundHttpMessage
    BY <1>5, DestroyKeepsIInv
  <1>6. CASE Gone
    <2>1. UNCHANGED vars
      BY <1>6 DEF Gone
    <2> QED
      BY <2>1, StutterKeepsIInv
  <1> QED
    BY <1>1, <1>2, <1>3, <1>4, <1>5, <1>6 DEF Next

-----------------------------------------------------------------------------
(* What follows from the invariant.                                        *)

\* The invariant holds in every reachable state.
LEMMA IInvAlways == Spec => []IInv
  <1>1. Init => IInv
    BY InitHoldsIInv
  <1>2. IInv /\ [Next]_vars => IInv'
    BY IInvIsInductive
  <1> QED
    BY <1>1, <1>2, PTL DEF Spec

\* The type invariant is a part of it.
LEMMA IInvImpliesTypeOK == ASSUME IInv PROVE TypeOK
  <1>1. /\ pc \in {"idle", "header", "query", "options", "parsed", "decoding", "decoded",
                   "killed", "astray"}
        /\ msg \in [method : HTTP_Method, version : HTTP_Version, url : Ref, body : Ref,
                    header_options : [HTTPHeaderRequestOption -> Ref],
                    parameters : {msg.parameters}]
        /\ loop \in [chunk : Int, limit : Int, limit_len : Int, visited : SUBSET Ref]
        /\ decode \in [write_index : Nat, read_index : Nat]
    BY DEF IInv, FieldsInv, Phases
  <1>2. request = NoRequest <=> pc = "idle"
    BY RequestsAssumption DEF IInv, FieldsInv
  <1>3. DOMAIN mem = (IF pc = "idle" THEN {} ELSE DOMAIN Sent)
        /\ \A a \in DOMAIN mem : mem[a] \in 0 .. 255
    <2>1. CASE pc = "idle"
      <3>1. mem = <<>>
        BY <2>1 DEF IInv, FieldsInv
      <3>2. DOMAIN mem = {}
        BY <3>1
      <3> QED
        BY <2>1, <3>2
    <2>2. CASE pc # "idle"
      <3>1. mem \in [0 .. Size -> 0 .. 255] /\ Sent \in [0 .. Size -> 0 .. 255]
        BY <2>2, MemoryShape DEF IInv, FieldsInv, Sent, Size
      <3> QED
        BY <2>2, <3>1
    <2> QED
      BY <2>1, <2>2
  <1>4. pc # "idle" => MapShape(msg.parameters, Seq(0 .. 255), Ref)
    <2>1. InCopy \subseteq Ref
      BY DEF InCopy
    <2> QED
      BY <2>1, MapShapeWidens DEF IInv, RefsAreInTheCopy
  <1> QED
    BY <1>1, <1>2, <1>3, <1>4 DEF TypeOK

\* TypeOK: at every step of a request the fields, the locals of the loops and the map of
\* parameters are what their types say, and mem is as long as the message that was copied.
THEOREM RequestTypeCorrect == Spec => []TypeOK
  <1>1. IInv => TypeOK
    BY IInvImpliesTypeOK
  <1> QED
    BY <1>1, IInvAlways, PTL

\* LimitIsKept: in each iteration of parse_options limit_len is what is left of the segment.
THEOREM RequestLimitIsKept == Spec => []LimitIsKept
  <1>1. IInv => LimitIsKept
    BY DEF IInv, LoopInv, LimitIsKept, InLoop
  <1> QED
    BY <1>1, IInvAlways, PTL

\* Every StringRef and every parameter of an InboundHttpMessage is within raw_message_a, so
\* that none dangles while the message lives, for every request of any words; with the one
\* exception the statement makes, the url of a header with a single space, whose length wraps
\* where the search for the second space finds none.
THEOREM RequestRefsAreInTheCopy == Spec => []RefsAreInTheCopy
  <1>1. IInv => RefsAreInTheCopy
    BY DEF IInv
  <1> QED
    BY <1>1, IInvAlways, PTL

\* DecodeKeepsTheRest: url_decode in place writes only over what it has read.
THEOREM RequestDecodeKeepsTheRest == Spec => []DecodeKeepsTheRest
  <1>1. IInv => DecodeKeepsTheRest
    BY DEF IInv
  <1> QED
    BY <1>1, IInvAlways, PTL

\* SearchFindsTheFirst: in every copy of a request, strnstr finds the first occurrence.
THEOREM RequestSearchFindsTheFirst == Spec => []SearchFindsTheFirst
  <1>1. IInv => SearchFindsTheFirst
    <2> SUFFICES ASSUME IInv, pc = "header",
                        NEW needle \in {<<SP>>, CRLF}, NEW a \in DOMAIN mem,
                        NEW count \in {0, 1, 2, 4, 5, Len(Message(request)) - a},
                        a + count <= Len(Message(request))
                 PROVE  strnstr(mem, a, needle, count) = FirstOccurrence(mem, a, needle, count)
      BY DEF SearchFindsTheFirst
    <2>1. mem \in [0 .. Size -> 0 .. 255] /\ Size \in Nat
      BY Fields DEF IInv, FieldsInv
    <2>2. a \in Int /\ count \in Nat
      BY <2>1 DEF Size
    <2>3. Len(needle) \in Nat \ {0}
      <3>1. CASE needle = CRLF
        BY <3>1 DEF CRLF
      <3>2. CASE needle # CRLF
        <4>1. needle = <<SP>>
          BY <3>2
        <4> QED
          BY <4>1
      <3> QED
        BY <3>1, <3>2
    <2> QED
      BY <2>2, <2>3, StrnstrFindsTheFirst
  <1> QED
    BY <1>1, IInvAlways, PTL

-----------------------------------------------------------------------------
(* The invariant about what the parser makes of a request.                 *)

\* The phases behind the first line.
Split == {"query", "options", "parsed", "decoding", "decoded"}

UrlStart == Len(request.method) + 1

\* The three words of the first line are the client's.
LineInv ==
  pc \in Split =>
    /\ request.complete
    /\ request.words = 3 =>
         /\ msg.method = WordCode(request.method, methods_str)
         /\ request.options # <<>> => msg.version = WordCode(request.version, versions_str)
         /\ msg.url.str = UrlStart /\ 0 <= msg.url.len /\ msg.url.len <= Len(UrlText(request))
         /\ pc = "query" \/ request.query = <<>> \/ PathText(request) = <<>> =>
              msg.url.len = Len(UrlText(request))

\* What kills the process or leads it astray, and what the survivors have.
ReadInv ==
  /\ pc = "header" /\ msg.body = NoRef => ~request.complete \/ request.words # 3
  /\ pc \in {"killed", "astray"} /\ request.words = 3 => ~Readable(request)
  /\ pc \in Split \ {"query"} =>
       request.options # <<>> /\ (request.words = 3 => Readable(request))
  /\ pc = "query" /\ request.words = 3 => PathText(request) # <<>> /\ Len(request.query) >= 2

\* The loop of parse_options is at the start of a part, and has visited those before it.
AtPart(locals, parts, first, needle) ==
  /\ Len(parts) >= 2 /\ locals.limit = first + Len(Join(parts, needle))
  /\ \E k \in 1 .. Len(parts) :
       /\ locals.chunk = first + Start(parts, needle, k)
       /\ locals.visited = {[str |-> first + Start(parts, needle, j), len |-> Len(parts[j + 1])] :
                             j \in 1 .. k - 1}
       /\ k = Len(parts) => parts[Len(parts)] # <<>>

VisitInv == pc \in {"query", "options"} /\ (pc = "query" => request.words = 3) =>
              AtPart(loop, Parts, PartsStart, ChunkSep(pc))

\* The references into the second word.
InWord == {ref \in Ref : Within(ref, WordStart, WordLimit)}

\* The segments of the loop, and what was stored from them.
StayInv ==
  /\ pc = "header" => msg.header_options = Empty.header_options /\ msg.parameters = Map_make(10)
  /\ pc = "query" => WordStart <= loop.chunk /\ loop.limit <= WordLimit
  /\ pc = "options" => loop.limit <= msg.body.str
  /\ pc \in {"query", "options", "parsed"} =>
       /\ \A i \in HTTPHeaderRequestOption :
            msg.header_options[i] # NoRef => Within(msg.header_options[i], 0, msg.body.str)
       /\ MapShape(msg.parameters, Seq(0 .. 255), InWord)

\* So many pieces are decoded as characters are written.
DecodeInv ==
  pc \in {"decoding", "decoded"} /\ request.words = 3 /\ request.query = <<>> =>
    /\ decode.write_index \in 0 .. Len(request.path)
    /\ decode.read_index = Start(PieceTextsOf(request), <<>>, decode.write_index)
    /\ \A i \in 1 .. decode.write_index : mem[url.str + i - 1] = request.path[i].means
    /\ pc = "decoded" => /\ decode.write_index = Len(request.path)
                         /\ mem[url.str + decode.write_index] = NUL

RInv == LineInv /\ ReadInv /\ VisitInv /\ StayInv /\ DecodeInv

-----------------------------------------------------------------------------
(* What the searches of the parser find.                                   *)

\* The length of joined texts.
LEMMA JoinLength ==
  ASSUME NEW S, NEW texts \in Seq(Seq(S)), NEW separator \in Seq(S), Len(texts) # 0
  PROVE  /\ Len(texts) \in Nat \ {0}
         /\ Len(Join(texts, separator))
              = Start(texts, separator, Len(texts) - 1) + Len(texts[Len(texts)])
  <1> DEFINE n == Len(texts)
             s == Upto(texts, separator)[n - 1]
             t == texts[n]
  <1>1. n \in Nat \ {0} /\ n - 1 \in 0 .. n /\ n \in 1 .. n
    BY LenProperties
  <1>2. Join(texts, separator) = s \o t /\ Start(texts, separator, n - 1) = Len(s)
    BY DEF Join, Start
  <1>3. s \in Seq(S)
    <2> HIDE DEF n
    <2>1. \A k \in 0 .. n : Upto(texts, separator)[k] \in Seq(S)
      BY UptoSteps DEF n
    <2> QED
      BY <1>1, <2>1
  <1>4. t \in Seq(S)
    BY <1>1, ElementOfSeq
  <1> HIDE DEF s, t, n
  <1>5. Len(s \o t) = Len(s) + Len(t)
    BY <1>3, <1>4, ConcatProperties
  <1>6. Len(Join(texts, separator)) = Start(texts, separator, n - 1) + Len(texts[n])
    BY <1>2, <1>5 DEF t
  <1> QED
    BY <1>1, <1>6 DEF n

\* Where a part starts, and what is left of the text from there on.
LEMMA RestOfTheText ==
  ASSUME NEW first \in Nat, NEW b \in Nat, NEW c \in Nat, NEW t \in Nat, NEW last \in Nat,
         NEW l \in 1 .. 2, b + t + l <= c \/ (b = c /\ t = last),
         NEW at, at = first + b, NEW all, all = c + last, NEW count, count = first + all - at
  PROVE  /\ at \in Nat /\ at \in Int /\ at >= 0 /\ count \in Nat /\ l \in Nat \ {0}
         /\ b + t + l <= c => t + l <= count
         /\ b = c /\ t = last => count = t /\ count < t + l
  OBVIOUS

\* The place of the part behind the first k, and how much of the text is left there.
PlaceOf(first, parts, needle, k) == first + Start(parts, needle, k)

LeftAt(first, parts, needle, k) ==
  first + Len(Join(parts, needle)) - PlaceOf(first, parts, needle, k)

\* The search for the separator of a part finds it behind the part, and none behind the last.
LEMMA PartIsFound ==
  ASSUME NEW S, NEW parts \in Seq(Seq(S)), NEW needle \in Seq(S), Len(needle) \in 1 .. 2,
         NEW first \in Nat, NEW m, Layout(m, first, parts, needle),
         Len(parts) # 0, NEW k \in 0 .. Len(parts) - 1
  PROVE  /\ PlaceOf(first, parts, needle, k) \in Nat
         /\ LeftAt(first, parts, needle, k) \in Nat
         /\ Len(parts[k + 1]) \in Nat
         /\ strnstr(m, PlaceOf(first, parts, needle, k), needle, LeftAt(first, parts, needle, k))
              = IF k < Len(parts) - 1 THEN PlaceOf(first, parts, needle, k) + Len(parts[k + 1])
                ELSE NULL
         /\ k = Len(parts) - 1 => LeftAt(first, parts, needle, k) = Len(parts[Len(parts)])
         /\ Start(parts, needle, k + 1)
              = Start(parts, needle, k) + Len(parts[k + 1]) + Len(needle)
         /\ k < Len(parts) - 1 =>
              Len(parts[k + 1]) + Len(needle) <= LeftAt(first, parts, needle, k)
  <1> DEFINE n == Len(parts)
  <1>1. n \in Nat \ {0} /\ Len(Join(parts, needle)) = Start(parts, needle, n - 1) + Len(parts[n])
    <2>1. /\ Len(parts) \in Nat \ {0}
          /\ Len(Join(parts, needle))
               = Start(parts, needle, Len(parts) - 1) + Len(parts[Len(parts)])
      BY JoinLength
    <2> QED
      BY <2>1
  <1> DEFINE at    == PlaceOf(first, parts, needle, k)
             count == LeftAt(first, parts, needle, k)
             s(i) == Start(parts, needle, i)
             j    == k + 1
             t    == Len(parts[j])
             l    == Len(needle)
             all  == Len(Join(parts, needle))
             last == Len(parts[n])
  <1>20. all = s(n - 1) + last
    BY <1>1
  <1>2. k \in 0 .. n - 1 /\ k \in 0 .. n /\ j \in 1 .. n /\ j \in 0 .. n /\ n - 1 \in 0 .. n
        /\ n \in 1 .. n
    BY <1>1
  <1>3. l \in 1 .. 2
    OBVIOUS
  <1>4. /\ s(k) \in Nat /\ s(j) \in Nat /\ s(n - 1) \in Nat /\ t \in Nat /\ last \in Nat
        /\ s(j) = s(k) + t + l
    <2>1. /\ \A i \in 0 .. n : s(i) \in Nat
          /\ \A i \in 1 .. n : Len(parts[i]) \in Nat
          /\ \A i \in 0 .. n - 1 : s(i + 1) = s(i) + Len(parts[i + 1]) + l
      BY StartSteps
    <2> HIDE DEF s
    <2> QED
      BY <1>2, <2>1
  <1>5. k < n - 1 => s(j) <= s(n - 1)
    <2> SUFFICES ASSUME k < n - 1 PROVE s(j) <= s(n - 1)
      OBVIOUS
    <2> DEFINE i == n - 1
    <2>1. i \in 0 .. Len(parts) /\ j \in 0 .. Len(parts) /\ j <= i
      BY <1>1, <1>2
    <2> HIDE DEF i, j
    <2>2. s(j) <= s(i)
      BY <2>1, StartsGrow
    <2> QED
      BY <2>2 DEF i
  <1>6. NoneIn(m, at, t, needle) /\ (k < n - 1 => Holds(m, at + t, needle))
    <2> HIDE DEF n
    <2>1. at = first + s(k) /\ k \in 0 .. Len(parts) - 1
      BY DEF PlaceOf
    <2> QED
      BY <1>2, <2>1 DEF Layout, n
  <1>7. k = n - 1 => j = n
    BY <1>1
  <1> HIDE DEF s, t, l, all, last, j, at, count
  <1> DEFINE b == s(k)
             c == s(n - 1)
  <1>8. /\ at = first + b /\ all = c + last /\ count = first + all - at
        /\ first \in Nat /\ b \in Nat /\ c \in Nat /\ t \in Nat /\ last \in Nat /\ l \in 1 .. 2
    BY <1>3, <1>4, <1>20 DEF s, all, at, count, PlaceOf, LeftAt
  <1>11. /\ k < n - 1 => b + t + l <= c
         /\ k = n - 1 => b = c /\ t = last
    <2>1. s(j) = b + t + l
      BY <1>4
    <2>2. k = n - 1 => t = last
      BY <1>7 DEF t, last
    <2> HIDE DEF b, c
    <2> QED
      BY <1>5, <2>1, <2>2 DEF b, c
  <1>12. k < n - 1 \/ k = n - 1
    BY <1>1, <1>2
  <1> HIDE DEF b, c
  <1>13. /\ at \in Nat /\ at \in Int /\ at >= 0 /\ count \in Nat /\ l \in Nat \ {0}
         /\ b + t + l <= c => t + l <= count
         /\ b = c /\ t = last => count = t /\ count < t + l
    <2>1. b + t + l <= c \/ (b = c /\ t = last)
      BY <1>11, <1>12
    <2> QED
      BY <1>8, <2>1, RestOfTheText
  <1>9. /\ Holds(m, at + t, needle) /\ t + l <= count => strnstr(m, at, needle, count) = at + t
        /\ count < t + l => strnstr(m, at, needle, count) = NULL
    <2>1. /\ at \in Int /\ at >= 0 /\ t \in Nat /\ count \in Nat /\ NoneIn(m, at, t, needle)
      BY <1>4, <1>6, <1>13
    <2>2. Len(needle) \in Nat \ {0}
      BY <1>13 DEF l
    <2>3. /\ Holds(m, at + t, needle) /\ t + Len(needle) <= count =>
               strnstr(m, at, needle, count) = at + t
          /\ count < t + Len(needle) => strnstr(m, at, needle, count) = NULL
      BY <2>1, <2>2, SearchEndsBehind
    <2> QED
      BY <2>3 DEF l
  <1>10. strnstr(m, at, needle, count) = IF k < n - 1 THEN at + t ELSE NULL
    <2>1. CASE k < n - 1
      BY <1>6, <1>9, <1>11, <1>13, <2>1
    <2>2. CASE k = n - 1 /\ ~(k < n - 1)
      BY <1>9, <1>11, <1>13, <2>2
    <2>3. k = n - 1 => ~(k < n - 1)
      BY <1>1
    <2> QED
      BY <1>12, <2>1, <2>2, <2>3
  <1>14. (k = n - 1 => count = last) /\ (k < n - 1 => t + l <= count)
    BY <1>11, <1>13
  <1> QED
    BY <1>4, <1>10, <1>13, <1>14 DEF s, t, l, j, last, at, count, n

\* The code of a word that is where a reference says.
LEMMA WordsHaveTheirCodes ==
  ASSUME NEW S, NEW text \in Seq(S), NEW at \in Int, Holds(mem, at, text),
         NEW ref, ref = [str |-> at, len |-> Len(text)]
  PROVE  /\ get_method_code(ref) = WordCode(text, methods_str)
         /\ get_version_code(ref) = WordCode(text, versions_str)
  <1>1. TextOf(mem, ref) = text /\ ref.len = Len(text)
    BY HoldsText
  <1>2. ASSUME NEW w PROVE EqualsWord(mem, ref, w) <=> w = text
    BY <1>1 DEF EqualsWord
  <1>3. DOMAIN methods_str = HTTP_Method \ {0} /\ DOMAIN versions_str = HTTP_Version \ {0}
    BY DEF methods_str, versions_str, Words, HTTP_Method, HTTP_Version
  <1>4. {i \in HTTP_Method \ {0} : EqualsWord(mem, ref, methods_str[i])}
          = {i \in DOMAIN methods_str : methods_str[i] = text}
    BY <1>2, <1>3
  <1>5. {i \in HTTP_Version \ {0} : EqualsWord(mem, ref, versions_str[i])}
          = {i \in DOMAIN versions_str : versions_str[i] = text}
    BY <1>2, <1>3
  <1> QED
    BY <1>4, <1>5 DEF get_method_code, get_version_code, WordCode

\* No space is in a text without one.
LEMMA NoSpaceIn ==
  ASSUME NEW m, NEW at \in Int, NEW text \in Seq(Char \ {SP}), Holds(m, at, text)
  PROVE  NoneIn(m, at, Len(text), <<SP>>)
  <1> DEFINE n == Len(text)
  <1>1. n \in Nat /\ \A i \in 1 .. n : text[i] # SP
    BY LenProperties, ElementOfSeq
  <1>2. \A i \in 1 .. n : m[at + i - 1] = text[i]
    BY DEF Holds
  <1> HIDE DEF n
  <1>3. ASSUME NEW a \in at .. at + n - 1, Holds(m, a, <<SP>>) PROVE FALSE
    <2>1. m[a] = SP
      <3>1. a \in Int
        BY <1>1
      <3> QED
        BY <1>3, <3>1, HoldsSeparator
    <2> DEFINE i == a - at + 1
    <2>2. i \in 1 .. n /\ at + i - 1 = a
      BY <1>1
    <2> HIDE DEF i
    <2> QED
      BY <1>1, <1>2, <2>1, <2>2
  <1> QED
    BY <1>3 DEF NoneIn, n

\* strnstr stops at the space behind a word without one.
LEMMA SpaceBehindTheWord ==
  ASSUME NEW m, NEW at \in Nat, NEW text \in Seq(Char \ {SP}), Holds(m, at, text),
         m[at + Len(text)] = SP, NEW count \in Nat, Len(text) + 1 <= count
  PROVE  strnstr(m, at, <<SP>>, count) = at + Len(text)
  <1> DEFINE needle == <<SP>>
             n      == Len(text)
  <1>1. Len(needle) = 1 /\ Len(needle) \in Nat \ {0} /\ n \in Nat /\ at \in Int /\ at >= 0
    BY LenProperties
  <1>2. NoneIn(m, at, n, needle)
    BY <1>1, NoSpaceIn
  <1>3. Holds(m, at + n, needle)
    <2>1. at + n \in Int
      BY <1>1
    <2> QED
      BY <2>1, HoldsSeparator
  <1>4. n + Len(needle) <= count
    BY <1>1
  <1> HIDE DEF needle, n
  <1>5. strnstr(m, at, needle, count) = at + n
    <2>1. /\ n \in Nat /\ at \in Int /\ at >= 0 /\ NoneIn(m, at, n, needle)
          /\ Holds(m, at + n, needle) /\ n + Len(needle) <= count
      BY <1>1, <1>2, <1>3, <1>4
    <2>2. Len(needle) \in Nat \ {0}
      BY <1>1
    <2> QED
      BY <2>1, <2>2, SearchEndsBehind
  <1> QED
    BY <1>5 DEF needle, n

\* The first line is at the front of the header, and ends at the first line end.
LEMMA FirstLineInMemory ==
  ASSUME NEW r \in Requests, NEW m, m = Memory(Message(r)), NEW h, h = Len(HeaderText(r))
  PROVE  /\ h \in Nat /\ Holds(m, 0, FirstLine(r)) /\ Len(FirstLine(r)) \in Nat
         /\ Len(FirstLine(r)) <= h
         /\ r.options = <<>> => strnstr(m, 0, CRLF, h) = NULL
         /\ r.options # <<>> => strnstr(m, 0, CRLF, h) = Len(FirstLine(r))
  <1> DEFINE l == Lines(r)
             n == Len(l)
             first == 0
             k == 0
  <1>1. /\ l \in Seq(Seq(Char)) /\ CRLF \in Seq(Char) /\ Len(CRLF) \in 1 .. 2 /\ n \in Nat \ {0}
        /\ l[1] = FirstLine(r) /\ (r.options = <<>> <=> n = 1) /\ Len(CRLF) = 2
    BY LinesAreTexts, LineEnd
  <1>2. Layout(m, first, l, CRLF) /\ h \in Nat
    BY LinesLayout, MessageIsText
  <1>3. h = Len(Join(l, CRLF))
    BY DEF HeaderText
  <1>4. Start(l, CRLF, 0) = 0
    BY <1>1, StartSteps
  <1>5. n # 0 /\ 0 \in 0 .. n - 1 /\ 0 + 1 = 1 /\ (0 < n - 1 <=> n # 1) /\ (0 = n - 1 <=> n = 1)
    <2>1. n \in Nat \ {0}
      BY <1>1
    <2> HIDE DEF n
    <2> QED
      BY <2>1
  <1>51. first \in Nat /\ k \in 0 .. n - 1 /\ n = Len(l) /\ n # 0 /\ k + 1 = 1
         /\ (k < n - 1 <=> n # 1) /\ (k = n - 1 <=> n = 1)
    <2>1. first \in Nat /\ n = Len(l)
      OBVIOUS
    <2> HIDE DEF n, first
    <2> QED
      BY <1>5, <2>1
  <1> DEFINE at    == PlaceOf(first, l, CRLF, k)
             count == LeftAt(first, l, CRLF, k)
  <1>6. /\ at \in Nat /\ count \in Nat /\ Len(l[k + 1]) \in Nat
        /\ strnstr(m, at, CRLF, count) = IF k < n - 1 THEN at + Len(l[k + 1]) ELSE NULL
        /\ k = n - 1 => count = Len(l[n])
        /\ k < n - 1 => Len(l[k + 1]) + Len(CRLF) <= count
    <2>1. /\ l \in Seq(Seq(Char)) /\ CRLF \in Seq(Char) /\ Len(CRLF) \in 1 .. 2
          /\ first \in Nat /\ Layout(m, first, l, CRLF) /\ Len(l) # 0 /\ k \in 0 .. Len(l) - 1
      BY <1>1, <1>2, <1>51
    <2> HIDE DEF l, first, k
    <2> QED
      BY <2>1, PartIsFound
  <1>7. at = 0
    BY <1>4 DEF PlaceOf
  <1>8. count = h
    BY <1>2, <1>3, <1>7 DEF LeftAt
  <1>9. Holds(m, at, l[k + 1])
    <2>1. k \in 0 .. n - 1
      BY <1>51
    <2> HIDE DEF n, l, k, first
    <2> QED
      BY <1>2, <2>1 DEF Layout, at, n, PlaceOf
  <1> HIDE DEF at, count, first
  <1> DEFINE x == Len(FirstLine(r))
  <1>10. l[k + 1] = FirstLine(r) /\ l[1] = FirstLine(r)
    BY <1>1, <1>51
  <1>11. /\ x \in Nat /\ strnstr(m, 0, CRLF, h) = IF n # 1 THEN 0 + x ELSE NULL
         /\ n = 1 => h = x
         /\ n # 1 => x + 2 <= h
    BY <1>1, <1>51, <1>6, <1>7, <1>8, <1>10
  <1> HIDE DEF x, n, l, k
  <1>12. x <= h /\ 0 + x = x
    BY <1>2, <1>11
  <1> QED
    BY <1>1, <1>2, <1>7, <1>9, <1>10, <1>11, <1>12 DEF x

\* With three words, decompose_header finds the spaces where the client put them.
LEMMA ThreeWordsAreFound ==
  ASSUME IInv, pc = "header", msg.body # NoRef, request.words = 3
  PROVE  LET a == Len(request.method)
             b == Len(UrlText(request))
         IN  /\ a \in Nat /\ b \in Nat
             /\ LineRefs.method = [str |-> 0, len |-> a]
             /\ LineRefs.url = [str |-> a + 1, len |-> b]
             /\ request.options # <<>> =>
                  LineRefs.version = [str |-> a + b + 2, len |-> Len(request.version)]
             /\ ~HeaderIsUnreadable /\ ~LineIsAstray
             /\ Holds(mem, 0, request.method) /\ Holds(mem, a + 1, UrlText(request))
             /\ Holds(mem, a + b + 2, request.version)
  <1> DEFINE r == request
             h == Len(HeaderText(r))
             a == Len(r.method)
             b == Len(UrlText(r))
             c == Len(r.version)
             f == Len(FirstLine(r))
             u == UrlText(r)
             count == Reach(a + 1, h)
  <1>1. r \in Requests /\ mem = Memory(Message(r)) /\ Header.len = h
        /\ h \in 1 .. Size /\ Size \in Nat
    <2>1. pc # "idle"
      OBVIOUS
    <2> QED
      BY <2>1, HeaderIsWhole
  <1>2. /\ Holds(mem, 0, FirstLine(r)) /\ f \in Nat /\ f <= h /\ h \in Nat
        /\ r.options # <<>> => strnstr(mem, 0, CRLF, h) = f
    BY <1>1, FirstLineInMemory
  <1>3. /\ a \in Nat /\ b \in Nat /\ c \in Nat /\ f = a + b + 2 + c
        /\ Holds(mem, 0, r.method) /\ mem[a] = SP /\ Holds(mem, a + 1, u)
        /\ mem[a + 1 + b] = SP /\ Holds(mem, a + b + 2, r.version)
    BY <1>1, <1>2, FirstLineIsText
  <1>4. r.method \in Seq(Char \ {SP}) /\ u \in Seq(Char \ {SP})
    BY <1>1, RequestFields, UrlIsText
  <1>30. a + 1 <= h /\ b + 1 <= h /\ a + 1 \in Nat
    <2> HIDE DEF a, b, c, f, h
    <2> QED
      BY <1>2, <1>3
  <1>31. count \in Nat /\ b + 1 <= count
    <2> DEFINE at == a + 1
    <2>1. /\ at \in 0 .. Size + 1 /\ h \in Int /\ Size \in Nat /\ b \in Nat
          /\ b + 1 <= h /\ b + 1 <= Size + 1 - at
      <3> HIDE DEF a, b, c, f, h
      <3> QED
        BY <1>1, <1>2, <1>3, <1>30
    <2>2. count = Reach(at, h)
      OBVIOUS
    <2> HIDE DEF at, b, h, count
    <2>3. count \in Nat
      BY <2>1, <2>2, ReachIsInTheCopy
    <2>4. count = h \/ count = Size + 1 - at
      BY <2>2 DEF Reach
    <2> QED
      BY <2>1, <2>3, <2>4
  <1>5. strnstr(mem, 0, <<SP>>, h) = a
    <2> DEFINE w == r.method
               o == 0
    <2>1. o \in Nat /\ w \in Seq(Char \ {SP}) /\ Holds(mem, o, w) /\ mem[o + Len(w)] = SP
      BY <1>3, <1>4
    <2>2. Len(w) + 1 <= h /\ h \in Nat /\ o + Len(w) = a
      BY <1>2, <1>3, <1>30
    <2> HIDE DEF w, h, o
    <2>3. strnstr(mem, o, <<SP>>, h) = o + Len(w)
      BY <2>1, <2>2, SpaceBehindTheWord
    <2> QED
      BY <2>2, <2>3 DEF o
  <1>6. strnstr(mem, a + 1, <<SP>>, count) = a + 1 + b
    <2> DEFINE o == a + 1
    <2>1. /\ o \in Nat /\ u \in Seq(Char \ {SP}) /\ Holds(mem, o, u) /\ mem[o + Len(u)] = SP
          /\ count \in Nat /\ Len(u) + 1 <= count
      BY <1>3, <1>4, <1>30, <1>31
    <2> HIDE DEF u, count, o, a, b
    <2>2. strnstr(mem, o, <<SP>>, count) = o + Len(u)
      BY <2>1, SpaceBehindTheWord
    <2> QED
      BY <2>2 DEF o, u, b
  <1>7. first_space_len = a
    BY <1>1, <1>5 DEF first_space_len
  <1>81. second_space = a + 1 + b
    BY <1>1, <1>6, <1>7 DEF second_space
  <1>8. second_space_len = a + 1 + b - (a + 1)
    <2>1. second_space_len = second_space - (first_space_len + 1)
      BY DEF second_space_len
    <2>2. a \in Nat /\ b \in Nat
      BY <1>3
    <2> HIDE DEF a, b
    <2> QED
      BY <1>7, <1>81, <2>1, <2>2
  <1>9. endline_len = strnstr(mem, 0, CRLF, h) - (a + second_space_len + 2)
    BY <1>1, <1>7 DEF endline_len
  <1> HIDE DEF a, b, c, f, h, count
  <1>10. second_space_len = b
    BY <1>3, <1>8
  <1>11. r.options # <<>> => endline_len = c
    BY <1>2, <1>3, <1>9, <1>10
  <1>12. a # NULL /\ second_space # NULL
    BY <1>3, <1>81 DEF NULL
  <1>13. LineRefs.url.len = b /\ ~(b < 0)
    BY <1>3, <1>10 DEF LineRefs
  <1>14. ~LineIsAstray
    BY <1>12, <1>13 DEF LineIsAstray
  <1> QED
    BY <1>3, <1>7, <1>10, <1>11, <1>12, <1>14 DEF LineRefs, HeaderIsUnreadable, a, b, c

\* What strnchr returns when a text without the character is in front of it, or nothing is.
LEMMA StrnchrIsFirst ==
  ASSUME NEW m, NEW str \in Int, NEW chr, NEW len \in Nat, NEW count \in Nat,
         \A a \in str .. str + len - 1 : m[a] # chr
  PROVE  /\ m[str + len] = chr /\ len < count => strnchr(m, str, chr, count) = str + len
         /\ count <= len => strnchr(m, str, chr, count) = NULL
  <1> DEFINE S == {a \in str .. str + count - 1 : m[a] = chr}
  <1>1. S \subseteq Int /\ \A x \in S : str <= x
    OBVIOUS
  <1>2. strnchr(m, str, chr, count) = FirstOf(S, NULL)
    BY DEF strnchr
  <1>3. ASSUME m[str + len] = chr, len < count PROVE FirstOf(S, NULL) = str + len
    <2>1. str + len \in S
      BY <1>3
    <2>2. FirstOf(S, NULL) \in S /\ FirstOf(S, NULL) <= str + len
      <3> HIDE DEF S
      <3> QED
        BY <1>1, <2>1, FirstIsLeast
    <2> DEFINE x == FirstOf(S, NULL)
    <2>3. x \in str .. str + count - 1 /\ m[x] = chr /\ x <= str + len
      BY <2>2
    <2> HIDE DEF x
    <2>4. x \notin str .. str + len - 1
      BY <2>3
    <2>5. x = str + len
      BY <2>3, <2>4
    <2> QED
      BY <2>5 DEF x
  <1>4. ASSUME count <= len PROVE FirstOf(S, NULL) = NULL
    <2>1. S = {}
      <3> SUFFICES ASSUME NEW a \in str .. str + count - 1 PROVE m[a] # chr
        OBVIOUS
      <3>1. a \in str .. str + len - 1
        BY <1>4
      <3> QED
        BY <3>1
    <2> QED
      BY <2>1 DEF FirstOf
  <1> QED
    BY <1>2, <1>3, <1>4

\* A query is looked at when there is one and the path is not empty, and is behind its mark.
LEMMA QueryIsFound ==
  ASSUME NEW r \in Requests, NEW start \in Nat, Holds(mem, start, UrlText(r)),
         Size \in Nat, start + Len(UrlText(r)) <= Size,
         NEW ref, ref = [str |-> start, len |-> Len(UrlText(r))]
  PROVE  /\ HasQuery(ref) <=> r.query # <<>> /\ PathText(r) # <<>>
         /\ HasQuery(ref) =>
              /\ QmarkIndex(ref) = Len(PathText(r))
              /\ QueryRef(ref) = [str |-> start + Len(PathText(r)) + 1, len |-> Len(QueryText(r))]
              /\ Holds(mem, start + Len(PathText(r)) + 1, QueryText(r))
         /\ Len(PathText(r)) \in Nat /\ Len(UrlText(r)) \in Nat
         /\ Len(QueryText(r)) \in Nat \/ r.query = <<>>
  <1> DEFINE p == PathText(r)
             x == Len(p)
             u == Len(UrlText(r))
             q == Len(QueryText(r))
             found == strnchr(mem, start, QuestionMark, u)
  <1>1. /\ p \in Seq(Char \ {SP, QuestionMark}) /\ Holds(mem, start, p)
        /\ x \in Nat /\ \A i \in 1 .. x : p[i] # QuestionMark
    <2>1. p \in Seq(Char \ {SP, QuestionMark}) /\ Holds(mem, start, p)
      BY PathIsText, UrlIsText
    <2> HIDE DEF p
    <2> QED
      BY <2>1, LenProperties, ElementOfSeq
  <1>2. p = <<>> <=> x = 0
    <2> HIDE DEF p
    <2> QED
      BY <1>1, EmptySeq
  <1>3. u \in Nat /\ (r.query # <<>> => q \in Nat)
    BY UrlIsText, QueryIsText, LenProperties
  <1>4. /\ r.query = <<>> => u = x
        /\ r.query # <<>> => /\ u = x + 1 + q /\ mem[start + x] = QuestionMark
                             /\ Holds(mem, start + x + 1, QueryText(r))
    BY UrlIsText
  <1>5. QmarkIndex(ref) = found - start /\ ref.str = start /\ ref.len = u
    <2>1. start \in 0 .. Size + 1 /\ u \in Int /\ start + u <= Size + 1
      <3>1. start + u <= Size
        OBVIOUS
      <3> HIDE DEF u
      <3> QED
        BY <1>3, <3>1
    <2>2. ref.str = start /\ ref.len = u
      OBVIOUS
    <2> HIDE DEF u
    <2>3. Reach(start, u) = u
      BY <1>3, <2>1, ReachIsInTheCopy
    <2> QED
      BY <2>2, <2>3 DEF QmarkIndex
  <1> HIDE DEF p, x, u, q
  <1>6. \A a \in start .. start + x - 1 : mem[a] # QuestionMark
    <2> SUFFICES ASSUME NEW a \in start .. start + x - 1 PROVE mem[a] # QuestionMark
      OBVIOUS
    <2> DEFINE i == a - start + 1
    <2>1. i \in 1 .. x /\ start + i - 1 = a
      BY <1>1
    <2> HIDE DEF i
    <2>2. mem[start + i - 1] = p[i]
      BY <1>1, <2>1 DEF Holds, x
    <2> QED
      BY <1>1, <2>1, <2>2
  <1>7. /\ mem[start + x] = QuestionMark /\ x < u => found = start + x
        /\ u <= x => found = NULL
    <2>1. start \in Int
      OBVIOUS
    <2> QED
      BY <1>1, <1>3, <1>6, <2>1, StrnchrIsFirst
  <1> HIDE DEF found
  <1>8. CASE r.query = <<>>
    <2>1. found = NULL
      BY <1>1, <1>4, <1>7, <1>8
    <2>2. ~(QmarkIndex(ref) > 0)
      BY <1>5, <2>1 DEF NULL
    <2> QED
      BY <1>1, <1>3, <1>8, <2>2 DEF HasQuery, x, u, p
  <1>9. CASE r.query # <<>>
    <2>1. x < u /\ u - x - 1 = q
      <3>1. x \in Nat
        BY <1>1
      <3>2. q \in Nat
        BY <1>3, <1>9
      <3>3. u = x + 1 + q
        BY <1>4, <1>9
      <3> QED
        BY ONLY <3>1, <3>2, <3>3
    <2>2. found = start + x
      BY <1>4, <1>7, <1>9, <2>1
    <2>3. QmarkIndex(ref) = x
      BY <1>1, <1>5, <2>2
    <2>4. QmarkIndex(ref) > 0 <=> p # <<>>
      BY <1>1, <1>2, <2>3
    <2>5. QueryRef(ref) = [str |-> start + x + 1, len |-> q]
      BY <1>5, <2>1, <2>3 DEF QueryRef
    <2> QED
      BY <1>1, <1>3, <1>4, <1>9, <2>3, <2>4, <2>5 DEF HasQuery, x, u, p, q
  <1> QED
    BY <1>8, <1>9

\* The loop of parse_options is entered when there are two parts, behind the first.
LEMMA LoopIsEntered ==
  ASSUME NEW S, NEW parts \in Seq(Seq(S)), NEW phase, ChunkSep(phase) \in Seq(S),
         Len(parts) # 0, NEW first \in Nat, Layout(mem, first, parts, ChunkSep(phase)),
         NEW segment, segment.str = first, segment.len = Len(Join(parts, ChunkSep(phase))),
         Size \in Nat, segment.str + segment.len <= Size, ParseOptions(segment, phase)
  PROVE  /\ Len(parts) \in Nat \ {0}
         /\ \/ Len(parts) = 1 /\ pc' = "killed" /\ loop' = loop
            \/ Len(parts) >= 2 /\ pc' = phase /\ AtPart(loop', parts, first, ChunkSep(phase))
  <1> DEFINE needle == ChunkSep(phase)
             found  == strnstr(mem, segment.str, needle, segment.len)
             n      == Len(parts)
             z      == 0
             start  == found + Len(needle)
             all    == Len(Join(parts, needle))
  <1>1. n \in Nat \ {0} /\ Len(needle) \in 1 .. 2 /\ Start(parts, needle, z) = 0
        /\ Len(needle) \in Nat
    BY SeparatorsHaveLength, JoinLength, StartSteps
  <1>2. /\ needle \in Seq(S) /\ Len(needle) \in 1 .. 2 /\ Layout(mem, first, parts, needle)
        /\ segment.str = first /\ segment.len = all /\ n # 0
    BY <1>1
  <1>21. /\ Reach(segment.str, segment.len) = segment.len
         /\ ~LeavesCopy(segment.str, segment.len)
    <2> DEFINE at  == segment.str
               len == segment.len
    <2>1. at \in Nat /\ len \in Nat /\ at + len <= Size
      <3>1. all \in Nat
        BY <1>2, JoinShape, LenProperties
      <3> QED
        BY <1>2, <3>1
    <2> HIDE DEF at, len
    <2>2. at \in 0 .. Size + 1 /\ len \in Int /\ at + len <= Size + 1
      BY <2>1
    <2>3. Reach(at, len) = len /\ ~LeavesCopy(at, len)
      BY <2>1, <2>2, ReachIsInTheCopy
    <2> QED
      BY <2>3 DEF at, len
  <1>3. IF found = NULL THEN pc' = "killed" /\ loop' = loop
        ELSE /\ pc' = phase
             /\ loop' = [chunk     |-> start, limit |-> segment.str + segment.len,
                         limit_len |-> segment.len - (start - segment.str), visited |-> {}]
    BY <1>21 DEF ParseOptions
  <1>4. z \in 0 .. n - 1 /\ z + 1 = 1 /\ z \in Int
    <2> HIDE DEF n
    <2> QED
      BY <1>1
  <1> DEFINE at   == PlaceOf(first, parts, needle, z)
             left == LeftAt(first, parts, needle, z)
             t    == Len(parts[z + 1])
             s1   == Start(parts, needle, z + 1)
  <1>5. /\ at \in Nat /\ left \in Nat /\ t \in Nat
        /\ strnstr(mem, at, needle, left) = IF z < n - 1 THEN at + t ELSE NULL
        /\ s1 = Start(parts, needle, z) + t + Len(needle)
    <2> HIDE DEF needle, z
    <2> QED
      BY <1>2, <1>4, PartIsFound
  <1>6. at = first /\ left = all
    <2>1. at = first + Start(parts, needle, z) /\ left = first + all - at
      BY DEF PlaceOf, LeftAt
    <2>2. all \in Nat
      BY <1>2, JoinShape, LenProperties
    <2> HIDE DEF at, left, all, z, needle
    <2> QED
      BY <1>1, <2>1, <2>2
  <1>7. found = strnstr(mem, at, needle, left)
    BY <1>2, <1>6
  <1> HIDE DEF found, n, at, left, all, t, s1, needle, start
  <1>8. CASE n = 1
    <2>1. found = NULL
      BY <1>5, <1>7, <1>8
    <2> QED
      BY <1>1, <1>3, <1>8, <2>1 DEF n
  <1>9. CASE n # 1
    <2>1. n >= 2 /\ z < n - 1
      BY <1>1, <1>9
    <2>2. found = first + t /\ found # NULL /\ found + Len(needle) = first + s1
      BY <1>1, <1>5, <1>6, <1>7, <2>1 DEF NULL
    <2>3. /\ loop'.chunk = first + Start(parts, needle, 1) /\ loop'.limit = first + all
          /\ loop'.visited = {} /\ pc' = phase
      BY <1>2, <1>3, <1>4, <2>2 DEF start, s1
    <2>4. 1 \in 1 .. n /\ 1 # n /\ 1 .. 1 - 1 = {}
      BY <1>1, <1>9
    <2>5. AtPart(loop', parts, first, needle)
      <3> DEFINE one == 1
      <3>1. one \in 1 .. n /\ one # n /\ 1 .. one - 1 = {}
        BY <2>4
      <3>2. loop'.chunk = first + Start(parts, needle, one)
        BY <2>3
      <3> HIDE DEF one
      <3>3. loop'.visited
              = {[str |-> first + Start(parts, needle, j), len |-> Len(parts[j + 1])] :
                 j \in 1 .. one - 1}
        BY <2>3, <3>1
      <3> QED
        BY <2>1, <2>3, <3>1, <3>2, <3>3 DEF AtPart, n, all
    <2> QED
      BY <1>1, <2>1, <2>3, <2>5 DEF n, needle
  <1> QED
    BY <1>8, <1>9

\* The starts of parts and the length of all of them.
LEMMA PartsAddUp ==
  ASSUME NEW S, NEW parts \in Seq(Seq(S)), NEW needle \in Seq(S), Len(parts) # 0
  PROVE  /\ Len(parts) \in Nat \ {0} /\ Len(needle) \in Nat
         /\ \A i \in 0 .. Len(parts) : Start(parts, needle, i) \in Nat
         /\ \A i \in 0 .. Len(parts) - 1 :
              /\ Len(parts[i + 1]) \in Nat
              /\ Start(parts, needle, i + 1)
                   = Start(parts, needle, i) + Len(parts[i + 1]) + Len(needle)
         /\ Start(parts, needle, Len(parts) - 1) \in Nat /\ Len(parts[Len(parts)]) \in Nat
         /\ Len(Join(parts, needle))
              = Start(parts, needle, Len(parts) - 1) + Len(parts[Len(parts)])
         /\ Len(Join(parts, needle)) \in Nat
         /\ parts[Len(parts)] = <<>> <=> Len(parts[Len(parts)]) = 0
  <1> DEFINE n    == Len(parts)
             s(k) == Start(parts, needle, k)
             last == parts[n]
             l    == Len(needle)
             all  == Len(Join(parts, needle))
  <1>1. /\ l \in Nat /\ \A i \in 0 .. n : s(i) \in Nat
        /\ \A i \in 1 .. n : parts[i] \in Seq(S) /\ Len(parts[i]) \in Nat
        /\ \A i \in 0 .. n - 1 : s(i + 1) = s(i) + Len(parts[i + 1]) + l
    BY StartSteps
  <1>2. n \in Nat \ {0} /\ all = s(n - 1) + Len(last)
    BY JoinLength
  <1> HIDE DEF n, s, l, all
  <1>3. last \in Seq(S) /\ Len(last) \in Nat /\ n - 1 \in 0 .. n
    BY <1>1, <1>2
  <1>4. last = <<>> <=> Len(last) = 0
    <2> HIDE DEF last
    <2> QED
      BY <1>3, EmptySeq
  <1>5. \A i \in 0 .. n - 1 : Len(parts[i + 1]) \in Nat
    <2> SUFFICES ASSUME NEW i \in 0 .. n - 1 PROVE Len(parts[i + 1]) \in Nat
      OBVIOUS
    <2>1. i + 1 \in 1 .. n
      BY <1>2
    <2> QED
      BY <1>1, <2>1
  <1>6. s(n - 1) \in Nat
    BY <1>1, <1>3
  <1>7. all \in Nat
    <2> DEFINE a == s(n - 1)
               z == Len(last)
    <2>1. a \in Nat /\ z \in Nat /\ all = a + z
      BY <1>2, <1>3, <1>6
    <2> HIDE DEF a, z
    <2> QED
      BY <2>1
  <1> QED
    BY <1>1, <1>2, <1>3, <1>4, <1>5, <1>6, <1>7 DEF n, s, l, all, last

\* The loop is not in front of the limit behind the last part.
LEMMA NotBehindTheLast ==
  ASSUME NEW first \in Nat, NEW before \in Nat, NEW len \in Nat, NEW l \in Nat, NEW behind,
         behind = before + len + l
  PROVE  ~(first + behind < first + (before + len))
  OBVIOUS

\* An iteration takes the part it is at.
LEMMA LoopAdvances ==
  ASSUME NEW S, NEW parts \in Seq(Seq(S)), NEW needle \in Seq(S), Len(needle) \in 1 .. 2,
         NEW first \in Nat, NEW m, Layout(m, first, parts, needle),
         NEW locals, AtPart(locals, parts, first, needle), locals.chunk < locals.limit,
         locals.limit_len = locals.limit - locals.chunk,
         NEW found, found = strnstr(m, locals.chunk, needle, locals.limit_len),
         NEW chunk,
         chunk = [str |-> locals.chunk,
                  len |-> IF found = NULL THEN locals.limit_len ELSE found - locals.chunk],
         NEW next, next.chunk = locals.chunk + (chunk.len + Len(needle)),
         next.limit = locals.limit, next.visited = locals.visited \cup {chunk}
  PROVE  AtPart(next, parts, first, needle)
  <1> DEFINE n    == Len(parts)
             s(k) == Start(parts, needle, k)
             part(j) == [str |-> first + s(j), len |-> Len(parts[j + 1])]
             last == parts[n]
             all  == Len(Join(parts, needle))
             l    == Len(needle)
  <1>1. n \in Nat /\ n >= 2 /\ locals.limit = first + all
    BY LenProperties DEF AtPart
  <1>2. PICK k \in 1 .. n : /\ locals.chunk = first + s(k)
                            /\ locals.visited = {part(j) : j \in 1 .. k - 1}
    BY DEF AtPart
  <1>3. /\ l \in 1 .. 2 /\ all = s(n - 1) + Len(last) /\ all \in Nat /\ l \in Nat
        /\ \A i \in 0 .. n : s(i) \in Nat
        /\ \A i \in 0 .. n - 1 : s(i + 1) = s(i) + Len(parts[i + 1]) + l
        /\ Len(last) \in Nat /\ (last = <<>> <=> Len(last) = 0)
    <2>1. Len(parts) # 0
      BY <1>1
    <2>2. /\ Len(parts) \in Nat \ {0} /\ Len(needle) \in Nat
          /\ \A i \in 0 .. Len(parts) : Start(parts, needle, i) \in Nat
          /\ \A i \in 0 .. Len(parts) - 1 :
               /\ Len(parts[i + 1]) \in Nat
               /\ Start(parts, needle, i + 1)
                    = Start(parts, needle, i) + Len(parts[i + 1]) + Len(needle)
          /\ Start(parts, needle, Len(parts) - 1) \in Nat /\ Len(parts[Len(parts)]) \in Nat
          /\ Len(Join(parts, needle))
               = Start(parts, needle, Len(parts) - 1) + Len(parts[Len(parts)])
          /\ Len(Join(parts, needle)) \in Nat
          /\ parts[Len(parts)] = <<>> <=> Len(parts[Len(parts)]) = 0
      BY <2>1, PartsAddUp
    <2>3. /\ all = s(n - 1) + Len(last) /\ all \in Nat /\ l \in Nat
          /\ \A i \in 0 .. n : s(i) \in Nat
          /\ \A i \in 0 .. n - 1 : s(i + 1) = s(i) + Len(parts[i + 1]) + l
          /\ Len(last) \in Nat /\ (last = <<>> <=> Len(last) = 0)
      BY <2>2
    <2>4. l \in 1 .. 2
      OBVIOUS
    <2> HIDE DEF l, all, s, last, n
    <2> QED
      BY <2>3, <2>4
  <1>4. k \in 0 .. n - 1
    <2>1. n - 1 \in 0 .. n - 1 /\ n - 1 + 1 = n /\ n - 1 \in 0 .. n
      BY <1>1
    <2>2. s(n) = s(n - 1) + Len(last) + l /\ s(n - 1) \in Nat
      <3> HIDE DEF s, n, last, l
      <3> DEFINE i == n - 1
      <3>1. i \in 0 .. n - 1 /\ i + 1 = n /\ i \in 0 .. n
        BY <2>1
      <3> HIDE DEF i
      <3>2. s(i + 1) = s(i) + Len(parts[i + 1]) + l /\ s(i) \in Nat
        BY <1>3, <3>1
      <3>3. parts[i + 1] = last
        BY <3>1 DEF last
      <3>4. s(n) = s(i) + Len(last) + l
        BY <3>1, <3>2, <3>3
      <3> QED
        BY <3>2, <3>4 DEF i
    <2> HIDE DEF s, n, last, l, all
    <2>3. k # n
      <3> SUFFICES ASSUME k = n PROVE FALSE
        OBVIOUS
      <3> DEFINE behind == s(n)
                 before == s(n - 1)
                 len    == Len(last)
      <3>1. locals.chunk = first + behind /\ locals.limit = first + (before + len)
        BY <1>1, <1>2, <1>3
      <3>2. behind = before + len + l /\ before \in Nat /\ len \in Nat /\ l \in Nat
        BY <1>3, <2>2
      <3>3. first + behind < first + (before + len)
        BY <3>1
      <3> HIDE DEF behind, before, len
      <3> QED
        BY <3>2, <3>3, NotBehindTheLast
    <2> QED
      BY <1>1, <2>3
  <1> DEFINE at    == PlaceOf(first, parts, needle, k)
             left  == LeftAt(first, parts, needle, k)
             t     == Len(parts[k + 1])
  <1>5. /\ at \in Nat /\ left \in Nat /\ t \in Nat
        /\ strnstr(m, at, needle, left) = IF k < n - 1 THEN at + t ELSE NULL
        /\ k = n - 1 => left = Len(last)
        /\ s(k + 1) = s(k) + t + l
    <2>1. Len(parts) # 0 /\ k \in 0 .. Len(parts) - 1
      BY <1>1, <1>4
    <2> QED
      BY <2>1, PartIsFound
  <1>6. at = first + s(k) /\ left = first + all - at
    BY DEF PlaceOf, LeftAt
  <1> HIDE DEF at, left, t, s, n, last, all, l
  <1>7. locals.chunk = at /\ locals.limit_len = left
    <2>1. locals.chunk = at
      BY <1>2, <1>6
    <2>2. locals.limit = first + all
      BY <1>1
    <2> DEFINE c == locals.chunk
               e == locals.limit
    <2>4. /\ locals.limit_len = e - c /\ c = at /\ e = first + all
          /\ all \in Nat /\ at \in Nat
      BY <1>3, <1>5, <2>1, <2>2
    <2> HIDE DEF c, e
    <2>3. locals.limit_len = first + all - at
      BY <2>4
    <2> QED
      BY <1>6, <2>1, <2>3
  <1>8. /\ chunk = [str |-> at, len |-> IF found = NULL THEN left ELSE found - at]
        /\ found = IF k < n - 1 THEN at + t ELSE NULL
    BY <1>5, <1>7
  <1>9. chunk.len = t
    <2>1. CASE k < n - 1
      <3>1. found = at + t /\ found # NULL
        BY <1>5, <1>8, <2>1 DEF NULL
      <3> QED
        BY <1>5, <1>8, <3>1
    <2>2. CASE k = n - 1
      <3>1. found = NULL /\ left = Len(last) /\ k + 1 = n
        BY <1>1, <1>5, <1>8, <2>2
      <3> QED
        BY <1>8, <3>1 DEF t, last
    <2> QED
      BY <1>1, <1>4, <2>1, <2>2
  <1>10. chunk = part(k)
    BY <1>6, <1>8, <1>9 DEF t
  <1>11. next.chunk = first + s(k + 1)
    <2>1. next.chunk = at + (t + l)
      BY <1>7, <1>9 DEF l
    <2>2. s(k) \in Nat
      <3>1. k \in 0 .. n
        BY <1>2
      <3> QED
        BY <1>3, <3>1
    <2> DEFINE a == s(k)
               b == s(k + 1)
    <2>3. b = a + t + l /\ at = first + a /\ a \in Nat /\ t \in Nat /\ l \in 1 .. 2
      BY <1>3, <1>5, <1>6, <2>2
    <2> HIDE DEF a, b
    <2>4. at + (t + l) = first + b
      BY <2>3
    <2> QED
      BY <2>1, <2>4 DEF b
  <1>12. next.visited = {part(j) : j \in 1 .. k}
    <2> HIDE DEF part
    <2>1. 1 .. k = (1 .. k - 1) \cup {k}
      BY <1>2
    <2> QED
      BY <1>2, <1>10, <2>1
  <1>13. k + 1 = n => last # <<>>
    <2>1. k + 1 = n => left = Len(last)
      BY <1>1, <1>4, <1>5
    <2>2. left > 0
      <3>1. left \in Nat /\ left = first + all - at /\ at \in Nat /\ at < first + all
        BY <1>1, <1>5, <1>6, <1>7
      <3>2. all \in Nat
        BY <1>3
      <3> QED
        BY <3>1, <3>2
    <2> QED
      BY <1>3, <2>1, <2>2
  <1> QED
    <2> DEFINE i == k + 1
    <2>1. i \in 1 .. n /\ i - 1 = k
      BY <1>1, <1>4
    <2> HIDE DEF i
    <2>2. /\ next.chunk = first + Start(parts, needle, i)
          /\ next.visited = {[str |-> first + Start(parts, needle, j), len |-> Len(parts[j + 1])] :
                             j \in 1 .. i - 1}
          /\ i = n => parts[n] # <<>>
      BY <1>11, <1>12, <1>13, <2>1 DEF s, last, i
    <2>3. Len(parts) >= 2 /\ next.limit = first + Len(Join(parts, needle))
      BY <1>1 DEF n, all
    <2> QED
      BY <2>1, <2>2, <2>3 DEF AtPart, n

\* When the loop is over, all parts are visited, but an empty last one.
LEMMA LoopIsOver ==
  ASSUME NEW S, NEW parts \in Seq(Seq(S)), NEW needle \in Seq(S), Len(needle) # 0,
         NEW first \in Nat,
         NEW locals, AtPart(locals, parts, first, needle), locals.chunk >= locals.limit
  PROVE  locals.visited
           = {[str |-> first + Start(parts, needle, j), len |-> Len(parts[j + 1])] :
              j \in 1 .. Len(parts) - (IF parts[Len(parts)] = <<>> THEN 2 ELSE 1)}
  <1> DEFINE n    == Len(parts)
             s(k) == Start(parts, needle, k)
             part(j) == [str |-> first + s(j), len |-> Len(parts[j + 1])]
             last == parts[n]
             all  == Len(Join(parts, needle))
             l    == Len(needle)
  <1>1. n \in Nat /\ n >= 2 /\ locals.limit = first + all
    BY LenProperties DEF AtPart
  <1>2. PICK k \in 1 .. n : /\ locals.chunk = first + s(k)
                            /\ locals.visited = {part(j) : j \in 1 .. k - 1}
                            /\ k = n => last # <<>>
    BY DEF AtPart
  <1>3. /\ all = s(n - 1) + Len(last) /\ s(n - 1) \in Nat /\ l \in Nat \ {0}
        /\ \A i \in 0 .. n : s(i) \in Nat
        /\ \A i \in 0 .. n - 1 : Len(parts[i + 1]) \in Nat
                                 /\ s(i + 1) = s(i) + Len(parts[i + 1]) + l
        /\ Len(last) \in Nat /\ (last = <<>> <=> Len(last) = 0)
    <2>1. Len(parts) # 0
      BY <1>1
    <2> QED
      BY <2>1, PartsAddUp
  <1>4. k < n - 1 => s(k + 1) <= s(n - 1)
    <2> SUFFICES ASSUME k < n - 1 PROVE s(k + 1) <= s(n - 1)
      OBVIOUS
    <2> DEFINE i == k + 1
               j == n - 1
    <2>1. i \in 0 .. Len(parts) /\ j \in 0 .. Len(parts) /\ i <= j
      BY <1>1, <1>2
    <2> HIDE DEF i, j
    <2>2. s(i) <= s(j)
      BY <2>1, StartsGrow
    <2> QED
      BY <2>2 DEF i, j
  <1>5. k \in 0 .. n /\ s(k) \in Nat /\ s(n - 1) \in Nat
    <2>1. k \in 0 .. n /\ n - 1 \in 0 .. n
      BY <1>1, <1>2
    <2> HIDE DEF s
    <2> QED
      BY <1>3, <2>1
  <1>6. k < n - 1 => s(k + 1) = s(k) + Len(parts[k + 1]) + l /\ Len(parts[k + 1]) \in Nat
    <2>1. k < n - 1 => k \in 0 .. n - 1
      BY <1>1, <1>2
    <2> HIDE DEF s
    <2> QED
      BY <1>3, <2>1
  <1> HIDE DEF s, n, last, all, l, part
  <1>7. ~(k < n - 1)
    <2> SUFFICES ASSUME k < n - 1 PROVE FALSE
      OBVIOUS
    <2> DEFINE a == s(k)
               b == s(k + 1)
               t == Len(parts[k + 1])
               c == s(n - 1)
               z == Len(last)
    <2>1. /\ b <= c /\ b = a + t + l /\ a \in Nat /\ c \in Nat /\ t \in Nat /\ l \in Nat \ {0}
          /\ z \in Nat
      BY <1>3, <1>4, <1>5, <1>6
    <2>2. first + a >= first + (c + z)
      BY <1>1, <1>2, <1>3
    <2> HIDE DEF a, b, c, t, z
    <2>3. a <= c /\ a + t + l <= c
      BY <2>1
    <2> QED
      BY <2>1, <2>2, <2>3
  <1>8. k = n - 1 => last = <<>>
    BY <1>1, <1>2, <1>3, <1>5
  <1>9. k - 1 = n - (IF last = <<>> THEN 2 ELSE 1)
    BY <1>1, <1>2, <1>7, <1>8
  <1> QED
    BY <1>2, <1>9 DEF n, s, part, last

\* The call of parse_options for the header.
LEMMA OptionsAreEntered ==
  ASSUME IInv, pc \in {"header", "query"}, msg.body # NoRef, ParseOptions(Header, "options")
  PROVE  \/ pc' = "killed" /\ request.options = <<>>
         \/ /\ pc' = "options" /\ request.options # <<>>
            /\ AtPart(loop', Lines(request), 0, CRLF)
            /\ loop'.limit = msg.body.str
  <1> DEFINE r     == request
             l     == Lines(r)
             phase == "options"
             segment == Header
             first == 0
             z     == Len(HeaderText(r))
  <1>1. /\ r \in Requests /\ mem = Memory(Message(r)) /\ msg.body.str = z
        /\ Header = [str |-> 0, len |-> msg.body.str] /\ msg.body.str \in Nat
        /\ msg.body.str \in 1 .. Size /\ Size \in Nat
    <2>1. pc # "idle"
      OBVIOUS
    <2> QED
      BY <2>1, HeaderIsWhole
  <1>2. /\ l \in Seq(Seq(Char)) /\ CRLF \in Seq(Char) /\ Len(l) # 0
        /\ (r.options = <<>> <=> Len(l) = 1)
    BY <1>1, LinesAreTexts, LineEnd
  <1>3. ChunkSep(phase) = CRLF
    BY DEF ChunkSep
  <1>4. Layout(mem, first, l, CRLF)
    BY <1>1, LinesLayout
  <1>5. segment.str = first /\ segment.len = Len(Join(l, CRLF))
    BY <1>1 DEF HeaderText
  <1>6. first \in Nat /\ ParseOptions(segment, phase)
    OBVIOUS
  <1>7. /\ segment.len = z /\ segment.str \in 0 .. Size + 1 /\ segment.len \in Int
        /\ segment.str + segment.len <= Size
    BY <1>1
  <1>8. phase = "options" /\ phase \notin {"killed", "astray"}
    OBVIOUS
  <1>81. loop \in [chunk : Int, limit : Int, limit_len : Int, visited : SUBSET Ref]
    BY DEF IInv, FieldsInv
  <1> HIDE DEF l, phase, segment, first, z
  <1>9. /\ Len(l) \in Nat \ {0}
        /\ \/ Len(l) = 1 /\ pc' = "killed" /\ loop' = loop
           \/ Len(l) >= 2 /\ pc' = phase /\ AtPart(loop', l, first, CRLF)
    <2> DEFINE needle == ChunkSep(phase)
    <2>1. /\ l \in Seq(Seq(Char)) /\ needle \in Seq(Char) /\ Len(l) # 0 /\ first \in Nat
          /\ Layout(mem, first, l, needle) /\ segment.str = first
          /\ segment.len = Len(Join(l, needle)) /\ ParseOptions(segment, phase)
          /\ Size \in Nat /\ segment.str + segment.len <= Size
      BY <1>1, <1>2, <1>3, <1>4, <1>5, <1>6, <1>7
    <2>2. /\ Len(l) \in Nat \ {0}
          /\ \/ Len(l) = 1 /\ pc' = "killed" /\ loop' = loop
             \/ Len(l) >= 2 /\ pc' = phase /\ AtPart(loop', l, first, needle)
      BY <2>1, LoopIsEntered
    <2> QED
      BY <1>3, <2>2
  <1>10. CASE Len(l) = 1
    BY <1>2, <1>9, <1>10
  <1>11. CASE Len(l) # 1
    <2>1. pc' = phase /\ AtPart(loop', l, first, CRLF) /\ r.options # <<>>
      BY <1>2, <1>9, <1>11
    <2>2. loop'.limit = segment.str + segment.len
      BY <1>1, <1>6, <1>7, <1>8, <1>81, <2>1, ParseOptionsEnters
    <2>3. loop'.limit = 0 + z
      BY <1>5, <1>7, <2>2 DEF first
    <2> QED
      BY <1>1, <1>8, <2>1, <2>3 DEF l, first, z
  <1> QED
    BY <1>10, <1>11

\* The call of parse_options for a query the client sent.
LEMMA QueryIsEntered ==
  ASSUME NEW r \in Requests, NEW start \in Nat, Holds(mem, start, UrlText(r)),
         NEW ref, ref = [str |-> start, len |-> Len(UrlText(r))], HasQuery(ref),
         Size \in Nat, start + Len(UrlText(r)) <= Size,
         loop \in [chunk : Int, limit : Int, limit_len : Int, visited : SUBSET Ref],
         ParseOptions(QueryRef(ref), "query")
  PROVE  /\ PathText(r) # <<>>
         /\ \/ pc' = "killed" /\ Len(r.query) = 1
            \/ /\ pc' = "query" /\ Len(r.query) >= 2
               /\ AtPart(loop', r.query, start + Len(PathText(r)) + 1, <<Ampersand>>)
               /\ start <= loop'.chunk /\ loop'.limit = start + Len(UrlText(r))
  <1> DEFINE p     == Len(PathText(r))
             q     == r.query
             t     == Len(QueryText(r))
             first == start + p + 1
             phase == "query"
             segment == QueryRef(ref)
             u     == Len(UrlText(r))
  <1>1. /\ q # <<>> /\ PathText(r) # <<>> /\ p \in Nat /\ t \in Nat /\ u \in Nat
        /\ segment = [str |-> first, len |-> t] /\ Holds(mem, first, QueryText(r))
    BY QueryIsFound
  <1>2. u = p + 1 + t
    BY <1>1, UrlIsText
  <1>3. /\ q \in Seq(Seq(Char \ {SP})) /\ <<Ampersand>> \in Seq(Char \ {SP}) /\ Len(q) # 0
    BY <1>1, QueryIsText
  <1>4. ChunkSep(phase) = <<Ampersand>>
    BY DEF ChunkSep
  <1>5. first \in Nat
    <2> HIDE DEF p
    <2> QED
      BY <1>1
  <1>6. Layout(mem, first, q, <<Ampersand>>)
    <2> HIDE DEF first
    <2> QED
      BY <1>1, <1>5, QueryLayout
  <1>7. /\ segment.str = first /\ segment.len = t /\ t = Len(Join(q, <<Ampersand>>))
        /\ ParseOptions(segment, phase)
    BY <1>1 DEF QueryText
  <1>8. phase = "query" /\ phase \notin {"killed", "astray"}
    OBVIOUS
  <1>81. start + u <= Size
    OBVIOUS
  <1> HIDE DEF phase, segment, first, q, t, p, u
  <1>82. first + t \in Nat /\ first + t <= Size /\ first + t = start + u /\ start <= first
    <2>1. first = start + p + 1
      BY DEF first
    <2> QED
      BY <1>1, <1>2, <1>81, <2>1
  <1>83. /\ segment.str \in 0 .. Size + 1 /\ segment.len \in Int
         /\ segment.str + segment.len <= Size
    BY <1>1, <1>5, <1>7, <1>82
  <1>9. \/ Len(q) = 1 /\ pc' = "killed" /\ loop' = loop
        \/ Len(q) >= 2 /\ pc' = phase /\ AtPart(loop', q, first, <<Ampersand>>)
    <2> DEFINE needle == ChunkSep(phase)
               S == Char \ {SP}
    <2>1. /\ q \in Seq(Seq(S)) /\ needle \in Seq(S) /\ Len(q) # 0 /\ first \in Nat
          /\ Layout(mem, first, q, needle) /\ segment.str = first
          /\ segment.len = Len(Join(q, needle)) /\ ParseOptions(segment, phase)
          /\ segment.str + segment.len <= Size
      BY <1>3, <1>4, <1>5, <1>6, <1>7, <1>83
    <2> HIDE DEF S
    <2>2. \/ Len(q) = 1 /\ pc' = "killed" /\ loop' = loop
          \/ Len(q) >= 2 /\ pc' = phase /\ AtPart(loop', q, first, needle)
      BY <2>1, LoopIsEntered
    <2> QED
      BY <1>4, <2>2
  <1>10. CASE Len(q) = 1
    <2>1. pc' = "killed"
      <3>1. ~(Len(q) >= 2)
        BY <1>10
      <3> QED
        BY <1>9, <3>1
    <2> QED
      BY <1>1, <1>10, <2>1 DEF q
  <1>11. CASE Len(q) # 1
    <2>1. Len(q) >= 2 /\ pc' = phase /\ AtPart(loop', q, first, <<Ampersand>>)
      BY <1>9, <1>11
    <2>2. /\ loop'.limit = segment.str + segment.len /\ segment.str <= loop'.chunk
          /\ loop'.chunk \in Int
      <3>1. pc' \notin {"killed", "astray"}
        BY <1>8, <2>1
      <3> QED
        BY <1>7, <1>83, <3>1, ParseOptionsEnters
    <2>3. loop'.limit = first + t /\ first <= loop'.chunk
      BY <1>7, <2>2
    <2>4. first + t = start + u /\ start <= first
      BY <1>82
    <2>5. start <= loop'.chunk
      <3> DEFINE c == loop'.chunk
      <3>1. c \in Int
        BY <2>2
      <3> HIDE DEF c
      <3>2. first <= c
        BY <2>3 DEF c
      <3> QED
        BY <1>5, <2>4, <3>1, <3>2 DEF c
    <2> QED
      BY <1>1, <1>8, <2>1, <2>3, <2>4, <2>5 DEF q, first, p, u
  <1> QED
    BY <1>10, <1>11

-----------------------------------------------------------------------------
(* Every action keeps the second invariant.                                *)

\* With no request, and behind a request that was destroyed, nothing is said.
LEMMA IdleIsFine == ASSUME pc = "idle" PROVE RInv
  BY DEF RInv, LineInv, ReadInv, VisitInv, StayInv, DecodeInv, Split

\* The body is missing only where the client sent none, or an empty header.
LEMMA ParseKeepsRInv ==
  ASSUME IInv, NEW r \in Requests, parse_InboundMessage(r)
  PROVE  RInv'
  <1> DEFINE h == Len(HeaderText(r))
  <1>1. /\ pc' = "header" /\ request' = r
        /\ msg' = [Empty EXCEPT !.parameters = Map_make(10),
                                !.body = IF Separator(r) \notin {NULL, 0}
                                         THEN [str |-> Separator(r),
                                               len |-> Len(Message(r)) - Separator(r)]
                                         ELSE NoRef]
    BY DEF parse_InboundMessage, Empty
  <1>2. StayInv'
    BY <1>1 DEF StayInv, Empty
  <1>3. ASSUME msg'.body = NoRef PROVE ~r.complete \/ r.words # 3
    <2> SUFFICES ASSUME r.complete, r.words = 3 PROVE FALSE
      OBVIOUS
    <2>1. Separator(r) \in {NULL, 0}
      <3> SUFFICES ASSUME Separator(r) \notin {NULL, 0} PROVE FALSE
        OBVIOUS
      <3>1. msg'.body.str = Separator(r)
        BY <1>1 DEF Empty
      <3> QED
        BY <1>3, <3>1 DEF NoRef
    <2>2. Separator(r) = h
      BY SeparatorIsBehindTheHeader
    <2>3. Len(FirstLine(r)) <= h /\ h \in Nat
      <3> DEFINE m == Memory(Message(r))
      <3> HIDE DEF m
      <3> QED
        BY FirstLineInMemory
    <2>4. /\ Len(FirstLine(r)) = Len(r.method) + Len(UrlText(r)) + 2 + Len(r.version)
          /\ Len(r.method) \in Nat /\ Len(UrlText(r)) \in Nat /\ Len(r.version) \in Nat
      BY FirstLineIsText
    <2> DEFINE a == Len(r.method)
               b == Len(UrlText(r))
               c == Len(r.version)
               f == Len(FirstLine(r))
    <2>5. /\ f <= h /\ f = a + b + 2 + c /\ a \in Nat /\ b \in Nat /\ c \in Nat /\ h \in Nat
          /\ h \in {NULL, 0}
      BY <2>1, <2>2, <2>3, <2>4
    <2> HIDE DEF a, b, c, f, h
    <2> QED
      BY <2>5 DEF NULL
  <1>4. ReadInv'
    BY <1>1, <1>3 DEF ReadInv, Split
  <1> QED
    BY <1>1, <1>2, <1>4 DEF RInv, LineInv, VisitInv, DecodeInv, Split

\* The first line is split where the client put its spaces, and the loop is entered.
LEMMA DecomposeKeepsRInv ==
  ASSUME IInv, RInv, IInv', decompose_header
  PROVE  RInv'
  <1> DEFINE r == request
             a == Len(r.method)
             b == Len(UrlText(r))
  <1>1. /\ pc = "header" /\ UNCHANGED <<request, mem, decode>>
        /\ msg.header_options = Empty.header_options /\ msg.parameters = Map_make(10)
    BY DEF decompose_header, RInv, StayInv
  <1>2. CASE HeaderIsUnreadable
    <2>1. pc' = "killed"
      BY <1>2 DEF decompose_header
    <2>2. ASSUME r.words = 3 PROVE ~r.complete
      <3>1. msg.body = NoRef
        BY <1>1, <1>2, <2>2, ThreeWordsAreFound
      <3> QED
        BY <1>1, <2>2, <3>1 DEF RInv, ReadInv
    <2>3. ReadInv'
      BY <1>1, <2>1, <2>2 DEF ReadInv, Readable, Split
    <2> QED
      BY <2>1, <2>3 DEF RInv, LineInv, VisitInv, StayInv, DecodeInv, Split
  <1>4. CASE ~HeaderIsUnreadable /\ LineIsAstray
    <2>1. pc' = "astray"
      BY <1>4 DEF decompose_header
    <2>2. r.words # 3
      <3>1. msg.body # NoRef
        BY <1>1, <1>4, UrlIsTheSecondWord
      <3> QED
        BY <1>1, <1>4, <3>1, ThreeWordsAreFound
    <2>3. ReadInv'
      BY <1>1, <2>1, <2>2 DEF ReadInv, Split
    <2> QED
      BY <2>1, <2>3 DEF RInv, LineInv, VisitInv, StayInv, DecodeInv, Split
  <1>3. CASE ~HeaderIsUnreadable /\ ~LineIsAstray
    <2> DEFINE u == LineRefs.url
    <2>1. /\ msg' = [msg EXCEPT !.method  = get_method_code(LineRefs.method), !.url = u,
                                !.version = get_version_code(LineRefs.version)]
          /\ IF HasQuery(u) THEN ParseOptions(QueryRef(u), "query")
             ELSE ParseOptions(Header, "options")
      BY <1>3 DEF decompose_header
    <2>4. /\ msg.body # NoRef /\ u \in Ref /\ u.str = WordStart
          /\ WordStart \in 1 .. Size /\ WordLimit \in 0 .. Size
          /\ u.str + u.len <= WordLimit
      BY <1>1, <1>3, UrlIsTheSecondWord
    <2>3. /\ r \in Requests /\ r.complete /\ msg.body.str \in Nat /\ mem = Memory(Message(r))
          /\ Header = [str |-> 0, len |-> msg.body.str] /\ Size \in Nat
      <3>1. pc # "idle"
        BY <1>1
      <3> QED
        BY <1>1, <2>4, <3>1, HeaderIsWhole
    <2>2. msg.body # NoRef /\ a \in Nat
      BY <2>3, <2>4, FirstLineIsText
    <2>40. /\ loop \in [chunk : Int, limit : Int, limit_len : Int, visited : SUBSET Ref]
           /\ WordStart' = WordStart /\ WordLimit' = WordLimit
      BY <1>1, SameRequest DEF IInv, FieldsInv
    <2>41. /\ u.str \in 1 .. Size /\ u.str \in 0 .. Size + 1 /\ u.len \in Int
           /\ u.str + u.len <= Size
      <3> DEFINE x == u.str
                 y == u.len
                 w == WordStart
                 l == WordLimit
      <3>1. /\ x \in Int /\ y \in Int /\ x = w /\ w \in 1 .. Size /\ l \in 0 .. Size
            /\ x + y <= l /\ Size \in Nat
        BY <2>3, <2>4 DEF Ref
      <3> HIDE DEF x, y, w, l
      <3>2. x \in 1 .. Size /\ x \in 0 .. Size + 1 /\ x + y <= Size
        BY <3>1
      <3> QED
        BY <3>1, <3>2 DEF x, y
    <2>5. r.words = 3 =>
            /\ b \in Nat /\ LineRefs.method = [str |-> 0, len |-> a]
            /\ u = [str |-> a + 1, len |-> b]
            /\ r.options # <<>> => LineRefs.version = [str |-> a + b + 2, len |-> Len(r.version)]
            /\ Holds(mem, 0, r.method) /\ Holds(mem, a + 1, UrlText(r))
            /\ Holds(mem, a + b + 2, r.version)
      BY <1>1, <2>2, ThreeWordsAreFound
    <2>6. ASSUME r.words = 3
          PROVE  /\ get_method_code(LineRefs.method) = WordCode(r.method, methods_str)
                 /\ r.options # <<>> =>
                      get_version_code(LineRefs.version) = WordCode(r.version, versions_str)
      <3>1. r.method \in Seq(Char \ {SP}) /\ r.version \in Seq(Char)
        BY <2>3, RequestFields
      <3>2. get_method_code(LineRefs.method) = WordCode(r.method, methods_str)
        <4> DEFINE o == 0
        <4>1. /\ o \in Int /\ Holds(mem, o, r.method)
              /\ LineRefs.method = [str |-> o, len |-> Len(r.method)]
          BY <2>5, <2>6
        <4> HIDE DEF o
        <4> QED
          BY <3>1, <4>1, WordsHaveTheirCodes
      <3>3. ASSUME r.options # <<>>
            PROVE  get_version_code(LineRefs.version) = WordCode(r.version, versions_str)
        <4> DEFINE o == a + b + 2
        <4>1. Holds(mem, o, r.version) /\ LineRefs.version = [str |-> o, len |-> Len(r.version)]
          BY <2>5, <2>6, <3>3
        <4>2. o \in Int
          <5> HIDE DEF a, b
          <5> QED
            BY <2>2, <2>5, <2>6
        <4> HIDE DEF o
        <4> QED
          BY <3>1, <4>1, <4>2, WordsHaveTheirCodes
      <3> QED
        BY <3>2, <3>3
    <2> HIDE DEF u
    <2>7. /\ msg'.method = get_method_code(LineRefs.method) /\ msg'.url = u
          /\ msg'.version = get_version_code(LineRefs.version)
          /\ msg'.body = msg.body /\ msg'.header_options = msg.header_options
          /\ msg'.parameters = msg.parameters
      BY <2>1, Fields DEF IInv
    <2>8. LineInv'
      <3>1. UrlStart' = UrlStart /\ UrlStart = a + 1
        BY <1>1 DEF UrlStart
      <3>2. r.words = 3 => u.str = UrlStart /\ u.len = b
        BY <2>5, <3>1
      <3> HIDE DEF a, b
      <3>3. (0 <= b /\ b <= b) \/ r.words # 3
        BY <2>5
      <3> QED
        BY <1>1, <2>3, <2>6, <2>7, <3>1, <3>2, <3>3 DEF LineInv, b
    <2>9. (\A i \in HTTPHeaderRequestOption : msg'.header_options[i] = NoRef)
          /\ MapShape(msg'.parameters, Seq(0 .. 255), InWord')
      <3>1. 10 \in Nat
        OBVIOUS
      <3>2. MapShape(Map_make(10), Seq(0 .. 255), InWord')
        BY <3>1, MapMakeShape
      <3> QED
        BY <1>1, <2>7, <3>2 DEF Empty
    <2>11. CASE HasQuery(u) /\ r.words = 3
      <3> DEFINE start == a + 1
                 ref   == [str |-> start, len |-> Len(UrlText(r))]
                 p     == Len(PathText(r))
      <3>1. /\ start \in Nat /\ Holds(mem, start, UrlText(r)) /\ ref = u
            /\ start + Len(UrlText(r)) <= Size
        <4>1. a + 1 \in Nat
          <5> HIDE DEF a
          <5> QED
            BY <2>2
        <4> QED
          BY <2>5, <2>11, <2>41, <4>1
      <3>2. HasQuery(ref) /\ ParseOptions(QueryRef(ref), "query")
        BY <2>1, <2>11, <3>1
      <3> HIDE DEF start, ref
      <3>3. /\ PathText(r) # <<>>
            /\ \/ pc' = "killed" /\ Len(r.query) = 1
               \/ /\ pc' = "query" /\ Len(r.query) >= 2
                  /\ AtPart(loop', r.query, start + p + 1, <<Ampersand>>)
                  /\ start <= loop'.chunk /\ loop'.limit = start + Len(UrlText(r))
        <4>1. ref = [str |-> start, len |-> Len(UrlText(r))]
          BY DEF ref
        <4> QED
          BY <2>3, <2>40, <3>1, <3>2, <4>1, QueryIsEntered
      <3>4. CASE pc' = "killed" /\ Len(r.query) = 1
        <4>1. ReadInv'
          BY <1>1, <3>3, <3>4 DEF ReadInv, Readable, Split
        <4> QED
          BY <2>8, <3>4, <4>1 DEF RInv, VisitInv, StayInv, DecodeInv
      <3>5. CASE /\ pc' = "query" /\ Len(r.query) >= 2
                 /\ AtPart(loop', r.query, start + p + 1, <<Ampersand>>)
                 /\ start <= loop'.chunk /\ loop'.limit = start + Len(UrlText(r))
        <4>1. ReadInv'
          BY <1>1, <3>3, <3>5 DEF ReadInv, Split
        <4>2. VisitInv'
          <5>1. PartsStart' = start + p + 1
            <6>1. PartsStart' = a + p + 2
              BY <1>1, <3>5 DEF PartsStart
            <6>2. a \in Nat /\ p \in Nat
              BY <2>2, <2>3, PathIsText, LenProperties
            <6> HIDE DEF a, p
            <6> QED
              BY <6>1, <6>2 DEF start
          <5>2. Parts' = r.query /\ ChunkSep(pc)' = <<Ampersand>>
            BY <1>1, <3>5 DEF Parts, ChunkSep
          <5> QED
            BY <3>5, <5>1, <5>2 DEF VisitInv
        <4>3. StayInv'
          <5>1. WordStart' <= loop'.chunk /\ loop'.limit <= WordLimit'
            <6>1. WordStart = start /\ start + Len(UrlText(r)) <= WordLimit
              BY <2>4, <2>5, <2>11 DEF start
            <6> QED
              BY <2>40, <3>5, <6>1
          <5> QED
            BY <2>9, <3>5, <5>1 DEF StayInv
        <4> QED
          BY <2>8, <3>5, <4>1, <4>2, <4>3 DEF RInv, DecodeInv
      <3> QED
        BY <3>3, <3>4, <3>5
    <2>12. CASE HasQuery(u) /\ r.words # 3
      <3> DEFINE segment == QueryRef(u)
                 phase   == "query"
      <3>1. /\ segment.str \in 0 .. Size + 1 /\ segment.len \in Int /\ u.str <= segment.str
            /\ segment.str + segment.len = u.str + u.len
        <4>1. HasQuery(u)
          BY <2>12
        <4> QED
          BY <2>3, <2>41, <4>1, QueryIsInTheUrl
      <3>2. ParseOptions(segment, phase) /\ segment.str + segment.len <= Size
        BY <2>1, <2>12, <2>41, <3>1
      <3>3. \/ pc' \in {"killed", "astray"}
            \/ /\ pc' = phase /\ loop'.limit = segment.str + segment.len
               /\ segment.str <= loop'.chunk /\ loop'.chunk \in Nat
        <4> HIDE DEF segment, phase
        <4> QED
          BY <2>3, <2>40, <3>1, <3>2, ParseOptionsEnters
      <3>4. ReadInv' /\ VisitInv'
        BY <1>1, <2>12, <3>3 DEF ReadInv, VisitInv, Split
      <3>5. StayInv'
        <4>1. CASE pc' \in {"killed", "astray"}
          BY <4>1 DEF StayInv
        <4>2. CASE /\ pc' = phase /\ loop'.limit = segment.str + segment.len
                   /\ segment.str <= loop'.chunk /\ loop'.chunk \in Nat
          <5> DEFINE x == segment.str
                     c == loop'.chunk
                     y == u.str
          <5>1. y <= x /\ x <= c /\ y \in Int /\ x \in Int /\ c \in Int
            BY <2>41, <3>1, <4>2
          <5> HIDE DEF x, c, y
          <5>2. y <= c
            BY <5>1
          <5>3. WordStart' <= loop'.chunk /\ loop'.limit <= WordLimit'
            BY <2>4, <2>40, <3>1, <4>2, <5>2 DEF y, c
          <5> QED
            BY <2>9, <4>2, <5>3 DEF StayInv
        <4> QED
          BY <3>3, <4>1, <4>2
      <3> QED
        BY <2>8, <3>3, <3>4, <3>5 DEF RInv, DecodeInv
    <2>13. CASE ~HasQuery(u)
      <3>1. \/ pc' = "killed" /\ r.options = <<>>
            \/ /\ pc' = "options" /\ r.options # <<>>
               /\ AtPart(loop', Lines(r), 0, CRLF) /\ loop'.limit = msg.body.str
        <4>1. pc \in {"header", "query"} /\ ParseOptions(Header, "options")
          BY <1>1, <2>1, <2>13
        <4> QED
          BY <2>2, <4>1, OptionsAreEntered
      <3>2. CASE pc' = "killed" /\ r.options = <<>>
        <4>1. ReadInv'
          BY <1>1, <3>2 DEF ReadInv, Readable, Split
        <4> QED
          BY <2>8, <3>2, <4>1 DEF RInv, VisitInv, StayInv, DecodeInv
      <3>3. CASE /\ pc' = "options" /\ r.options # <<>>
                 /\ AtPart(loop', Lines(r), 0, CRLF) /\ loop'.limit = msg.body.str
        <4>1. r.words = 3 /\ PathText(r) # <<>> => Len(r.query) # 1
          <5> SUFFICES ASSUME r.words = 3, PathText(r) # <<>> PROVE Len(r.query) # 1
            OBVIOUS
          <5> DEFINE start == a + 1
                     ref   == [str |-> start, len |-> Len(UrlText(r))]
          <5>1. /\ start \in Nat /\ Holds(mem, start, UrlText(r)) /\ ref = u
                /\ start + Len(UrlText(r)) <= Size
            <6>1. start \in Nat
              <7> HIDE DEF a
              <7> QED
                BY <2>2
            <6>2. Holds(mem, start, UrlText(r)) /\ u = [str |-> start, len |-> b] /\ ref = u
              BY <2>5
            <6>3. u.str = start /\ u.len = Len(UrlText(r))
              BY <6>2
            <6> HIDE DEF start, ref
            <6> QED
              BY <2>41, <6>1, <6>2, <6>3
          <5>2. ref = [str |-> start, len |-> Len(UrlText(r))] /\ ~HasQuery(ref)
            BY <2>13, <5>1
          <5> HIDE DEF start, ref
          <5>3. HasQuery(ref) <=> r.query # <<>> /\ PathText(r) # <<>>
            BY <2>3, <5>1, <5>2, QueryIsFound
          <5>4. r.query = <<>>
            BY <5>2, <5>3
          <5> QED
            BY <5>4
        <4>2. ReadInv'
          BY <1>1, <2>3, <3>3, <4>1 DEF ReadInv, Readable, Split
        <4>3. VisitInv'
          <5>1. Parts' = Lines(r) /\ PartsStart' = 0 /\ ChunkSep(pc)' = CRLF
            BY <1>1, <3>3 DEF Parts, PartsStart, ChunkSep
          <5> QED
            BY <3>3, <5>1 DEF VisitInv
        <4>4. StayInv'
          <5>1. loop'.limit <= msg'.body.str
            <6>1. loop'.limit = msg.body.str /\ msg'.body.str = msg.body.str
              BY <2>7, <3>3
            <6> QED
              BY <2>3, <6>1
          <5> QED
            BY <2>9, <3>3, <5>1 DEF StayInv
        <4> QED
          BY <2>8, <3>3, <4>2, <4>3, <4>4 DEF RInv, DecodeInv
      <3> QED
        BY <3>1, <3>2, <3>3
    <2> QED
      BY <2>11, <2>12, <2>13
  <1> QED
    BY <1>2, <1>3, <1>4

\* A value lies where its chunk does, in what is left of the segment.
LEMMA ValueIsInTheChunk ==
  ASSUME IInv, InLoop, NEW chunk, chunk = ChunkRef, NEW sep, sep = ItemSepIn(chunk), sep # NULL,
         NEW val, val = ValueOf(chunk, sep)
  PROVE  /\ val \in Ref /\ val \in InCopy /\ KeyOf(chunk, sep) \in InCopy
         /\ loop.chunk <= val.str /\ val.str + val.len <= loop.limit
  <1>1. /\ loop.chunk \in Nat /\ loop.limit \in Int /\ loop.limit_len = loop.limit - loop.chunk
    BY DEF IInv, LoopInv, InLoop
  <1>2. /\ chunk.str = loop.chunk /\ chunk.len \in 0 .. loop.limit_len
        /\ KeyOf(chunk, sep) \in InCopy /\ ValueOf(chunk, sep) \in InCopy
    BY ChunkIsInTheCopy
  <1> DEFINE c == loop.chunk
             e == loop.limit
             k == chunk.len
             v == [str |-> sep + 1, len |-> chunk.len - (sep - chunk.str) - 1]
  <1>3. c \in Nat /\ e \in Int /\ k \in Nat /\ c + k <= e
    <2>1. c \in Nat /\ e \in Int /\ k \in 0 .. e - c
      BY <1>1, <1>2
    <2> HIDE DEF c, e, k
    <2> QED
      BY <2>1
  <1>4. sep \in c .. c + k - 1
    <2>1. sep = strnchr(mem, c, ItemSep(pc), k)
      BY <1>2 DEF ItemSepIn
    <2>2. c \in Int /\ k \in Int
      BY <1>3
    <2> HIDE DEF c, k
    <2> QED
      BY <2>1, <2>2, StrnchrFinds
  <1>5. /\ v.str \in Int /\ v.len \in Nat /\ c <= v.str /\ v.str + v.len <= e
    <2>1. v.str = sep + 1 /\ v.len = k - (sep - c) - 1
      BY <1>2
    <2> HIDE DEF c, e, k, v
    <2> QED
      BY <1>3, <1>4, <2>1
  <1>6. val = trim(mem, v)
    BY DEF ValueOf
  <1> HIDE DEF v
  <1> DEFINE t == trim(mem, v)
  <1>7. /\ t.str \in Int /\ t.len \in Nat /\ v.str <= t.str /\ t.str + t.len <= v.str + v.len
    BY <1>5, TrimWithin
  <1> HIDE DEF t, c, e
  <1>8. c <= t.str /\ t.str + t.len <= e
    <2> DEFINE x == v.str
               y == v.len
               p == t.str
               q == t.len
    <2>1. /\ x \in Int /\ y \in Nat /\ c <= x /\ x + y <= e /\ p \in Int /\ q \in Nat
          /\ x <= p /\ p + q <= x + y /\ c \in Nat /\ e \in Int
      BY <1>3, <1>5, <1>7
    <2> HIDE DEF x, y, p, q
    <2>2. c <= p /\ p + q <= e
      BY <2>1
    <2> QED
      BY <2>2 DEF p, q
  <1>9. val \in Ref
    BY <1>2 DEF InCopy
  <1> QED
    BY <1>2, <1>6, <1>8, <1>9 DEF t, c, e

\* An iteration goes on to the next part, and stores what lies in this one.
LEMMA ParseChunkKeepsRInv ==
  ASSUME IInv, RInv, IInv', ParseChunk
  PROVE  RInv'
  <1>1. PICK chunk \in {ChunkRef} : \E sep \in {ItemSepIn(chunk)} :
          /\ msg' = IF IsStored(chunk, sep)
                    THEN Add(pc, KeyOf(chunk, sep), ValueOf(chunk, sep)) ELSE msg
          /\ loop' = [loop EXCEPT !.chunk     = @ + Advance(chunk),
                                  !.limit_len = LengthLeft(chunk),
                                  !.visited   = @ \cup {chunk}]
    BY DEF ParseChunk
  <1>2. PICK sep \in {ItemSepIn(chunk)} :
          /\ msg' = IF IsStored(chunk, sep)
                    THEN Add(pc, KeyOf(chunk, sep), ValueOf(chunk, sep)) ELSE msg
          /\ loop' = [loop EXCEPT !.chunk     = @ + Advance(chunk),
                                  !.limit_len = LengthLeft(chunk),
                                  !.visited   = @ \cup {chunk}]
    BY <1>1
  <1> DEFINE key == KeyOf(chunk, sep)
             val == ValueOf(chunk, sep)
             r   == request
  <1>3. /\ InLoop /\ UNCHANGED <<pc, request, mem, decode>> /\ pc \in {"query", "options"}
        /\ FieldsInv /\ pc # "idle" /\ loop.chunk < loop.limit
    BY DEF ParseChunk, InLoop, IInv
  <1>4. /\ loop = [chunk |-> loop.chunk, limit |-> loop.limit, limit_len |-> loop.limit_len,
                   visited |-> loop.visited]
        /\ msg = [method |-> msg.method, version |-> msg.version, url |-> msg.url,
                  body |-> msg.body, header_options |-> msg.header_options,
                  parameters |-> msg.parameters]
    BY <1>3, Fields
  <1>5. /\ loop'.chunk = loop.chunk + Advance(chunk) /\ loop'.limit = loop.limit
        /\ loop'.visited = loop.visited \cup {chunk}
    BY <1>2, <1>4
  <1>6. /\ msg'.method = msg.method /\ msg'.version = msg.version /\ msg'.url = msg.url
        /\ msg'.body = msg.body
        /\ ~IsStored(chunk, sep) \/ pc # "query" => msg'.parameters = msg.parameters
        /\ IsStored(chunk, sep) /\ pc = "query" =>
             msg'.parameters = Map_set(msg.parameters, TextOf(mem, key), val)
        /\ ~IsStored(chunk, sep) \/ pc = "query" => msg'.header_options = msg.header_options
        /\ IsStored(chunk, sep) /\ pc # "query" =>
             msg'.header_options = [msg.header_options EXCEPT ![get_parameter_code(key)] = val]
    <2>1. CASE ~IsStored(chunk, sep)
      BY <1>2, <2>1
    <2>2. CASE IsStored(chunk, sep) /\ pc = "query"
      <3>1. msg' = [msg EXCEPT !.parameters = Map_set(@, TextOf(mem, key), val)]
        BY <1>2, <2>2 DEF Add
      <3> HIDE DEF key, val
      <3> QED
        BY <1>4, <2>2, <3>1
    <2>3. CASE IsStored(chunk, sep) /\ pc # "query"
      <3>1. msg' = [msg EXCEPT !.header_options[get_parameter_code(key)] = val]
        BY <1>2, <2>3 DEF Add
      <3> HIDE DEF key, val
      <3> QED
        BY <1>4, <2>3, <3>1
    <2> QED
      BY <2>1, <2>2, <2>3
  <1>7. IsStored(chunk, sep) =>
          /\ val \in Ref /\ val \in InCopy /\ key \in InCopy
          /\ loop.chunk <= val.str /\ val.str + val.len <= loop.limit
    <2> SUFFICES ASSUME sep # NULL
                 PROVE  /\ val \in Ref /\ val \in InCopy /\ key \in InCopy
                        /\ loop.chunk <= val.str /\ val.str + val.len <= loop.limit
      BY DEF IsStored
    <2>1. chunk = ChunkRef /\ sep = ItemSepIn(chunk) /\ val = ValueOf(chunk, sep)
      OBVIOUS
    <2> HIDE DEF val
    <2> QED
      BY <1>3, <2>1, ValueIsInTheChunk
  <1> HIDE DEF key, val
  <1>8. LineInv' /\ ReadInv'
    BY <1>3, <1>6 DEF RInv, LineInv, ReadInv, UrlStart, Split
  <1>9. VisitInv'
    <2> SUFFICES ASSUME pc = "query" => r.words = 3
                 PROVE  AtPart(loop', Parts, PartsStart, ChunkSep(pc))
      BY <1>3 DEF VisitInv, Parts, PartsStart, ChunkSep
    <2>1. AtPart(loop, Parts, PartsStart, ChunkSep(pc))
      BY <1>3 DEF RInv, VisitInv
    <2>2. r \in Requests /\ mem = Memory(Message(r))
      BY <1>3 DEF IInv, FieldsInv, CopyInv, Sent
    <2> DEFINE first  == PartsStart
               needle == ChunkSep(pc)
               parts  == Parts
               found  == strnstr(mem, loop.chunk, needle, loop.limit_len)
    <2>3. \E S : /\ parts \in Seq(Seq(S)) /\ needle \in Seq(S) /\ first \in Nat
                 /\ Layout(mem, first, parts, needle)
      <3>1. CASE pc = "query"
        <4> DEFINE p == Len(PathText(r))
                   a == Len(r.method)
                   u == a + 1
        <4>1. first = a + p + 2 /\ parts = r.query /\ needle = <<Ampersand>>
          BY <3>1 DEF PartsStart, Parts, ChunkSep
        <4>2. /\ parts \in Seq(Seq(Char \ {SP})) /\ needle \in Seq(Char \ {SP})
          BY <2>2, <4>1, QueryIsText
        <4>3. a \in Nat /\ p \in Nat
          BY <2>2, FirstLineIsText, PathIsText, LenProperties
        <4>4. Holds(mem, u, UrlText(r)) /\ r.query # <<>>
          <5> DEFINE m == mem
                     h == Len(HeaderText(r))
          <5>1. Holds(mem, 0, FirstLine(r))
            <6> HIDE DEF h
            <6>1. m = Memory(Message(r)) /\ h = Len(HeaderText(r))
              BY <2>2 DEF h
            <6> HIDE DEF m
            <6>2. Holds(m, 0, FirstLine(r))
              BY <2>2, <6>1, FirstLineInMemory
            <6> QED
              BY <6>2 DEF m
          <5>2. Holds(mem, u, UrlText(r))
            BY <2>2, <3>1, <5>1, FirstLineIsText
          <5>3. Len(r.query) >= 2
            BY <3>1 DEF RInv, ReadInv
          <5>4. r.query # <<>>
            BY <5>3
          <5> QED
            BY <5>2, <5>4
        <4>5. first \in Nat /\ u \in Int /\ u + p + 1 = first
          <5> HIDE DEF a, p, first
          <5> QED
            BY <4>1, <4>3
        <4>6. Holds(mem, first, QueryText(r))
          <5> HIDE DEF u
          <5>1. Holds(mem, u + p + 1, QueryText(r))
            BY <2>2, <4>4, <4>5, UrlIsText
          <5> QED
            BY <4>5, <5>1
        <4>7. Layout(mem, first, r.query, <<Ampersand>>)
          <5> HIDE DEF first
          <5> QED
            BY <2>2, <4>4, <4>5, <4>6, QueryLayout
        <4> HIDE DEF first, parts, needle
        <4> QED
          BY <4>1, <4>2, <4>5, <4>7
      <3>2. CASE pc = "options"
        <4>1. first = 0 /\ parts = Lines(r) /\ needle = CRLF
          BY <3>2 DEF PartsStart, Parts, ChunkSep
        <4>2. Lines(r) \in Seq(Seq(Char)) /\ CRLF \in Seq(Char) /\ Layout(mem, 0, Lines(r), CRLF)
          BY <2>2, LinesAreTexts, LineEnd, LinesLayout
        <4>3. 0 \in Nat
          OBVIOUS
        <4> HIDE DEF first, parts, needle
        <4> QED
          BY <4>1, <4>2, <4>3
      <3> QED
        BY <1>3, <3>1, <3>2
    <2>4. PICK S : /\ parts \in Seq(Seq(S)) /\ needle \in Seq(S) /\ first \in Nat
                   /\ Layout(mem, first, parts, needle)
      BY <2>3
    <2>5. Len(needle) \in 1 .. 2
      BY SeparatorsHaveLength
    <2>6. loop.limit_len = loop.limit - loop.chunk
      BY <1>3 DEF IInv, LoopInv
    <2>7. chunk = [str |-> loop.chunk,
                   len |-> IF found = NULL THEN loop.limit_len ELSE found - loop.chunk]
      BY DEF ChunkRef
    <2>8. loop'.chunk = loop.chunk + (chunk.len + Len(needle))
      BY <1>5 DEF Advance
    <2> DEFINE next == loop'
    <2>9. /\ next.chunk = loop.chunk + (chunk.len + Len(needle)) /\ next.limit = loop.limit
          /\ next.visited = loop.visited \cup {chunk}
      BY <1>5, <2>8
    <2>10. /\ found = strnstr(mem, loop.chunk, needle, loop.limit_len)
           /\ AtPart(loop, parts, first, needle)
      BY <2>1
    <2> HIDE DEF next, parts, needle, first, found
    <2>11. AtPart(next, parts, first, needle)
      BY <1>3, <2>4, <2>5, <2>6, <2>7, <2>9, <2>10, LoopAdvances
    <2> QED
      BY <2>11 DEF next, parts, needle, first
  <1>10. StayInv'
    <2>1. WordStart' = WordStart /\ WordLimit' = WordLimit /\ InWord' = InWord
      BY <1>3, SameRequest DEF InWord
    <2>2. pc = "query" => WordStart <= loop'.chunk /\ loop'.limit <= WordLimit
      <3> SUFFICES ASSUME pc = "query"
                   PROVE  WordStart <= loop'.chunk /\ loop'.limit <= WordLimit
        OBVIOUS
      <3>1. WordStart <= loop.chunk /\ loop.limit <= WordLimit
        BY DEF RInv, StayInv
      <3>2. loop.chunk \in Nat /\ Advance(chunk) \in Nat
        <4>1. chunk = ChunkRef /\ sep = ItemSepIn(chunk)
          OBVIOUS
        <4>2. Advance(chunk) \in Nat
          BY <1>3, <4>1, ChunkIsInTheCopy
        <4> QED
          BY <1>3, <4>2 DEF IInv, LoopInv
      <3>3. WordStart \in Int
        BY <1>3 DEF IInv, UrlInv
      <3> DEFINE w == WordStart
                 c == loop.chunk
                 d == Advance(chunk)
      <3>4. w \in Int /\ c \in Nat /\ d \in Nat /\ w <= c
        BY <3>1, <3>2, <3>3
      <3> HIDE DEF w, c, d
      <3>5. w <= c + d
        BY <3>4
      <3> QED
        BY <1>5, <3>1, <3>5 DEF w, c, d
    <2>3. pc = "options" => loop'.limit <= msg.body.str
      BY <1>5 DEF RInv, StayInv
    <2>4. \A i \in HTTPHeaderRequestOption :
            msg'.header_options[i] # NoRef => Within(msg'.header_options[i], 0, msg.body.str)
      <3>1. \A i \in HTTPHeaderRequestOption :
              msg.header_options[i] # NoRef => Within(msg.header_options[i], 0, msg.body.str)
        BY <1>3 DEF RInv, StayInv
      <3>2. CASE ~(IsStored(chunk, sep) /\ pc # "query")
        BY <1>6, <3>1, <3>2
      <3>3. CASE IsStored(chunk, sep) /\ pc # "query"
        <4>1. Within(val, 0, msg.body.str)
          <5>1. /\ loop.chunk <= val.str /\ val.str + val.len <= loop.limit /\ val \in Ref
                /\ val \in InCopy
            BY <1>7, <3>3
          <5>2. loop.limit <= msg.body.str
            BY <1>3, <3>3 DEF RInv, StayInv
          <5>3. msg.body.str \in Int /\ loop.limit \in Int
            BY <1>3 DEF FieldsInv, Ref
          <5> DEFINE x == val.str
                     y == val.len
                     e == loop.limit
                     b == msg.body.str
          <5>4. x \in Int /\ y \in Int /\ 0 <= x /\ x + y <= e /\ e <= b /\ e \in Int /\ b \in Int
            BY <5>1, <5>2, <5>3 DEF InCopy, Ref
          <5> HIDE DEF x, y, e, b
          <5>5. 0 <= x /\ x + y <= b
            BY <5>4
          <5> QED
            BY <5>5 DEF x, y, b, Within
        <4> DEFINE h == [msg.header_options EXCEPT ![get_parameter_code(key)] = val]
                   o == msg.header_options
        <4>2. o \in [HTTPHeaderRequestOption -> Ref]
          BY <1>3 DEF FieldsInv
        <4>3. \A i \in HTTPHeaderRequestOption : h[i] = o[i] \/ h[i] = val
          BY <4>2
        <4>4. msg'.header_options = h
          BY <1>6, <3>3
        <4> HIDE DEF h, o
        <4> QED
          BY <3>1, <4>1, <4>3, <4>4 DEF o
      <3> QED
        BY <3>2, <3>3
    <2>5. MapShape(msg'.parameters, Seq(0 .. 255), InWord)
      <3>1. MapShape(msg.parameters, Seq(0 .. 255), InWord)
        BY <1>3 DEF RInv, StayInv
      <3>2. CASE ~(IsStored(chunk, sep) /\ pc = "query")
        BY <1>6, <3>1, <3>2
      <3>3. CASE IsStored(chunk, sep) /\ pc = "query"
        <4>1. val \in InWord
          <5>1. /\ loop.chunk <= val.str /\ val.str + val.len <= loop.limit /\ val \in Ref
            BY <1>7, <3>3
          <5>2. WordStart <= loop.chunk /\ loop.limit <= WordLimit
            BY <3>3 DEF RInv, StayInv
          <5>3. /\ WordStart \in Int /\ WordLimit \in Int /\ loop.chunk \in Int
                /\ loop.limit \in Int
            BY <1>3 DEF IInv, UrlInv, FieldsInv
          <5> DEFINE x == val.str
                     y == val.len
                     c == loop.chunk
                     e == loop.limit
                     w == WordStart
                     l == WordLimit
          <5>4. x \in Int /\ y \in Int /\ c <= x /\ x + y <= e /\ e <= l /\ w <= c /\ e \in Int
                /\ l \in Int /\ w \in Int /\ c \in Int
            BY <5>1, <5>2, <5>3 DEF Ref
          <5> HIDE DEF x, y, e, c, w, l
          <5>5. w <= x /\ x + y <= l
            BY <5>4
          <5> QED
            BY <5>1, <5>5 DEF x, y, w, l, Within, InWord
        <4>2. TextOf(mem, key) \in Seq(0 .. 255)
          BY <1>3, <1>7, <3>3, TextOfCopy
        <4>3. MapShape(Map_set(msg.parameters, TextOf(mem, key), val), Seq(0 .. 255), InWord)
          BY <3>1, <4>1, <4>2, MapSetShape
        <4> QED
          BY <1>6, <3>3, <4>3
      <3> QED
        BY <3>2, <3>3
    <2> QED
      BY <1>3, <1>6, <2>1, <2>2, <2>3, <2>4, <2>5 DEF StayInv
  <1>11. DecodeInv'
    BY <1>3 DEF DecodeInv
  <1> QED
    BY <1>8, <1>9, <1>10, <1>11 DEF RInv

\* The url is shortened, and the options are parsed.
LEMMA AfterQueryKeepsRInv ==
  ASSUME IInv, RInv, IInv', AfterQuery
  PROVE  RInv'
  <1> DEFINE r == request
             q == QmarkIndex(msg.url)
  <1>1. /\ pc = "query" /\ UNCHANGED <<request, mem, decode>> /\ pc # "idle"
        /\ msg' = [msg EXCEPT !.url.len = @ - q] /\ ParseOptions(Header, "options")
    BY DEF AfterQuery
  <1>2. msg.body # NoRef /\ msg.body.str \in Nat
    <2>1. \/ msg.body.str = Separator(request) /\ msg.body.str \in 1 .. Size /\ Size \in Nat
          \/ msg.body = NoRef /\ pc \in {"header", "killed"}
      BY <1>1, Fields DEF IInv, BodyInv
    <2> QED
      BY <1>1, <2>1 DEF NoRef, NULL
  <1>3. /\ msg.url.len \in Int /\ q \in Nat \ {0}
        /\ 0 <= msg.url.len => q < msg.url.len
    BY <1>1 DEF IInv, QueryInv, FieldsInv, Ref
  <1>4. /\ msg = [method |-> msg.method, version |-> msg.version, url |-> msg.url,
                  body |-> msg.body, header_options |-> msg.header_options,
                  parameters |-> msg.parameters]
        /\ msg.url = [str |-> msg.url.str, len |-> msg.url.len]
    <2>1. msg.url \in Ref
      BY DEF IInv, FieldsInv
    <2> QED
      BY <2>1, Fields DEF IInv, Ref
  <1> HIDE DEF q
  <1>5. /\ msg'.method = msg.method /\ msg'.version = msg.version /\ msg'.url.str = msg.url.str
        /\ msg'.url.len = msg.url.len - q /\ msg'.body = msg.body
        /\ msg'.parameters = msg.parameters /\ msg'.header_options = msg.header_options
    BY <1>1, <1>4
  <1>6. \/ pc' = "killed" /\ r.options = <<>>
        \/ /\ pc' = "options" /\ r.options # <<>>
           /\ AtPart(loop', Lines(r), 0, CRLF) /\ loop'.limit = msg.body.str
    <2>1. pc \in {"header", "query"} /\ ParseOptions(Header, "options")
      BY <1>1
    <2> QED
      BY <1>2, <2>1, OptionsAreEntered
  <1>7. CASE pc' = "killed" /\ r.options = <<>>
    <2>1. ReadInv'
      BY <1>1, <1>7 DEF ReadInv, Readable, Split
    <2> QED
      BY <1>7, <2>1 DEF RInv, LineInv, VisitInv, StayInv, DecodeInv, Split
  <1>8. CASE /\ pc' = "options" /\ r.options # <<>>
             /\ AtPart(loop', Lines(r), 0, CRLF) /\ loop'.limit = msg.body.str
    <2>1. /\ r.complete
          /\ r.words = 3 =>
               /\ msg.method = WordCode(r.method, methods_str)
               /\ r.options # <<>> => msg.version = WordCode(r.version, versions_str)
               /\ msg.url.str = UrlStart /\ 0 <= msg.url.len
               /\ msg.url.len <= Len(UrlText(r)) /\ PathText(r) # <<>> /\ Len(r.query) >= 2
      BY <1>1 DEF RInv, LineInv, ReadInv, Split
    <2>2. r.words = 3 => r.query # <<>> /\ Len(r.query) # 1
      <3> SUFFICES ASSUME r.words = 3 PROVE r.query # <<>> /\ Len(r.query) # 1
        OBVIOUS
      <3>1. Len(<<>>) = 0
        OBVIOUS
      <3>2. Len(r.query) >= 2
        BY <2>1
      <3>3. r.query # <<>>
        BY <3>1, <3>2
      <3>4. Len(r.query) # 1
        <4> DEFINE x == Len(r.query)
        <4>1. x >= 2
          BY <3>2
        <4> HIDE DEF x
        <4>2. x # 1
          BY <4>1
        <4> QED
          BY <4>2 DEF x
      <3> QED
        BY <3>3, <3>4
    <2>3. LineInv'
      <3>1. UrlStart' = UrlStart
        BY <1>1 DEF UrlStart
      <3>2. r.words = 3 => 0 <= msg'.url.len /\ msg'.url.len <= Len(UrlText(r))
        <4>1. Len(UrlText(r)) \in Nat
          BY <1>1, FirstLineIsText DEF IInv, FieldsInv
        <4> DEFINE b == Len(UrlText(r))
                   l == msg.url.len
        <4>2. b \in Nat /\ l \in Int /\ q \in Nat \ {0} /\ (0 <= l => q < l)
              /\ msg'.url.len = l - q /\ (r.words = 3 => 0 <= l /\ l <= b)
          BY <1>3, <1>5, <2>1, <4>1
        <4> HIDE DEF b, l
        <4>3. r.words = 3 => 0 <= l - q /\ l - q <= b
          BY <4>2
        <4> QED
          BY <4>2, <4>3 DEF b
      <3> QED
        BY <1>1, <1>5, <1>8, <2>1, <2>2, <3>1, <3>2 DEF LineInv
    <2>4. ReadInv'
      BY <1>1, <1>8, <2>1, <2>2 DEF ReadInv, Readable, Split
    <2>5. VisitInv'
      <3>1. Parts' = Lines(r) /\ PartsStart' = 0 /\ ChunkSep(pc)' = CRLF
        BY <1>1, <1>8 DEF Parts, PartsStart, ChunkSep
      <3> QED
        BY <1>8, <3>1 DEF VisitInv
    <2>6. StayInv'
      <3>1. loop'.limit <= msg'.body.str
        <4>1. loop'.limit = msg.body.str /\ msg'.body.str = msg.body.str
          BY <1>5, <1>8
        <4> QED
          BY <1>2, <4>1
      <3>2. InWord' = InWord
        BY <1>1, SameRequest DEF InWord
      <3>3. /\ \A i \in HTTPHeaderRequestOption :
                 msg.header_options[i] # NoRef => Within(msg.header_options[i], 0, msg.body.str)
            /\ MapShape(msg.parameters, Seq(0 .. 255), InWord)
        BY <1>1 DEF RInv, StayInv
      <3> QED
        BY <1>5, <1>8, <3>1, <3>2, <3>3 DEF StayInv
    <2> QED
      BY <1>8, <2>3, <2>4, <2>5, <2>6 DEF RInv, DecodeInv
  <1> QED
    BY <1>6, <1>7, <1>8

\* The end of the parsing, and the call of url_decode.
LEMMA PhaseKeepsRInv ==
  ASSUME IInv, RInv, IInv', decompose_message \/ DecodeUrl
  PROVE  RInv'
  <1>1. /\ UNCHANGED <<request, mem, msg, decode>>
        /\ \/ pc = "options" /\ pc' = "parsed"
           \/ pc = "parsed" /\ pc' = "decoding"
    BY DEF decompose_message, DecodeUrl
  <1>2. LineInv' /\ ReadInv'
    BY <1>1 DEF RInv, LineInv, ReadInv, UrlStart, Split
  <1>3. VisitInv' /\ StayInv'
    <2>1. InWord' = InWord
      BY <1>1, SameRequest DEF InWord
    <2> QED
      BY <1>1, <2>1 DEF RInv, VisitInv, StayInv
  <1>4. DecodeInv'
    <2> SUFFICES ASSUME pc' = "decoding" PROVE DecodeInv'
      BY <1>1 DEF DecodeInv
    <2> DEFINE t == PieceTextsOf(request)
               n == Len(request.path)
    <2>1. decode'.write_index = 0 /\ decode'.read_index = 0
      BY <1>1 DEF IInv, CopyInv, NoDecode
    <2>2. n \in Nat /\ Start(t, <<>>, 0) = 0
      <3>1. request \in Requests
        BY <1>1 DEF IInv, FieldsInv
      <3> DEFINE S == Char \ {SP, QuestionMark}
                 sep == <<>>
      <3>2. t \in Seq(Seq(S)) /\ sep \in Seq(S) /\ n \in Nat
        BY <3>1, PathIsText
      <3> HIDE DEF S, sep, t
      <3>3. Start(t, sep, 0) = 0
        BY <3>2, StartSteps
      <3> QED
        BY <3>2, <3>3 DEF sep
    <2>3. 0 \in 0 .. n /\ 1 .. 0 = {}
      <3> HIDE DEF n
      <3> QED
        BY <2>2
    <2> QED
      BY <1>1, <2>1, <2>2, <2>3 DEF DecodeInv
  <1> QED
    BY <1>2, <1>3, <1>4 DEF RInv

\* A step that changes nothing, and the end of a request.
LEMMA StutterKeepsRInv ==
  ASSUME RInv, UNCHANGED vars
  PROVE  RInv'
  <1>1. UNCHANGED <<pc, request, mem, msg, loop, decode>> /\ url' = url
    BY DEF vars, url
  <1>2. LineInv' /\ ReadInv' /\ DecodeInv'
    BY <1>1 DEF RInv, LineInv, ReadInv, DecodeInv, UrlStart
  <1>3. VisitInv'
    BY <1>1 DEF RInv, VisitInv, Parts, PartsStart
  <1>4. StayInv'
    <2>1. InWord' = InWord /\ WordStart' = WordStart /\ WordLimit' = WordLimit
      BY <1>1, SameRequest DEF InWord
    <2> QED
      BY <1>1, <2>1 DEF RInv, StayInv
  <1> QED
    BY <1>2, <1>3, <1>4 DEF RInv

\* The request is gone with its copy.
LEMMA DestroyKeepsRInv ==
  ASSUME destroy_InboundHttpMessage
  PROVE  RInv'
  BY DEF destroy_InboundHttpMessage, RInv, LineInv, ReadInv, VisitInv, StayInv, DecodeInv, Split

\* The pieces of a path lie one behind the other where the path does.
LEMMA PiecesInMemory ==
  ASSUME NEW r \in Requests, NEW m, NEW at \in Int, Holds(m, at, PathText(r)),
         NEW s, s = [k \in 0 .. Len(r.path) |-> Start(PieceTextsOf(r), <<>>, k)]
  PROVE  /\ Len(r.path) \in Nat /\ s[0] = 0 /\ s[Len(r.path)] = Len(PathText(r))
         /\ \A k \in 0 .. Len(r.path) : s[k] \in Nat /\ s[k] <= s[Len(r.path)]
         /\ \A k \in 0 .. Len(r.path) - 1 :
              /\ r.path[k + 1] \in Piece /\ Len(r.path[k + 1].text) \in 1 .. 3
              /\ Holds(m, at + s[k], r.path[k + 1].text)
              /\ s[k + 1] = s[k] + Len(r.path[k + 1].text)
  <1> DEFINE S   == Char \ {SP, QuestionMark}
             t   == PieceTextsOf(r)
             n   == Len(r.path)
             sep == <<>>
             u   == Upto(t, sep)
  <1>1. /\ t \in Seq(Seq(S)) /\ Len(t) = n /\ n \in Nat /\ sep \in Seq(S)
        /\ \A i \in 1 .. n : t[i] = r.path[i].text /\ r.path[i] \in Piece
        /\ Len(PathText(r)) = Start(t, sep, n) /\ PathText(r) = u[n]
    BY PathIsText
  <1>2. Len(sep) = 0
    OBVIOUS
  <1>3. \A p \in Seq(S) : p \o sep = p
    <2> SUFFICES ASSUME NEW p \in Seq(S) PROVE p \o <<>> = p
      OBVIOUS
    <2> HIDE DEF S
    <2> QED
      BY ConcatEmptySeq
  <1> HIDE DEF S, t, sep
  <1>4. /\ Start(t, sep, 0) = 0 /\ \A k \in 0 .. Len(t) : Start(t, sep, k) \in Nat
        /\ \A k \in 1 .. Len(t) : t[k] \in Seq(S) /\ Len(t[k]) \in Nat
        /\ \A k \in 0 .. Len(t) - 1 :
             Start(t, sep, k + 1) = Start(t, sep, k) + Len(t[k + 1]) + Len(sep)
    BY <1>1, StartSteps
  <1>5. \A k \in 0 .. n : s[k] = Start(t, sep, k)
    BY DEF t, sep
  <1>6. ASSUME NEW k \in 0 .. n - 1
        PROVE  /\ t[k + 1] = r.path[k + 1].text /\ r.path[k + 1] \in Piece
               /\ Len(r.path[k + 1].text) \in 1 .. 3
               /\ s[k + 1] = s[k] + Len(r.path[k + 1].text)
    <2> DEFINE j == k + 1
    <2>1. j \in 1 .. n /\ j \in 0 .. n /\ k \in 0 .. n
      BY <1>1
    <2>2. t[j] = r.path[j].text /\ r.path[j] \in Piece
      BY <1>1, <2>1
    <2>3. Len(r.path[j].text) \in 1 .. 3
      <3> DEFINE p == r.path[j]
      <3>1. p \in Piece
        BY <2>2
      <3> HIDE DEF p
      <3>2. Len(p.text) \in 1 .. 3
        BY <3>1, PieceTexts
      <3> QED
        BY <3>2 DEF p
    <2>4. s[j] = s[k] + Len(t[j]) + Len(sep) /\ s[k] \in Nat
      BY <1>1, <1>4, <1>5, <2>1
    <2> DEFINE x == Len(r.path[j].text)
    <2>5. s[j] = s[k] + x + 0 /\ x \in 1 .. 3 /\ s[k] \in Nat
      BY <1>2, <2>2, <2>3, <2>4
    <2> HIDE DEF x, j
    <2>6. s[j] = s[k] + x
      BY <2>5
    <2> QED
      BY <2>2, <2>3, <2>6 DEF x, j
  <1>7. \A k \in 0 .. n : s[k] \in Nat /\ s[k] <= s[n]
    <2> SUFFICES ASSUME NEW k \in 0 .. n PROVE s[k] \in Nat /\ s[k] <= s[n]
      OBVIOUS
    <2> HIDE DEF n
    <2>1. n \in 0 .. n /\ n \in 0 .. Len(t) /\ k \in 0 .. Len(t) /\ k <= n
      BY <1>1
    <2>2. Start(t, sep, k) <= Start(t, sep, n)
      BY <1>1, <2>1, StartsGrow
    <2> QED
      BY <1>4, <1>5, <2>1, <2>2
  <1>8. ASSUME NEW k \in 0 .. n - 1 PROVE Holds(m, at + s[k], r.path[k + 1].text)
    <2> DEFINE i == n - 1
    <2>1. i \in 0 .. Len(t) - 1 /\ i + 1 = n /\ n \in 1 .. Len(t) /\ n # 0 /\ k \in 0 .. n
      <3> HIDE DEF n
      <3> QED
        BY <1>1, <1>8
    <2>2. u[n] = u[i] \o (t[n] \o sep)
      <3> HIDE DEF i, n
      <3>1. u[i + 1] = u[i] \o (t[i + 1] \o sep)
        BY <1>1, <2>1, UptoSteps
      <3> QED
        BY <2>1, <3>1
    <2>3. t[n] \o sep = t[n]
      BY <1>3, <1>4, <2>1
    <2>4. PathText(r) = Join(t, sep)
      BY <1>1, <2>2, <2>3 DEF Join
    <2> HIDE DEF n, i, u
    <2>5. /\ t \in Seq(Seq(S)) /\ sep \in Seq(S) /\ n = Len(t) /\ n # 0
          /\ Holds(m, at, Join(t, sep))
      BY <1>1, <2>1, <2>4
    <2>6. \A j \in 0 .. n - 1 :
            LET start == at + Start(t, sep, j)
            IN  /\ Holds(m, start, t[j + 1])
                /\ j < n - 1 => Holds(m, start + Len(t[j + 1]), sep)
      BY <2>5, JoinHolds
    <2>7. Holds(m, at + Start(t, sep, k), t[k + 1])
      BY <1>8, <2>6
    <2>8. s[k] = Start(t, sep, k) /\ t[k + 1] = r.path[k + 1].text
      BY <1>5, <1>6, <1>8, <2>1
    <2> QED
      BY <2>7, <2>8
  <1>9. s[0] = 0 /\ s[n] = Len(PathText(r))
    <2>1. 0 \in 0 .. n /\ n \in 0 .. n
      <3> HIDE DEF n
      <3> QED
        BY <1>1
    <2> QED
      BY <1>1, <1>4, <1>5, <2>1
  <1> QED
    BY <1>1, <1>6, <1>7, <1>8, <1>9

\* Where the pieces of the path begin.
PieceStarts(r) == [k \in 0 .. Len(r.path) |-> Start(PieceTextsOf(r), <<>>, k)]

\* The url of three words has not wrapped.
LEMMA UrlHasALength ==
  ASSUME IInv, RInv, pc = "decoding", request.words = 3
  PROVE  url.len \in Nat /\ url.str \in Nat /\ url.str + url.len <= Size
  <1> DEFINE a == url.str
             l == url.len
             w == WordLimit
  <1>1. Size \in Nat /\ l \in Int
    BY Fields DEF IInv, FieldsInv, Ref, url
  <1>2. a = WordStart /\ WordStart \in 1 .. Size /\ w \in 0 .. Size /\ a + l <= w
    BY DEF IInv, UrlInv, url
  <1>3. 0 <= l
    BY DEF RInv, LineInv, Split, url
  <1>4. a \in 1 .. Size
    BY <1>2
  <1> HIDE DEF a, l, w
  <1>5. l \in Nat /\ a \in Nat /\ a + l <= Size
    BY <1>1, <1>2, <1>3, <1>4
  <1> QED
    BY <1>5 DEF a, l

\* Where the decoding stands: w of the n pieces, which begin at s, are decoded, and rd
\* characters are read.
Halfway(s, w, rd, n) ==
  /\ n \in Nat /\ w \in 0 .. n /\ rd = s[w] /\ w <= rd /\ rd \in Nat
  /\ url.str \in Nat /\ url.len \in Nat /\ url.len = s[n]
  /\ \A i \in 1 .. w : mem[url.str + i - 1] = request.path[i].means
  /\ \A k \in 0 .. n : s[k] \in Nat /\ s[k] <= s[n]
  /\ \A k \in 0 .. n - 1 :
       /\ request.path[k + 1] \in Piece /\ Len(request.path[k + 1].text) \in 1 .. 3
       /\ s[k + 1] = s[k] + Len(request.path[k + 1].text)
       /\ k >= w => Holds(mem, url.str + s[k], request.path[k + 1].text)
  /\ mem[url.str + url.len] = SP
  /\ Size \in Nat /\ mem \in [0 .. Size -> 0 .. 255] /\ url.str + url.len <= Size
  /\ request \in Requests

\* The pieces that are not decoded yet are as they were sent, with a space behind them.
LEMMA DecodingState ==
  ASSUME IInv, RInv, pc = "decoding", request.words = 3, request.query = <<>>
  PROVE  Halfway(PieceStarts(request), decode.write_index, decode.read_index,
                 Len(request.path))
  <1> DEFINE r  == request
             s  == PieceStarts(r)
             w  == decode.write_index
             rd == decode.read_index
             n  == Len(r.path)
             a  == Len(r.method)
             b  == Len(UrlText(r))
             at == url.str
             o  == 0
  <1>0. s = [k \in 0 .. Len(r.path) |-> Start(PieceTextsOf(r), <<>>, k)]
    BY DEF PieceStarts
  <1>1. /\ r \in Requests /\ Size \in Nat /\ mem \in [0 .. Size -> 0 .. 255]
        /\ w \in Nat /\ rd \in Nat
    BY Fields DEF IInv, FieldsInv
  <1>2. /\ at = a + 1 /\ url.len = b /\ 0 <= url.len
    BY DEF RInv, LineInv, Split, UrlStart, url
  <1>3. /\ at \in Nat /\ url.len \in Nat /\ at + url.len <= WordLimit
        /\ WordLimit \in 0 .. Size
    <2>1. /\ at = WordStart /\ WordStart \in 1 .. Size /\ WordLimit \in 0 .. Size
          /\ at + url.len <= WordLimit
      BY DEF IInv, UrlInv, url
    <2>2. url.len \in Int
      BY DEF IInv, FieldsInv, Ref, url
    <2> HIDE DEF at
    <2> QED
      BY <1>1, <1>2, <2>1, <2>2
  <1>4. /\ Holds(Sent, at, UrlText(r)) /\ Sent[at + b] = SP
        /\ Holds(Sent, at, PathText(r)) /\ b = Len(PathText(r))
    <2> DEFINE m == Sent
               h == Len(HeaderText(r))
    <2>1. m = Memory(Message(r)) /\ h = Len(HeaderText(r))
      BY DEF Sent
    <2> HIDE DEF m, h
    <2>2. Holds(m, 0, FirstLine(r))
      BY <1>1, <2>1, FirstLineInMemory
    <2>3. Holds(m, a + 1, UrlText(r)) /\ m[a + 1 + b] = SP
      BY <1>1, <2>2, FirstLineIsText
    <2>4. UrlText(r) = PathText(r)
      BY <1>1, UrlIsText
    <2> QED
      BY <1>2, <2>3, <2>4 DEF m
  <1>5. /\ n \in Nat /\ s[n] = Len(PathText(r))
        /\ \A k \in 0 .. n : s[k] \in Nat /\ s[k] <= s[n]
        /\ \A k \in 0 .. n - 1 :
             /\ r.path[k + 1] \in Piece /\ Len(r.path[k + 1].text) \in 1 .. 3
             /\ Holds(Sent, at + s[k], r.path[k + 1].text)
             /\ s[k + 1] = s[k] + Len(r.path[k + 1].text)
    <2> DEFINE m == Sent
    <2>1. /\ at \in Int /\ Holds(m, at, PathText(r))
          /\ s = [k \in 0 .. Len(r.path) |-> Start(PieceTextsOf(r), <<>>, k)]
      BY <1>0, <1>3, <1>4
    <2> HIDE DEF m, at, s, w, rd, n
    <2> QED
      <3>1. /\ Len(r.path) \in Nat /\ s[0] = 0 /\ s[Len(r.path)] = Len(PathText(r))
            /\ \A k \in 0 .. Len(r.path) : s[k] \in Nat /\ s[k] <= s[Len(r.path)]
            /\ \A k \in 0 .. Len(r.path) - 1 :
                 /\ r.path[k + 1] \in Piece /\ Len(r.path[k + 1].text) \in 1 .. 3
                 /\ Holds(m, at + s[k], r.path[k + 1].text)
                 /\ s[k + 1] = s[k] + Len(r.path[k + 1].text)
        BY <1>1, <2>1, PiecesInMemory
      <3> QED
        BY <3>1 DEF m, n
  <1>6. /\ w \in 0 .. n /\ rd = s[w]
        /\ \A i \in 1 .. w : mem[at + i - 1] = r.path[i].means
    BY <1>0 DEF RInv, DecodeInv
  <1>7. w <= rd /\ \A x \in DOMAIN mem \ (at .. at + w - 1) : mem[x] = Sent[x]
    BY DEF IInv, DecodeKeepsTheRest
  <1>8. at + url.len <= Size
    <2> DEFINE e == WordLimit
               l == url.len
    <2>1. at \in Nat /\ l \in Nat /\ at + l <= e /\ e \in 0 .. Size /\ Size \in Nat
      BY <1>1, <1>3
    <2> HIDE DEF e, l, at
    <2> QED
      BY <2>1 DEF l
  <1> HIDE DEF at, s, w, rd, n
  <1>9. ASSUME NEW x \in Nat, w <= x, x <= url.len PROVE mem[at + x] = Sent[at + x]
    <2> DEFINE l == url.len
    <2>1. l \in Nat /\ at \in Nat /\ at + l <= Size /\ x <= l /\ w <= x /\ w \in Nat /\ Size \in Nat
      BY <1>1, <1>3, <1>8, <1>9
    <2> HIDE DEF l
    <2>2. at + x \in 0 .. Size /\ at + x \notin at .. at + w - 1
      BY <2>1
    <2> DEFINE y == at + x
    <2> HIDE DEF y
    <2>3. y \in DOMAIN mem \ (at .. at + w - 1)
      BY <1>1, <2>2 DEF y
    <2>4. mem[y] = Sent[y]
      BY <1>7, <2>3
    <2> QED
      BY <2>4 DEF y
  <1>10. mem[at + url.len] = SP
    <2>1. w <= url.len
      <3>1. rd <= url.len
        BY <1>2, <1>4, <1>5, <1>6
      <3> QED
        BY <1>1, <1>3, <1>7, <3>1
    <2>2. url.len \in Nat /\ url.len <= url.len
      BY <1>3
    <2>3. mem[at + url.len] = Sent[at + url.len]
      BY <1>9, <2>1, <2>2
    <2> QED
      BY <1>2, <1>4, <2>3
  <1>11. ASSUME NEW k \in 0 .. n - 1, k >= w
         PROVE  Holds(mem, at + s[k], r.path[k + 1].text)
    <2> DEFINE p == r.path[k + 1].text
               z == Len(p)
    <2>1. Holds(Sent, at + s[k], p) /\ z \in 1 .. 3 /\ s[k + 1] = s[k] + z
      BY <1>5, <1>11
    <2>2. k \in 0 .. n /\ k + 1 \in 0 .. n
      BY <1>5, <1>11
    <2>3. s[k] \in Nat /\ s[k + 1] <= url.len
      BY <1>2, <1>4, <1>5, <2>2
    <2>4. s[w] <= s[k]
      <3> DEFINE S   == Char \ {SP, QuestionMark}
                 t   == PieceTextsOf(r)
                 sep == <<>>
      <3>1. t \in Seq(Seq(S)) /\ Len(t) = n /\ sep \in Seq(S)
        BY <1>1, PathIsText DEF n
      <3>2. s[w] = Start(t, sep, w) /\ s[k] = Start(t, sep, k)
        BY <1>0, <1>6, <2>2 DEF n
      <3> HIDE DEF S, t, sep
      <3>3. w \in 0 .. Len(t) /\ k \in 0 .. Len(t) /\ w <= k
        BY <1>6, <1>11, <2>2, <3>1
      <3>4. Start(t, sep, w) <= Start(t, sep, k)
        BY <3>1, <3>3, StartsGrow
      <3> QED
        BY <3>2, <3>4
    <2> HIDE DEF p, z
    <2> SUFFICES ASSUME NEW i \in 1 .. z PROVE mem[at + s[k] + i - 1] = p[i]
      BY DEF Holds, p, z
    <2> DEFINE x == s[k] + i - 1
               y == s[k]
               l == url.len
               v == s[k + 1]
    <2>5. /\ y \in Nat /\ v <= l /\ v = y + z /\ z \in 1 .. 3 /\ l \in Nat /\ rd <= y /\ w <= rd
          /\ w \in Nat /\ rd \in Nat /\ at \in Nat /\ x = y + i - 1
      BY <1>1, <1>3, <1>6, <1>7, <2>1, <2>3, <2>4
    <2> HIDE DEF x, y, l, v
    <2>6. x \in Nat /\ w <= x /\ x <= l /\ at + y + i - 1 = at + x
      BY <2>5
    <2>7. mem[at + x] = Sent[at + x]
      BY <1>9, <2>6 DEF l
    <2>8. Sent[at + y + i - 1] = p[i]
      BY <2>1 DEF Holds, y, z, p
    <2> QED
      BY <2>6, <2>7, <2>8 DEF y
  <1> QED
    BY <1>1, <1>2, <1>3, <1>4, <1>5, <1>6, <1>7, <1>8, <1>10, <1>11
       DEF Halfway, at, s, w, rd, n

\* The piece at the place that is read, and the one byte behind the url.
LEMMA PieceIsRead ==
  ASSUME IInv, RInv, DecodeLoop, request.words = 3, request.query = <<>>
  PROVE  LET w == decode.write_index
             p == request.path[w + 1]
         IN  /\ Len(request.path) \in Nat /\ w \in 0 .. Len(request.path) - 1
             /\ p \in Piece /\ Read(0) = p.text[1]
             /\ Len(p.text) = 3 => Read(1) = p.text[2] /\ Read(2) = p.text[3]
             /\ p.text = <<Percent>> => ~IsEscape
  <1> DEFINE r  == request
             w  == decode.write_index
             rd == decode.read_index
             n  == Len(r.path)
             s  == PieceStarts(r)
             at == url.str
             l  == url.len
             text(k) == r.path[k + 1].text
  <1>1. pc = "decoding" /\ rd < l
    <2>1. pc = "decoding" /\ InUrl
      BY DEF DecodeLoop
    <2>2. l \in Nat
      BY <2>1, UrlHasALength
    <2> QED
      BY <2>1, <2>2 DEF InUrl, LessUnsigned
  <1>2. /\ n \in Nat /\ w \in 0 .. n /\ rd = s[w] /\ w <= rd /\ rd \in Nat
        /\ at \in Nat /\ l \in Nat /\ l = s[n]
        /\ \A k \in 0 .. n : s[k] \in Nat /\ s[k] <= s[n]
        /\ \A k \in 0 .. n - 1 :
             /\ r.path[k + 1] \in Piece /\ Len(text(k)) \in 1 .. 3
             /\ s[k + 1] = s[k] + Len(text(k))
             /\ k >= w => Holds(mem, at + s[k], text(k))
        /\ mem[at + l] = SP
        /\ r \in Requests
    <2>1. Halfway(s, w, rd, n)
      BY <1>1, DecodingState
    <2> HIDE DEF s, w, rd, n
    <2> QED
      BY <2>1 DEF Halfway
  <1> HIDE DEF s, n, at, l, rd, w
  <1>3. w \in 0 .. n - 1
    <2>1. w # n
      BY <1>1, <1>2
    <2> QED
      BY <1>2, <2>1
  <1>4. /\ Read(0) = mem[at + rd + 0] /\ Read(1) = mem[at + rd + 1] /\ Read(2) = mem[at + rd + 2]
    BY DEF Read, at, rd
  <1>5. ASSUME NEW k \in w .. n - 1
        PROVE  /\ r.path[k + 1] \in Piece /\ s[k] \in Nat /\ Len(text(k)) \in 1 .. 3
               /\ s[k + 1] = s[k] + Len(text(k))
               /\ \A i \in 1 .. Len(text(k)) : mem[at + s[k] + i - 1] = text(k)[i]
    <2>1. k \in 0 .. n - 1 /\ k \in 0 .. n /\ k >= w
      BY <1>2, <1>5
    <2>2. Holds(mem, at + s[k], text(k))
      BY <1>2, <2>1
    <2> QED
      BY <1>2, <2>1, <2>2 DEF Holds
  <1>6. w \in w .. n - 1
    BY <1>2, <1>3
  <1>7. /\ Read(0) = text(w)[1]
        /\ Len(text(w)) = 3 => Read(1) = text(w)[2] /\ Read(2) = text(w)[3]
    <2> DEFINE z == Len(text(w))
               t == text(w)
    <2>1. z \in 1 .. 3 /\ (\A i \in 1 .. z : mem[at + rd + i - 1] = t[i])
      BY <1>2, <1>5, <1>6
    <2> HIDE DEF z, t
    <2>2. mem[at + rd + 1 - 1] = t[1]
      BY <2>1
    <2>3. z = 3 => mem[at + rd + 2 - 1] = t[2] /\ mem[at + rd + 3 - 1] = t[3]
      BY <2>1
    <2>4. at + rd + 0 = at + rd + 1 - 1 /\ at + rd + 1 = at + rd + 2 - 1
          /\ at + rd + 2 = at + rd + 3 - 1
      BY <1>2
    <2> QED
      BY <1>4, <2>2, <2>3, <2>4 DEF z, t
  <1>8. ASSUME text(w) = <<Percent>> PROVE ~IsEscape
    <2> SUFFICES ASSUME isxdigit(Read(1)), isxdigit(Read(2)) PROVE FALSE
      BY DEF IsEscape
    <2>1. Read(1) \in HexDigits /\ Read(2) \in HexDigits /\ SP \notin HexDigits
          /\ Plus \notin HexDigits /\ Percent \notin HexDigits
      BY DEF isxdigit, HexDigits, Digits, UpperHex, LowerHex, SP, Plus, Percent
    <2> DEFINE j == w + 1
    <2>2. s[j] = rd + 1 /\ j \in 0 .. n /\ s[j] \in Nat
      <3>1. Len(text(w)) = 1
        BY <1>8
      <3>2. j \in 0 .. n
        BY <1>2, <1>3
      <3> QED
        BY <1>2, <1>5, <1>6, <3>1, <3>2
    <2>3. j # n
      <3> SUFFICES ASSUME j = n PROVE FALSE
        OBVIOUS
      <3>1. mem[at + (rd + 1)] = SP
        BY <1>2, <2>2
      <3>2. at + (rd + 1) = at + rd + 1
        BY <1>2
      <3> QED
        BY <1>4, <2>1, <3>1, <3>2
    <2>4. j \in w .. n - 1
      BY <1>2, <2>2, <2>3
    <2> DEFINE t == text(j)
               z == Len(t)
               p == r.path[j + 1]
    <2>5. /\ p \in Piece /\ z \in 1 .. 3 /\ s[j + 1] = s[j] + z
          /\ \A i \in 1 .. z : mem[at + s[j] + i - 1] = t[i]
      BY <1>5, <2>4
    <2>6. Read(1) = t[1]
      <3> HIDE DEF t, z, p, j
      <3>1. mem[at + s[j] + 1 - 1] = t[1]
        BY <2>5
      <3>2. at + s[j] + 1 - 1 = at + rd + 1
        BY <1>2, <2>2
      <3> QED
        BY <1>4, <3>1, <3>2
    <2>7. z = 1
      <3> HIDE DEF p, j, z
      <3>1. \/ \E c \in Char \ {SP, Plus, QuestionMark} : p.text = <<c>>
            \/ p.text = <<Plus>>
            \/ \E a \in HexDigits, b \in HexDigits : p.text = <<Percent, a, b>>
        BY <2>5, PieceTexts
      <3>2. p.text = t
        BY DEF p, t
      <3>3. t[1] # Plus /\ t[1] # Percent
        BY <2>1, <2>6
      <3> HIDE DEF t
      <3>4. \E c \in Char \ {SP, Plus, QuestionMark} : t = <<c>>
        BY <3>1, <3>2, <3>3
      <3> QED
        BY <3>4 DEF z
    <2> DEFINE k == j + 1
    <2>8. s[k] = rd + 2 /\ k \in 0 .. n /\ s[k] \in Nat
      <3>1. s[k] = s[j] + 1
        BY <2>5, <2>7
      <3>2. k \in 0 .. n
        BY <1>2, <2>4
      <3> HIDE DEF k, j
      <3> QED
        BY <1>2, <2>2, <3>1, <3>2
    <2>9. k # n
      <3> SUFFICES ASSUME k = n PROVE FALSE
        OBVIOUS
      <3>1. mem[at + (rd + 2)] = SP
        BY <1>2, <2>8
      <3>2. at + (rd + 2) = at + rd + 2
        BY <1>2
      <3> QED
        BY <1>4, <2>1, <3>1, <3>2
    <2>10. k \in w .. n - 1
      BY <1>2, <2>4, <2>8, <2>9
    <2>11. Read(2) = text(k)[1]
      <3>1. /\ Len(text(k)) \in 1 .. 3
            /\ \A i \in 1 .. Len(text(k)) : mem[at + s[k] + i - 1] = text(k)[i]
        BY <1>5, <2>10
      <3> DEFINE x == text(k)
                 y == Len(x)
      <3>2. y \in 1 .. 3 /\ \A i \in 1 .. y : mem[at + s[k] + i - 1] = x[i]
        BY <3>1
      <3> HIDE DEF x, y, k, j, t
      <3>3. mem[at + s[k] + 1 - 1] = x[1]
        BY <3>2
      <3>4. at + s[k] + 1 - 1 = at + rd + 2
        BY <1>2, <2>8
      <3>5. Read(2) = x[1]
        BY <1>4, <3>3, <3>4
      <3> QED
        BY <3>5 DEF x
    <2>12. j \in 1 .. n - 2 /\ j + 1 = k /\ j + 2 = k + 1
      BY <1>2, <2>2, <2>4, <2>9, <2>10
    <2>13. r.path[j].text = <<Percent>> =>
             ~(r.path[j + 1].text[1] \in HexDigits /\ r.path[j + 2].text[1] \in HexDigits)
      <3>1. IsSplit(r)
        BY <1>2, RequestFields
      <3> HIDE DEF j
      <3> QED
        BY <2>12, <3>1 DEF IsSplit, n
    <2>14. r.path[j].text = <<Percent>>
      BY <1>8
    <2>15. r.path[j + 1].text[1] = Read(1)
      BY <2>6
    <2>16. r.path[j + 2].text[1] = Read(2)
      BY <2>11, <2>12
    <2> QED
      BY <2>1, <2>13, <2>14, <2>15, <2>16
  <1>9. r.path[w + 1] \in Piece
    BY <1>5, <1>6
  <1> QED
    BY <1>2, <1>3, <1>7, <1>8, <1>9 DEF n, w

\* One more piece is decoded.
LEMMA PieceIsDecoded ==
  ASSUME IInv, RInv, DecodeLoop, request.words = 3, request.query = <<>>,
         NEW p, p = request.path[decode.write_index + 1], Put(p.means, Len(p.text))
  PROVE  DecodeInv'
  <1> DEFINE r  == request
             w  == decode.write_index
             rd == decode.read_index
             n  == Len(r.path)
             s  == PieceStarts(r)
             at == url.str
             l  == url.len
  <1>1. pc = "decoding" /\ rd < l
    <2>1. pc = "decoding" /\ InUrl
      BY DEF DecodeLoop
    <2>2. l \in Nat
      BY <2>1, UrlHasALength
    <2> QED
      BY <2>1, <2>2 DEF InUrl, LessUnsigned
  <1>2. /\ n \in Nat /\ w \in 0 .. n /\ rd = s[w] /\ w <= rd /\ rd \in Nat
        /\ at \in Nat /\ l \in Nat /\ l = s[n]
        /\ \A i \in 1 .. w : mem[at + i - 1] = r.path[i].means
        /\ \A k \in 0 .. n : s[k] \in Nat /\ s[k] <= s[n]
        /\ \A k \in 0 .. n - 1 : s[k + 1] = s[k] + Len(r.path[k + 1].text)
        /\ Size \in Nat /\ mem \in [0 .. Size -> 0 .. 255] /\ at + l <= Size
    <2>1. Halfway(s, w, rd, n)
      BY <1>1, DecodingState
    <2> HIDE DEF s, w, rd, n
    <2> QED
      BY <2>1 DEF Halfway
  <1>3. /\ pc' = pc /\ request' = request /\ msg' = msg /\ url' = url
        /\ mem' = [mem EXCEPT ![at + w] = p.means]
        /\ decode'.write_index = w + 1 /\ decode'.read_index = rd + Len(p.text)
    BY DEF Put, url
  <1> HIDE DEF s, n, at, l, rd, w
  <1>4. w \in 0 .. n - 1
    <2>1. w # n
      BY <1>1, <1>2
    <2> QED
      BY <1>2, <2>1
  <1>5. s[w + 1] = rd + Len(p.text) /\ w + 1 \in 0 .. n
    <2>1. p = r.path[w + 1]
      BY DEF w
    <2>2. w + 1 \in 0 .. n
      BY <1>2, <1>4
    <2> QED
      BY <1>2, <1>4, <2>1, <2>2
  <1>6. decode'.read_index = Start(PieceTextsOf(r), <<>>, w + 1)
    <2>1. s[w + 1] = Start(PieceTextsOf(r), <<>>, w + 1)
      BY <1>5 DEF s, n, PieceStarts
    <2> QED
      BY <1>3, <1>5, <2>1
  <1>7. at + w \in 0 .. Size
    BY <1>1, <1>2
  <1>8. ASSUME NEW i \in 1 .. w + 1 PROVE mem'[at + i - 1] = r.path[i].means
    <2>1. CASE i = w + 1
      <3>1. at + i - 1 = at + w /\ r.path[i] = p
        BY <1>2, <2>1 DEF w
      <3> QED
        BY <1>2, <1>3, <1>7, <3>1
    <2>2. CASE i # w + 1
      <3>1. i \in 1 .. w /\ at + i - 1 # at + w
        BY <1>2, <1>8, <2>2
      <3> DEFINE x == at + i - 1
      <3>2. mem'[x] = mem[x]
        <4>0. rd <= l
          BY <1>2
        <4>1. /\ x # at + w /\ x = at + i - 1 /\ i \in 1 .. w /\ w \in Nat /\ w <= rd
              /\ rd \in Nat /\ l \in Nat /\ at \in Nat /\ Size \in Nat /\ at + l <= Size
          BY <1>2, <3>1
        <4> HIDE DEF x
        <4>2. x # at + w /\ x \in 0 .. Size
          BY <4>0, <4>1
        <4> QED
          BY <1>2, <1>3, <4>2
      <3> QED
        BY <1>2, <3>1, <3>2
    <2> QED
      BY <2>1, <2>2
  <1> QED
    BY <1>1, <1>3, <1>5, <1>6, <1>8 DEF DecodeInv, n, at

\* The loop ends when all pieces are decoded.
LEMMA AllPiecesAreDecoded ==
  ASSUME IInv, RInv, DecodeEnd, request.words = 3, request.query = <<>>
  PROVE  DecodeInv'
  <1> DEFINE r  == request
             w  == decode.write_index
             rd == decode.read_index
             n  == Len(r.path)
             s  == PieceStarts(r)
             at == url.str
             l  == url.len
  <1>1. /\ pc = "decoding" /\ (rd >= l \/ w >= l) /\ pc' = "decoded"
        /\ request' = request /\ msg' = msg /\ decode' = decode /\ url' = url
        /\ mem' = [mem EXCEPT ![at + w] = NUL]
    <2>1. /\ pc = "decoding" /\ ~InUrl /\ pc' = "decoded"
          /\ request' = request /\ msg' = msg /\ decode' = decode /\ url' = url
          /\ mem' = [mem EXCEPT ![at + w] = NUL]
      BY DEF DecodeEnd, url
    <2>2. rd \in Nat /\ w \in Nat /\ l \in Nat
      BY <2>1, UrlHasALength DEF IInv, FieldsInv
    <2>3. ~(rd < l /\ w < l)
      BY <2>1, <2>2 DEF InUrl, LessUnsigned
    <2> HIDE DEF rd, w, l
    <2>4. rd >= l \/ w >= l
      BY <2>2, <2>3
    <2> QED
      BY <2>1, <2>4
  <1>2. /\ n \in Nat /\ w \in 0 .. n /\ rd = s[w] /\ w <= rd /\ rd \in Nat
        /\ at \in Nat /\ l \in Nat /\ l = s[n]
        /\ \A i \in 1 .. w : mem[at + i - 1] = r.path[i].means
        /\ \A k \in 0 .. n : s[k] \in Nat /\ s[k] <= s[n]
        /\ \A k \in 0 .. n - 1 : /\ s[k + 1] = s[k] + Len(r.path[k + 1].text)
                                 /\ Len(r.path[k + 1].text) \in 1 .. 3
        /\ Size \in Nat /\ mem \in [0 .. Size -> 0 .. 255] /\ at + l <= Size
    <2>1. Halfway(s, w, rd, n)
      BY <1>1, DecodingState
    <2> HIDE DEF s, w, rd, n
    <2> QED
      BY <2>1 DEF Halfway
  <1>3. rd = Start(PieceTextsOf(r), <<>>, w)
    BY <1>1 DEF RInv, DecodeInv
  <1> HIDE DEF s, n, at, l, rd
  <1>4. w = n
    <2> SUFFICES ASSUME w # n PROVE FALSE
      OBVIOUS
    <2> HIDE DEF w
    <2>1. w \in 0 .. n - 1 /\ w + 1 \in 0 .. n
      BY <1>2
    <2> DEFINE x == s[w]
               y == s[w + 1]
               z == Len(r.path[w + 1].text)
    <2>2. y = x + z /\ z \in 1 .. 3 /\ y <= l /\ x = rd /\ x \in Nat /\ y \in Nat
      BY <1>2, <2>1
    <2>3. rd >= l \/ w >= l
      BY <1>1
    <2>4. w <= rd /\ w \in Nat /\ l \in Nat
      BY <1>2
    <2> HIDE DEF x, y, z
    <2> QED
      BY <2>2, <2>3, <2>4
  <1>5. ASSUME NEW i \in 1 .. w PROVE mem'[at + i - 1] = r.path[i].means
    <2> HIDE DEF w
    <2> DEFINE x == at + i - 1
    <2>1. x # at + w /\ x \in 0 .. Size /\ i \in 1 .. w
      <3>1. rd <= l
        BY <1>2
      <3>2. /\ w \in Nat /\ w <= rd /\ rd \in Nat /\ l \in Nat /\ at \in Nat /\ Size \in Nat
            /\ at + l <= Size /\ i \in 1 .. w /\ x = at + i - 1
        BY <1>2, <1>5
      <3> HIDE DEF x
      <3> QED
        BY <3>1, <3>2
    <2>2. mem[x] = r.path[i].means
      BY <1>2
    <2> HIDE DEF x
    <2>3. mem'[x] = mem[x]
      BY <1>1, <1>2, <2>1
    <2> QED
      BY <2>2, <2>3 DEF x
  <1>6. mem'[at + w] = NUL
    <2>1. at + w \in 0 .. Size
      <3> HIDE DEF w
      <3>1. rd <= l
        BY <1>2
      <3> QED
        BY <1>2, <3>1
    <2> QED
      BY <1>1, <1>2, <2>1
  <1> QED
    BY <1>1, <1>2, <1>3, <1>4, <1>5, <1>6 DEF DecodeInv, n, at, rd

\* The iterations of url_decode and its end.
LEMMA url_decodeKeepsRInv ==
  ASSUME IInv, RInv, IInv', url_decode
  PROVE  RInv'
  <1>1. CASE DecodeStuck
    BY <1>1, StutterKeepsRInv DEF DecodeStuck
  <1>2. CASE DecodeAstray
    <2>1. /\ pc = "decoding" /\ InUrl /\ ~ReadsCopy /\ pc' = "astray" /\ UNCHANGED request
      BY <1>2 DEF DecodeAstray
    <2>2. request.words # 3
      <3> SUFFICES ASSUME request.words = 3 PROVE FALSE
        OBVIOUS
      <3> DEFINE a  == url.str
                 l  == url.len
                 rd == decode.read_index
      <3>1. l \in Nat /\ a \in Nat /\ a + l <= Size
        BY <2>1, UrlHasALength
      <3>2. rd \in Nat /\ Size \in Nat
        BY <2>1, Fields DEF IInv, FieldsInv
      <3>3. rd < l
        BY <2>1, <3>1 DEF InUrl, LessUnsigned
      <3>4. ~(a + rd <= Size)
        BY <2>1 DEF ReadsCopy
      <3> HIDE DEF a, l, rd
      <3> QED
        BY <3>1, <3>2, <3>3, <3>4
    <2> QED
      BY <2>1, <2>2 DEF RInv, LineInv, ReadInv, VisitInv, StayInv, DecodeInv, Split
  <1>3. CASE ~DecodeStuck /\ ~DecodeAstray
    <2>1. /\ pc = "decoding" /\ pc' \in {"decoding", "decoded"} /\ UNCHANGED <<request, msg, loop>>
      BY <1>3 DEF url_decode, DecodePercent, DecodePlus, DecodePlain, DecodeEnd, DecodeLoop, Put
    <2>2. LineInv' /\ ReadInv' /\ VisitInv' /\ StayInv'
      BY <2>1 DEF RInv, LineInv, ReadInv, VisitInv, StayInv, UrlStart, Split
    <2>3. DecodeInv'
      <3> SUFFICES ASSUME request.words = 3, request.query = <<>> PROVE DecodeInv'
        BY <2>1 DEF DecodeInv
      <3>1. CASE DecodeEnd
        BY <3>1, AllPiecesAreDecoded
      <3>2. CASE DecodeLoop
        <4> DEFINE p == request.path[decode.write_index + 1]
        <4>1. /\ p \in Piece /\ Read(0) = p.text[1]
              /\ Len(p.text) = 3 => Read(1) = p.text[2] /\ Read(2) = p.text[3]
              /\ p.text = <<Percent>> => ~IsEscape
          BY <3>2, PieceIsRead
        <4> HIDE DEF p
        <4>2. \/ \E c \in Char \ {SP, Plus, QuestionMark} : p.text = <<c>> /\ p.means = c
              \/ p.text = <<Plus>> /\ p.means = SP
              \/ \E a \in HexDigits, b \in HexDigits :
                   p.text = <<Percent, a, b>> /\ p.means = Unescaped(a, b)
          BY <4>1, PieceTexts
        <4>3. Plus # Percent
          BY DEF Plus, Percent
        <4>4. Put(p.means, Len(p.text))
          <5>1. CASE \E c \in Char \ {SP, Plus, QuestionMark} : p.text = <<c>> /\ p.means = c
            <6>1. PICK c \in Char \ {SP, Plus, QuestionMark} : p.text = <<c>> /\ p.means = c
              BY <5>1
            <6>2. Len(p.text) = 1 /\ Read(0) = c /\ c # Plus /\ p.means = c
              BY <4>1, <6>1
            <6>3. c = Percent => ~IsEscape
              BY <4>1, <6>1
            <6>4. DecodePlain
              BY <1>3, <3>2, <6>2, <6>3
                 DEF url_decode, DecodePercent, DecodePlus, DecodeEnd, DecodeLoop
            <6> QED
              BY <6>2, <6>4 DEF DecodePlain
          <5>2. CASE p.text = <<Plus>> /\ p.means = SP
            <6>1. Len(p.text) = 1 /\ Read(0) = Plus
              BY <4>1, <5>2
            <6>2. DecodePlus
              BY <1>3, <3>2, <4>3, <6>1
                 DEF url_decode, DecodePercent, DecodePlain, DecodeEnd, DecodeLoop
            <6> QED
              BY <5>2, <6>1, <6>2 DEF DecodePlus
          <5>3. CASE \E a \in HexDigits, b \in HexDigits :
                       p.text = <<Percent, a, b>> /\ p.means = Unescaped(a, b)
            <6>1. PICK a \in HexDigits, b \in HexDigits :
                         p.text = <<Percent, a, b>> /\ p.means = Unescaped(a, b)
              BY <5>3
            <6>2. Len(p.text) = 3 /\ Read(0) = Percent /\ Read(1) = a /\ Read(2) = b
              BY <4>1, <6>1
            <6>3. DecodePercent
              BY <1>3, <3>2, <4>3, <6>2
                 DEF url_decode, DecodePlus, DecodePlain, DecodeEnd, DecodeLoop
            <6> QED
              BY <6>1, <6>2, <6>3 DEF DecodePercent
          <5> QED
            BY <4>2, <5>1, <5>2, <5>3
        <4>5. p = request.path[decode.write_index + 1]
          BY DEF p
        <4> QED
          BY <3>2, <4>4, <4>5, PieceIsDecoded
      <3> QED
        BY <1>3, <3>1, <3>2 DEF url_decode, DecodePercent, DecodePlus, DecodePlain
    <2> QED
      BY <2>2, <2>3 DEF RInv
  <1> QED
    BY <1>1, <1>2, <1>3

\* Every step keeps the invariant.
LEMMA RInvIsInductive ==
  ASSUME IInv, RInv, IInv', [Next]_vars
  PROVE  RInv'
  <1>1. CASE UNCHANGED vars
    BY <1>1, StutterKeepsRInv
  <1>2. ASSUME NEW r \in Requests, parse_InboundMessage(r) PROVE RInv'
    BY <1>2, ParseKeepsRInv
  <1>3. CASE Working
    <2>1. CASE decompose_header
      BY <2>1, DecomposeKeepsRInv
    <2>2. CASE ParseChunk
      BY <2>2, ParseChunkKeepsRInv
    <2>3. CASE AfterQuery
      BY <2>3, AfterQueryKeepsRInv
    <2>4. CASE decompose_message
      BY <2>4, PhaseKeepsRInv
    <2>5. CASE url_decode
      BY <2>5, url_decodeKeepsRInv
    <2> QED
      BY <1>3, <2>1, <2>2, <2>3, <2>4, <2>5 DEF Working
  <1>4. CASE DecodeUrl
    BY <1>4, PhaseKeepsRInv
  <1>5. CASE destroy_InboundHttpMessage
    BY <1>5, DestroyKeepsRInv
  <1>6. CASE Gone
    BY <1>6, StutterKeepsRInv DEF Gone
  <1> QED
    BY <1>1, <1>2, <1>3, <1>4, <1>5, <1>6 DEF Next

\* Both invariants hold in every state.
LEMMA RInvAlways == Spec => [](IInv /\ RInv)
  <1>1. Init => IInv /\ RInv
    BY InitHoldsIInv, IdleIsFine DEF Init
  <1>2. IInv /\ RInv /\ [Next]_vars => IInv' /\ RInv'
    BY IInvIsInductive, RInvIsInductive
  <1> QED
    BY <1>1, <1>2, PTL DEF Spec

-----------------------------------------------------------------------------
(* What the parser makes of a request.                                     *)

\* ReadableRequestsAreSurvived: a search that finds nothing kills the process, or leads it
\* behind its copy, only when the empty line, the options or the second parameter of a query
\* behind a path is missing.
THEOREM RequestReadableAreSurvived == Spec => []ReadableRequestsAreSurvived
  <1>1. IInv /\ RInv => ReadableRequestsAreSurvived
    BY DEF RInv, LineInv, ReadInv, Split, ReadableRequestsAreSurvived
  <1> QED
    BY <1>1, RInvAlways, PTL

\* FirstLineIsRead: the lengths decompose_header computes from the differences of pointers
\* are those of the words the client sent.
THEOREM RequestFirstLineIsRead == Spec => []FirstLineIsRead
  <1>1. ASSUME IInv, RInv PROVE FirstLineIsRead
    <2> SUFFICES ASSUME pc \in {"query", "options", "parsed"}, request.words = 3
                 PROVE  /\ msg.method = WordCode(request.method, methods_str)
                        /\ request.options # <<>> =>
                             msg.version = WordCode(request.version, versions_str)
                        /\ request.query = <<>> \/ PathText(request) = <<>> =>
                             TextOf(mem, msg.url) = UrlText(request)
      BY DEF FirstLineIsRead
    <2> DEFINE r    == request
               text == UrlText(r)
               at   == Len(r.method) + 1
    <2>1. r \in Requests /\ mem = Memory(Message(r)) /\ msg.url \in Ref
      BY <1>1, Fields DEF IInv, FieldsInv, CopyInv, Sent
    <2>2. /\ msg.method = WordCode(r.method, methods_str)
          /\ r.options # <<>> => msg.version = WordCode(r.version, versions_str)
          /\ msg.url.str = at
          /\ r.query = <<>> \/ PathText(r) = <<>> => msg.url.len = Len(text)
      BY <1>1 DEF RInv, LineInv, Split, UrlStart
    <2>3. ASSUME r.query = <<>> \/ PathText(r) = <<>> PROVE TextOf(mem, msg.url) = text
      <3>1. msg.url = [str |-> at, len |-> Len(text)]
        <4>1. msg.url = [str |-> msg.url.str, len |-> msg.url.len]
          BY <2>1 DEF Ref
        <4> HIDE DEF at, text
        <4> QED
          BY <2>2, <2>3, <4>1
      <3> DEFINE m == mem
                 h == Len(HeaderText(r))
      <3>2. m = Memory(Message(r)) /\ h = Len(HeaderText(r))
        BY <2>1
      <3> HIDE DEF m, h
      <3>3. Holds(m, 0, FirstLine(r))
        BY <2>1, <3>2, FirstLineInMemory
      <3>4. Holds(m, at, text) /\ Len(r.method) \in Nat
        BY <2>1, <3>3, FirstLineIsText
      <3>5. text \in Seq(Char \ {SP})
        BY <2>1, UrlIsText
      <3>6. at \in Int
        BY <3>4
      <3> HIDE DEF at, text
      <3>7. TextOf(m, [str |-> at, len |-> Len(text)]) = text
        BY <3>4, <3>5, <3>6, HoldsText
      <3> QED
        BY <3>1, <3>7 DEF m
    <2> QED
      BY <2>2, <2>3
  <1> QED
    BY <1>1, RInvAlways, PTL

\* EveryPartIsVisited: parse_options loses no part of a text behind the first that is not
\* empty, and takes no chunk that is not a part.
THEOREM RequestEveryPartIsVisited == Spec => []EveryPartIsVisited
  <1>1. ASSUME IInv, RInv PROVE EveryPartIsVisited
    <2> DEFINE parts  == Parts
               needle == ChunkSep(pc)
               first  == PartsStart
               last   == IF parts[Len(parts)] = <<>> THEN 2 ELSE 1
               n      == Len(parts)
               from   == IF pc = "query" THEN 0 ELSE 1
    <2> SUFFICES ASSUME pc \in {"query", "options"}, LoopDone,
                        pc = "query" => request.words = 3
                 PROVE  /\ \A k \in 1 .. n - 1 :
                             parts[k + 1] # <<>> => PartBehind(k) \in loop.visited
                        /\ loop.visited \subseteq {PartBehind(k) : k \in from .. n - 1}
      BY DEF EveryPartIsVisited
    <2>1. AtPart(loop, parts, first, needle) /\ loop.chunk >= loop.limit
          /\ request \in Requests
      BY <1>1 DEF RInv, VisitInv, LoopDone, IInv, FieldsInv
    <2>2. \E S : parts \in Seq(Seq(S)) /\ needle \in Seq(S)
      <3>1. CASE pc = "query"
        <4>1. parts = request.query /\ needle = <<Ampersand>>
          BY <3>1 DEF Parts, ChunkSep
        <4> HIDE DEF parts, needle
        <4> QED
          BY <2>1, <4>1, QueryIsText
      <3>2. CASE pc = "options"
        <4>1. parts = Lines(request) /\ needle = CRLF
          BY <3>2 DEF Parts, ChunkSep
        <4> HIDE DEF parts, needle
        <4> QED
          BY <2>1, <4>1, LinesAreTexts, LineEnd
      <3> QED
        BY <3>1, <3>2
    <2>3. first \in Nat
      <3>1. Len(request.method) \in Nat /\ Len(PathText(request)) \in Nat
        BY <2>1, FirstLineIsText, PathIsText, LenProperties
      <3> QED
        BY <3>1 DEF PartsStart
    <2>4. Len(needle) # 0
      <3>1. Len(needle) \in 1 .. 2
        BY SeparatorsHaveLength
      <3> HIDE DEF needle
      <3> QED
        BY <3>1
    <2>5. \A k : PartBehind(k)
                   = [str |-> first + Start(parts, needle, k), len |-> Len(parts[k + 1])]
      BY DEF PartBehind, Start
    <2>6. PICK S : parts \in Seq(Seq(S)) /\ needle \in Seq(S)
      BY <2>2
    <2> DEFINE locals == loop
    <2>7. AtPart(locals, parts, first, needle) /\ locals.chunk >= locals.limit
      BY <2>1
    <2> HIDE DEF parts, needle, first, locals
    <2>8. locals.visited
            = {[str |-> first + Start(parts, needle, j), len |-> Len(parts[j + 1])] :
               j \in 1 .. Len(parts) - (IF parts[Len(parts)] = <<>> THEN 2 ELSE 1)}
      BY <2>3, <2>4, <2>6, <2>7, LoopIsOver
    <2>9. n \in Nat /\ from \in 0 .. 1 /\ last \in 1 .. 2
      BY <2>6, LenProperties
    <2>10. loop.visited = {PartBehind(k) : k \in 1 .. n - last}
      BY <2>5, <2>8 DEF locals
    <2>11. last = 2 => parts[n] = <<>>
      OBVIOUS
    <2> HIDE DEF n, from, last
    <2>12. ASSUME NEW k \in 1 .. n - 1, parts[k + 1] # <<>> PROVE PartBehind(k) \in loop.visited
      <3>1. last = 2 => k # n - 1
        <4> SUFFICES ASSUME last = 2, k = n - 1 PROVE FALSE
          OBVIOUS
        <4>1. k + 1 = n
          BY <2>9
        <4> QED
          BY <2>11, <2>12, <4>1
      <3>2. k \in 1 .. n - last
        BY <2>9, <3>1
      <3> QED
        BY <2>10, <3>2
    <2>13. 1 .. n - last \subseteq from .. n - 1
      BY <2>9
    <2> QED
      BY <2>10, <2>12, <2>13
  <1> QED
    BY <1>1, RInvAlways, PTL

\* RefsStayInTheirPart: what parse_options stores of a line is in the header, and what it
\* stores of a query is in the second word.  So is the url, except that of a header with a
\* single space if its length has wrapped: of that one nothing is said.
THEOREM RequestRefsStayInTheirPart == Spec => []RefsStayInTheirPart
  <1>1. ASSUME IInv, RInv PROVE RefsStayInTheirPart
    <2> SUFFICES ASSUME pc \in {"query", "options", "parsed"}
                 PROVE  /\ \A i \in DOMAIN msg.header_options :
                             msg.header_options[i] # NoRef =>
                               Within(msg.header_options[i], 0, msg.body.str)
                        /\ \A i \in 0 .. msg.parameters.values.count - 1 :
                             Within(msg.parameters.values.data[i], WordStart, WordLimit)
                        /\ msg.url.len >= 0 \/ SecondSpace # NULL =>
                             0 <= msg.url.len /\ Within(msg.url, WordStart, WordLimit)
                        /\ msg.body.str + msg.body.len = Len(Message(request))
      BY DEF RefsStayInTheirPart
    <2>1. request \in Requests /\ DOMAIN msg.header_options = HTTPHeaderRequestOption
      BY <1>1 DEF IInv, FieldsInv
    <2>2. \A i \in HTTPHeaderRequestOption :
            msg.header_options[i] # NoRef => Within(msg.header_options[i], 0, msg.body.str)
      BY <1>1 DEF RInv, StayInv
    <2>3. \A i \in 0 .. msg.parameters.values.count - 1 :
            Within(msg.parameters.values.data[i], WordStart, WordLimit)
      <3>1. MapShape(msg.parameters, Seq(0 .. 255), InWord)
        BY <1>1 DEF RInv, StayInv
      <3>2. \A i \in 0 .. msg.parameters.values.count - 1 : msg.parameters.values.data[i] \in InWord
        BY <3>1 DEF MapShape, VectorShape
      <3> QED
        BY <3>2 DEF InWord
    <2>4. /\ msg.url.str = WordStart /\ msg.url.str + msg.url.len <= WordLimit
          /\ msg.url.len < 0 => SecondSpace = NULL
          /\ WordStart \in 1 .. Size /\ msg.url.len \in Int
      BY <1>1 DEF IInv, UrlInv, FieldsInv, Ref
    <2>5. msg.url.len >= 0 \/ SecondSpace # NULL =>
            0 <= msg.url.len /\ Within(msg.url, WordStart, WordLimit)
      <3> DEFINE l == msg.url.len
      <3>1. l \in Int /\ (l < 0 => SecondSpace = NULL)
        BY <2>4
      <3> HIDE DEF l
      <3>2. l >= 0 \/ SecondSpace # NULL => 0 <= l
        BY <3>1
      <3>3. Within(msg.url, WordStart, WordLimit)
        BY <2>4 DEF Within
      <3> QED
        BY <3>2, <3>3 DEF l
    <2>6. /\ msg.body.str \in 1 .. Size /\ msg.body.len = Size - msg.body.str
          /\ Len(Message(request)) \in Nat
      BY <1>1, <2>1, MessageIsText DEF IInv, BodyInv
    <2>7. msg.body.str + msg.body.len = Len(Message(request))
      <3> DEFINE b == msg.body.str
                 l == msg.body.len
                 n == Len(Message(request))
      <3>1. b \in 1 .. n /\ l = n - b /\ n \in Nat
        BY <2>6 DEF Size
      <3> HIDE DEF b, l, n
      <3>2. b + l = n
        BY <3>1
      <3> QED
        BY <3>2 DEF b, l, n
    <2> QED
      BY <2>1, <2>2, <2>3, <2>5, <2>7
  <1> QED
    BY <1>1, RInvAlways, PTL

\* UrlIsDecoded: what url_decode leaves in place is what the pieces of the path mean.
THEOREM RequestUrlIsDecoded == Spec => []UrlIsDecoded
  <1>1. ASSUME IInv, RInv PROVE UrlIsDecoded
    <2> DEFINE r == request
               w == decode.write_index
    <2> SUFFICES ASSUME pc = "decoded", r.query = <<>>, r.words = 3
                 PROVE  /\ TextOf(mem, [str |-> url.str, len |-> w])
                             = [i \in DOMAIN r.path |-> r.path[i].means]
                        /\ mem[url.str + w] = NUL
      BY DEF UrlIsDecoded
    <2>1. /\ w = Len(r.path) /\ mem[url.str + w] = NUL
          /\ \A i \in 1 .. w : mem[url.str + i - 1] = r.path[i].means
      BY <1>1 DEF RInv, DecodeInv
    <2>2. DOMAIN r.path = 1 .. w
      <3>1. r \in Requests
        BY <1>1 DEF IInv, FieldsInv
      <3>2. r.path \in Seq(Piece)
        BY <3>1, RequestFields
      <3> DEFINE p == r.path
      <3> HIDE DEF p
      <3>3. DOMAIN p = 1 .. Len(p)
        BY <3>2, LenProperties DEF p
      <3> QED
        BY <2>1, <3>3 DEF p
    <2> QED
      BY <2>1, <2>2 DEF TextOf
  <1> QED
    BY <1>1, RInvAlways, PTL
=============================================================================
