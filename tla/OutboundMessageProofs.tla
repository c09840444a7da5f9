------------------------ MODULE OutboundMessageProofs ------------------------
(***************************************************************************)
(* The theorems of OutboundMessage, for all options, lengths, status codes *)
(* and blocks: header_len is what the loop of compose_message writes for   *)
(* the options, and every block of the heap has one owner.                 *)
(***************************************************************************)
EXTENDS OutboundMessage, DataLemmas

-----------------------------------------------------------------------------
(* The writer of the options.                                              *)

\* The positions of the writer before each option and behind the last.
Steps(f, options) ==
  /\ f \in [0 .. options.values.count -> Nat] /\ f[0] = 0
  /\ \A i \in 0 .. options.values.count - 1 : f[i + 1] = f[i] + WrittenFor(options, i)

LEMMA WriterSteps ==
  ASSUME NEW options, options.values.count \in Nat,
         \A i \in 0 .. options.values.count - 1 : WrittenFor(options, i) \in Nat
  PROVE  \E f : Steps(f, options) /\ Writer(options) = f[options.values.count]
  <1> DEFINE n == options.values.count
             N == 0 .. n
             Loop(f) == f = [i \in N |-> IF i = 0 THEN 0 ELSE f[i - 1] + WrittenFor(options, i - 1)]
             after == CHOOSE f : Loop(f)
             step == [p \in Nat \X Nat |->
                        IF p[1] < n THEN p[2] + WrittenFor(options, p[1]) ELSE p[2]]
  <1>1. step \in [Nat \X Nat -> Nat]
    OBVIOUS
  <1>2. PICK f \in [Nat -> Nat] : Iterates(f, 0, step)
    <2> HIDE DEF step
    <2>1. 0 \in Nat
      OBVIOUS
    <2> QED
      BY <1>1, <2>1, Recursion
  <1>3. \A i \in 0 .. n - 1 : f[i + 1] = f[i] + WrittenFor(options, i)
    <2> TAKE i \in 0 .. n - 1
    <2>1. i \in Nat /\ i < n /\ f[i] \in Nat
      BY <1>2
    <2>2. step[<<i, f[i]>>] = f[i] + WrittenFor(options, i)
      BY <2>1
    <2> QED
      BY <1>2, <2>1, <2>2 DEF Iterates
  <1> DEFINE g == [i \in N |-> f[i]]
  <1> HIDE DEF step
  <1>4. g \in [N -> Nat] /\ g = [i \in N |-> g[i]]
    BY <1>2
  <1>5. \A i \in N : g[i] = IF i = 0 THEN 0 ELSE g[i - 1] + WrittenFor(options, i - 1)
    <2> TAKE i \in N
    <2>1. CASE i = 0
      BY <1>2, <2>1 DEF Iterates
    <2>2. CASE i # 0
      <3>1. i - 1 \in 0 .. n - 1 /\ i - 1 \in N /\ i - 1 + 1 = i
        BY <2>2
      <3> QED
        BY <1>3, <2>2, <3>1
    <2> QED
      BY <2>1, <2>2
  <1> HIDE DEF g
  <1>6. Loop(g)
    BY <1>4, <1>5
  <1>7. Loop(after)
    <2> HIDE DEF Loop
    <2> QED
      BY <1>6
  <1>8. Writer(options) = after[n]
    BY DEF Writer
  <1> HIDE DEF after
  <1>9. \A i \in N : after[i] = IF i = 0 THEN 0 ELSE after[i - 1] + WrittenFor(options, i - 1)
    BY <1>7
  <1> HIDE DEF Loop
  <1>10. after[0] = 0 /\ \A i \in 0 .. n - 1 : after[i + 1] = after[i] + WrittenFor(options, i)
    <2>1. 0 \in N
      OBVIOUS
    <2>2. ASSUME NEW i \in 0 .. n - 1 PROVE i + 1 \in N /\ i + 1 # 0 /\ i + 1 - 1 = i
      OBVIOUS
    <2> HIDE DEF N
    <2> QED
      BY <1>9, <2>1, <2>2
  <1>11. after = [i \in N |-> IF i = 0 THEN 0 ELSE after[i - 1] + WrittenFor(options, i - 1)]
    BY <1>7 DEF Loop
  <1>12. \A i \in Nat : i \in N => after[i] \in Nat
    <2> DEFINE Q == {i \in Nat : i \in N => after[i] \in Nat}
    <2>1. 0 \in Q
      BY <1>10
    <2>2. ASSUME NEW i \in Nat, i \in Q PROVE i + 1 \in Q
      <3>1. i + 1 \in N => i \in N /\ i \in 0 .. n - 1
        OBVIOUS
      <3> QED
        BY <1>10, <2>2, <3>1
    <2>3. Nat \subseteq Q
      <3> HIDE DEF Q
      <3> QED
        BY <2>1, <2>2, Induction
    <2> QED
      BY <2>3
  <1>13. after \in [N -> Nat]
    <2>1. after = [i \in N |-> after[i]]
      <3> DEFINE d == [i \in N |-> IF i = 0 THEN 0 ELSE after[i - 1] + WrittenFor(options, i - 1)]
      <3>1. d = [i \in N |-> d[i]]
        OBVIOUS
      <3> HIDE DEF d
      <3>2. after = d
        BY <1>11 DEF d
      <3> QED
        BY <3>1, <3>2
    <2>2. \A i \in N : i \in Nat
      OBVIOUS
    <2> HIDE DEF N
    <2> QED
      BY <1>12, <2>1, <2>2
  <1> QED
    BY <1>8, <1>10, <1>13 DEF Steps

\* Writers of the same options stand at the same place.
LEMMA SameSteps ==
  ASSUME NEW o, NEW f, Steps(f, o), NEW t, NEW g, Steps(g, t),
         NEW n \in Nat, n <= o.values.count, n <= t.values.count,
         o.values.count \in Nat, t.values.count \in Nat,
         \A i \in 0 .. n - 1 : WrittenFor(o, i) = WrittenFor(t, i)
  PROVE  f[n] = g[n]
  <1> DEFINE Q == {i \in Nat : i <= n => f[i] = g[i]}
  <1>1. 0 \in Q
    BY DEF Steps
  <1>2. ASSUME NEW i \in Nat, i \in Q PROVE i + 1 \in Q
    <2> SUFFICES ASSUME i + 1 <= n PROVE f[i + 1] = g[i + 1]
      OBVIOUS
    <2>1. /\ i \in 0 .. n - 1 /\ i \in 0 .. o.values.count - 1 /\ i \in 0 .. t.values.count - 1
          /\ f[i] = g[i]
      BY <1>2
    <2> QED
      BY <2>1 DEF Steps
  <1>3. Nat \subseteq Q
    <2> HIDE DEF Q
    <2> QED
      BY <1>1, <1>2, Induction
  <1> QED
    BY <1>3

\* A writer of options that differ at one place is ahead by the difference behind it.
LEMMA ShiftedSteps ==
  ASSUME NEW o, NEW f, Steps(f, o), NEW t, NEW g, Steps(g, t),
         o.values.count \in Nat, t.values.count = o.values.count,
         NEW p \in 0 .. o.values.count - 1,
         \A i \in 0 .. o.values.count - 1 : WrittenFor(o, i) \in Nat /\ WrittenFor(t, i) \in Nat,
         \A i \in 0 .. o.values.count - 1 : i # p => WrittenFor(o, i) = WrittenFor(t, i)
  PROVE  g[o.values.count] = f[o.values.count] - WrittenFor(o, p) + WrittenFor(t, p)
  <1> DEFINE n == o.values.count
             d == WrittenFor(t, p) - WrittenFor(o, p)
             Q == {i \in Nat : p + i + 1 <= n => g[p + i + 1] = f[p + i + 1] + d}
  <1>1. p \in Nat /\ f[p] = g[p]
    BY SameSteps
  <1>2. 0 \in Q
    <2>1. f[p + 1] = f[p] + WrittenFor(o, p) /\ g[p + 1] = g[p] + WrittenFor(t, p)
      BY DEF Steps
    <2>2. p \in 0 .. n /\ f \in [0 .. n -> Nat]
      BY DEF Steps
    <2>3. f[p] \in Nat /\ WrittenFor(o, p) \in Nat /\ WrittenFor(t, p) \in Nat
      BY <2>2
    <2>4. p + 0 + 1 = p + 1
      OBVIOUS
    <2> QED
      BY <1>1, <2>1, <2>3, <2>4
  <1>3. ASSUME NEW i \in Nat, i \in Q PROVE i + 1 \in Q
    <2> SUFFICES ASSUME p + (i + 1) + 1 <= n PROVE g[p + (i + 1) + 1] = f[p + (i + 1) + 1] + d
      OBVIOUS
    <2> DEFINE k == p + i + 1
    <2>1. k \in 0 .. n - 1 /\ k # p /\ k <= n /\ p + (i + 1) + 1 = k + 1
      BY <1>1
    <2>2. g[k] = f[k] + d
      BY <1>3, <2>1
    <2> HIDE DEF k
    <2>3. f[k + 1] = f[k] + WrittenFor(o, k) /\ g[k + 1] = g[k] + WrittenFor(t, k)
      BY <2>1 DEF Steps
    <2>4. WrittenFor(o, k) = WrittenFor(t, k) /\ WrittenFor(o, k) \in Nat
      BY <2>1
    <2>5. k \in 0 .. n /\ f \in [0 .. n -> Nat]
      BY <2>1 DEF Steps
    <2>6. f[k] \in Nat
      BY <2>5
    <2>7. d \in Int
      OBVIOUS
    <2> HIDE DEF d
    <2> QED
      BY <2>1, <2>2, <2>3, <2>4, <2>6, <2>7
  <1>4. Nat \subseteq Q
    <2> HIDE DEF Q
    <2> QED
      BY <1>2, <1>3, Induction
  <1>5. n - p - 1 \in Nat /\ p + (n - p - 1) + 1 = n
    BY <1>1
  <1>6. g[n] = f[n] + d
    <2>1. n - p - 1 \in Q
      BY <1>4, <1>5
    <2> HIDE DEF d
    <2> QED
      BY <1>5, <2>1
  <1>7. /\ n \in 0 .. n /\ f \in [0 .. n -> Nat]
        /\ WrittenFor(o, p) \in Nat /\ WrittenFor(t, p) \in Nat
    BY DEF Steps
  <1> QED
    BY <1>6, <1>7

\* What the options of a live message are.
LEMMA OptionsOfMap ==
  ASSUME NEW o, MapShape(o, Option, String)
  PROVE  /\ o.values.count \in Nat /\ o.keys.count = o.values.count
         /\ \A i \in 0 .. o.values.count - 1 :
              /\ o.values.data[i] \in String /\ o.keys.data[i] \in Option
              /\ WrittenFor(o, i) \in Nat
  <1>1. /\ o.values.count \in Nat /\ o.keys.count = o.values.count
        /\ \A i \in 0 .. o.values.count - 1 : o.values.data[i] \in String /\ o.keys.data[i] \in Option
    BY MapParts
  <1>2. \A x \in Option, s \in String : OptionLen(x, s.len) \in Nat
    BY OutboundAssumption DEF OptionLen, String
  <1> QED
    BY <1>1, <1>2 DEF WrittenFor

LEMMA WriterOfMap ==
  ASSUME NEW o, MapShape(o, Option, String)
  PROVE  \E f : Steps(f, o) /\ Writer(o) = f[o.values.count] /\ Writer(o) \in Nat
  <1>1. PICK f : Steps(f, o) /\ Writer(o) = f[o.values.count]
    BY OptionsOfMap, WriterSteps
  <1>2. o.values.count \in 0 .. o.values.count
    BY OptionsOfMap
  <1>3. f[o.values.count] \in Nat
    BY <1>1, <1>2 DEF Steps
  <1> QED
    BY <1>1, <1>3

LEMMA WriterOfNoOptions ==
  ASSUME NEW o, o.values.count = 0
  PROVE  Writer(o) = 0
  <1>1. PICK f : Steps(f, o) /\ Writer(o) = f[o.values.count]
    BY WriterSteps
  <1> QED
    BY <1>1 DEF Steps

\* What storing an option adds to what is written for all of them.
LEMMA WriterAfterSet ==
  ASSUME NEW o, MapShape(o, Option, String), NEW option \in Option, NEW cpy \in String
  PROVE  LET old == IF Present(o, option) THEN OptionLen(option, Map_get(o, option).len) ELSE 0
             t   == Map_set(o, option, cpy)
         IN  /\ Writer(t) = Writer(o) - old + OptionLen(option, cpy.len)
             /\ MapShape(t, Option, String) /\ Writer(t) \in Nat
  <1> DEFINE t == Map_set(o, option, cpy)
             n == o.values.count
  <1>1. PICK f : Steps(f, o) /\ Writer(o) = f[n] /\ Writer(o) \in Nat
    BY WriterOfMap
  <1>2. n \in Nat /\ n = o.keys.count /\ \A i \in 0 .. n - 1 : WrittenFor(o, i) \in Nat
    BY OptionsOfMap
  <1>3. CASE Present(o, option)
    <2> DEFINE p == First(o, option)
    <2>1. /\ MapShape(t, Option, String) /\ t.keys = o.keys
          /\ \A i \in 0 .. o.keys.count - 1 :
               t.values.data[i] = IF i = First(o, option) THEN cpy ELSE o.values.data[i]
      BY <1>3, MapSetPresent
    <2>2. /\ p \in 0 .. n - 1 /\ o.keys.data[p] = option
          /\ Map_get(o, option) = o.values.data[p]
      BY <1>2, <1>3, FirstPlace
    <2> HIDE DEF t, p
    <2>3. t.values.count = n /\ \A i \in 0 .. n - 1 : WrittenFor(t, i) \in Nat
      BY <1>2, <2>1, OptionsOfMap
    <2>4. PICK g : Steps(g, t) /\ Writer(t) = g[n] /\ Writer(t) \in Nat
      BY <2>1, <2>3, WriterOfMap
    <2>5. \A i \in 0 .. n - 1 : i # p => WrittenFor(o, i) = WrittenFor(t, i)
      BY <1>2, <2>1 DEF WrittenFor, p
    <2>6. g[n] = f[n] - WrittenFor(o, p) + WrittenFor(t, p)
      BY <1>1, <1>2, <2>2, <2>3, <2>4, <2>5, ShiftedSteps
    <2>7. /\ WrittenFor(o, p) = OptionLen(option, Map_get(o, option).len)
          /\ WrittenFor(t, p) = OptionLen(option, cpy.len)
      BY <1>2, <2>1, <2>2 DEF WrittenFor, p
    <2> QED
      BY <1>1, <1>3, <2>1, <2>4, <2>6, <2>7 DEF t
  <1>4. CASE ~Present(o, option)
    <2>1. /\ MapShape(t, Option, String) /\ t.keys.count = o.keys.count + 1
          /\ t.keys.data[o.keys.count] = option /\ t.values.data[o.keys.count] = cpy
          /\ \A i \in 0 .. o.keys.count - 1 : /\ t.keys.data[i] = o.keys.data[i]
                                              /\ t.values.data[i] = o.values.data[i]
      BY <1>4, MapSetAbsent
    <2> HIDE DEF t
    <2>2. t.values.count = n + 1
      BY <1>2, <2>1, OptionsOfMap
    <2>3. PICK g : Steps(g, t) /\ Writer(t) = g[n + 1] /\ Writer(t) \in Nat
      BY <2>1, <2>2, WriterOfMap
    <2>4. \A i \in 0 .. n - 1 : WrittenFor(o, i) = WrittenFor(t, i)
      BY <1>2, <2>1 DEF WrittenFor
    <2>5. f[n] = g[n]
      BY <1>1, <1>2, <2>2, <2>3, <2>4, SameSteps
    <2>6. g[n + 1] = g[n] + WrittenFor(t, n)
      BY <1>2, <2>2, <2>3 DEF Steps
    <2>7. WrittenFor(t, n) = OptionLen(option, cpy.len)
      BY <1>2, <2>1 DEF WrittenFor
    <2>8. OptionLen(option, cpy.len) \in Nat
      BY <2>1, <2>2, <2>7, <1>2, OptionsOfMap
    <2> QED
      BY <1>1, <1>4, <2>1, <2>3, <2>5, <2>6, <2>7, <2>8 DEF t
  <1> QED
    BY <1>3, <1>4

-----------------------------------------------------------------------------
(* Ownership.                                                              *)

Str(o, i) == o.values.data[i].str

Positions(o) == 0 .. o.values.count - 1

\* The options o and the blocks b, n and r own the heap h but for d.
Owns(o, b, n, r, h, d) ==
  /\ \A i \in Positions(o) : Str(o, i) \in h \ d /\ Str(o, i) \notin {b, n, r}
  /\ \A i, j \in Positions(o) : Str(o, i) = Str(o, j) => i = j
  /\ \A x \in {b, n, r} : x # Null => x \in h \ d
  /\ (b = n \/ b = r => b = Null) /\ (n = r => n = Null)
  /\ h = {Str(o, i) : i \in Positions(o)} \cup ({b, n, r} \ {Null}) \cup d
  /\ Null \notin h

LEMMA OwnsMeansOwned ==
  ASSUME Owns(msg.header_options, msg.body.str, msg.resource_name.str, res.str, heap, dropped)
  PROVE  OwnedOnce /\ NothingElseIsLost
  <1> DEFINE o == msg.header_options
  <1>1. Stored = Positions(o) /\ \A i \in Stored : Owners[i] = Str(o, i)
    BY DEF Stored, Positions, Owners, Str
  <1>2. /\ Fields[1] = msg.body.str /\ Fields[2] = msg.resource_name.str /\ Fields[3] = res.str
        /\ \A f \in 1 .. 3 : f = 1 \/ f = 2 \/ f = 3
    BY DEF Fields
  <1>3. {Owners[i] : i \in Stored} = {Str(o, i) : i \in Positions(o)}
    BY <1>1
  <1>4. {Fields[f] : f \in 1 .. 3} = {msg.body.str, msg.resource_name.str, res.str}
    BY <1>2
  <1> HIDE DEF o
  <1>5. NothingElseIsLost
    BY <1>3, <1>4 DEF NothingElseIsLost, Owned, Owns, o
  <1>6. OwnedOnce
    <2> USE DEF Owns, o
    <2>1. \A i \in Stored : Owners[i] \in heap \ dropped
      BY <1>1
    <2>2. \A f \in 1 .. 3 : Fields[f] # Null => Fields[f] \in heap \ dropped
      BY <1>2
    <2>3. \A i, j \in Stored : Owners[i] = Owners[j] => i = j
      BY <1>1
    <2>4. \A i \in Stored, f \in 1 .. 3 : Owners[i] # Fields[f]
      BY <1>1, <1>2
    <2>5. \A f, g \in 1 .. 3 : Fields[f] = Fields[g] /\ Fields[f] # Null => f = g
      BY <1>2
    <2> QED
      BY <2>1, <2>2, <2>3, <2>4, <2>5 DEF OwnedOnce
  <1> QED
    BY <1>5, <1>6

\* An option replaced gives its block back, another adds one.
LEMMA OwnsAfterSet ==
  ASSUME NEW o, MapShape(o, Option, String), NEW b, NEW n, NEW r, NEW h, NEW d,
         Owns(o, b, n, r, h, d),
         NEW option \in Option, NEW cpy \in String, cpy.str \notin h, cpy.str # Null
  PROVE  Owns(Map_set(o, option, cpy), b, n, r,
              (h \cup {cpy.str})
                \ {IF Present(o, option) THEN Map_get(o, option).str ELSE Null}, d)
  <1> DEFINE t == Map_set(o, option, cpy)
             c == cpy.str
  <1>1. o.values.count \in Nat /\ o.keys.count = o.values.count
    BY OptionsOfMap
  <1>2. c \notin {b, n, r} /\ c \notin d /\ \A i \in Positions(o) : Str(o, i) # c
    BY DEF Owns
  <1>3. CASE Present(o, option)
    <2> DEFINE p == First(o, option)
               hh == (h \cup {c}) \ {Str(o, p)}
    <2>1. /\ MapShape(t, Option, String) /\ t.keys = o.keys
          /\ \A i \in 0 .. o.keys.count - 1 :
               t.values.data[i] = IF i = First(o, option) THEN cpy ELSE o.values.data[i]
      BY <1>3, MapSetPresent
    <2>2. p \in Positions(o) /\ Map_get(o, option).str = Str(o, p)
      BY <1>1, <1>3, FirstPlace DEF Positions, Str
    <2>3. Positions(t) = Positions(o)
      BY <1>1, <2>1, OptionsOfMap DEF Positions
    <2>4. \A i \in Positions(o) : Str(t, i) = IF i = p THEN c ELSE Str(o, i)
      BY <1>1, <2>1 DEF Positions, Str
    <2> HIDE DEF t, p, c
    <2>5. /\ \A i \in Positions(t) : Str(t, i) \in hh \ d /\ Str(t, i) \notin {b, n, r}
          /\ \A i, j \in Positions(t) : Str(t, i) = Str(t, j) => i = j
      BY <1>2, <2>2, <2>3, <2>4 DEF Owns
    <2>6. \A x \in {b, n, r} : x # Null => x \in hh \ d
      BY <1>2, <2>2 DEF Owns
    <2>7. {Str(t, i) : i \in Positions(t)} = ({Str(o, i) : i \in Positions(o)} \cup {c}) \ {Str(o, p)}
      BY <1>2, <2>2, <2>3, <2>4 DEF Owns
    <2>8. hh = {Str(t, i) : i \in Positions(t)} \cup ({b, n, r} \ {Null}) \cup d
      BY <1>2, <2>2, <2>7 DEF Owns
    <2>9. Null \notin hh
      BY DEF Owns, c
    <2> HIDE DEF hh
    <2>10. Owns(t, b, n, r, hh, d)
      BY <2>5, <2>6, <2>8, <2>9 DEF Owns
    <2> QED
      BY <1>3, <2>2, <2>10 DEF t, hh, c
  <1>4. CASE ~Present(o, option)
    <2> DEFINE q == o.values.count
               hh == h \cup {c}
    <2>1. /\ MapShape(t, Option, String) /\ t.keys.count = o.keys.count + 1
          /\ t.keys.data[o.keys.count] = option /\ t.values.data[o.keys.count] = cpy
          /\ \A i \in 0 .. o.keys.count - 1 : /\ t.keys.data[i] = o.keys.data[i]
                                              /\ t.values.data[i] = o.values.data[i]
      BY <1>4, MapSetAbsent
    <2> HIDE DEF t
    <2>2. t.values.count = q + 1
      BY <1>1, <2>1, OptionsOfMap
    <2>3. Positions(t) = Positions(o) \cup {q} /\ q \notin Positions(o)
      BY <1>1, <2>2 DEF Positions
    <2>4. Str(t, q) = c /\ \A i \in Positions(o) : Str(t, i) = Str(o, i)
      BY <1>1, <2>1 DEF Positions, Str
    <2> HIDE DEF q, c
    <2>5. /\ \A i \in Positions(t) : Str(t, i) \in hh \ d /\ Str(t, i) \notin {b, n, r}
          /\ \A i, j \in Positions(t) : Str(t, i) = Str(t, j) => i = j
      BY <1>2, <2>3, <2>4 DEF Owns
    <2>6. \A x \in {b, n, r} : x # Null => x \in hh \ d
      BY DEF Owns
    <2>7. {Str(t, i) : i \in Positions(t)} = {Str(o, i) : i \in Positions(o)} \cup {c}
      BY <2>3, <2>4
    <2>8. hh = {Str(t, i) : i \in Positions(t)} \cup ({b, n, r} \ {Null}) \cup d
      BY <2>7 DEF Owns
    <2>9. Null \notin hh /\ hh \ {Null} = hh
      BY DEF Owns, c
    <2> HIDE DEF hh
    <2>10. Owns(t, b, n, r, hh, d)
      BY <2>5, <2>6, <2>8, <2>9 DEF Owns
    <2> QED
      BY <1>4, <2>9, <2>10 DEF t, hh, c
  <1> QED
    BY <1>3, <1>4

\* A new block for the body, for the name, whose old one is dropped, or for the result.
LEMMA OwnsAfterMalloc ==
  ASSUME NEW o, NEW b, NEW n, NEW r, NEW h, NEW d, Owns(o, b, n, r, h, d),
         NEW c, c \notin h, c # Null
  PROVE  /\ b = Null => Owns(o, c, n, r, h \cup {c}, d)
         /\ Owns(o, b, c, r, h \cup {c}, d \cup ({n} \ {Null}))
         /\ r = Null => Owns(o, b, n, c, h \cup {c}, d)
  <1>1. c \notin {b, n, r} /\ c \notin d /\ \A i \in Positions(o) : Str(o, i) # c
    BY DEF Owns
  <1>2. ASSUME b = Null PROVE Owns(o, c, n, r, h \cup {c}, d)
    BY <1>1, <1>2 DEF Owns
  <1>3. ASSUME r = Null PROVE Owns(o, b, n, c, h \cup {c}, d)
    BY <1>1, <1>3 DEF Owns
  <1>4. Owns(o, b, c, r, h \cup {c}, d \cup ({n} \ {Null}))
    BY <1>1 DEF Owns
  <1> QED
    BY <1>2, <1>3, <1>4

\* Everything but the result is given back, and then the result.
LEMMA OwnsAfterDestroy ==
  ASSUME NEW o, NEW b, NEW n, NEW r, NEW h, NEW d, Owns(o, b, n, r, h, d),
         NEW e, e.values.count = 0
  PROVE  Owns(e, Null, Null, r, h \ ({Str(o, i) : i \in Positions(o)} \cup {b, n}), d)
  <1>1. Positions(e) = {}
    BY DEF Positions
  <1>2. d \subseteq h /\ d \cap {Str(o, i) : i \in Positions(o)} = {} /\ d \cap {b, n, r} = {}
    BY DEF Owns
  <1> QED
    BY <1>1, <1>2 DEF Owns

LEMMA OwnsAfterFree ==
  ASSUME NEW o, NEW b, NEW n, NEW r, NEW h, NEW d, Owns(o, b, n, r, h, d)
  PROVE  Owns(o, b, n, Null, h \ {r}, d)
  <1>1. d \subseteq h /\ d \cap {b, n, r} = {}
    BY DEF Owns
  <1> QED
    BY <1>1 DEF Owns

-----------------------------------------------------------------------------
(* The invariant and the steps.                                            *)

\* header_len is what the writer of compose_message will need, and each block has one owner.
LengthInv == msg.header_len = Writer(msg.header_options)

OwnerInv ==
  Owns(msg.header_options, msg.body.str, msg.resource_name.str, res.str, heap, dropped)

IInv == ResponseTypeOK /\ LengthInv /\ ComposeFits /\ OwnerInv

LEMMA NoOptions == Map_destroyed.values.count = 0 /\ Writer(Map_destroyed) = 0
  BY WriterOfNoOptions DEF Map_destroyed, Vector_destroyed

\* The message as a record, and its fields after an assignment to some of them.
LEMMA MsgParts ==
  ASSUME IInv
  PROVE  msg = [header_options |-> msg.header_options, header_len |-> msg.header_len,
                body |-> msg.body, resource_name |-> msg.resource_name]
  BY DEF IInv, ResponseTypeOK

LEMMA InitHolds == ResponseInit => IInv
  <1> SUFFICES ASSUME ResponseInit PROVE IInv
    OBVIOUS
  <1>1. ResponseTypeOK
    BY DEF ResponseInit, ResponseTypeOK, NoResponse
  <1>2. LengthInv
    BY NoOptions DEF ResponseInit, LengthInv, NoResponse
  <1>3. ComposeFits
    BY DEF ResponseInit, ComposeFits
  <1>4. OwnerInv
    <2>1. Positions(Map_destroyed) = {}
      BY NoOptions DEF Positions
    <2> QED
      BY <2>1 DEF ResponseInit, OwnerInv, Owns, NoResponse, NoString, NoResult
  <1> QED
    BY <1>1, <1>2, <1>3, <1>4 DEF IInv

LEMMA MakeMessageKeepsIInv ==
  ASSUME IInv, MakeMessage
  PROVE  IInv'
  <1> DEFINE o == Map_make(16)
  <1>1. /\ msg = NoResponse /\ live' = TRUE /\ UNCHANGED <<res, heap, dropped>>
        /\ msg' = [header_options |-> o, header_len |-> 0, body |-> NoString,
                   resource_name |-> NoString]
    BY DEF IInv, ResponseTypeOK, MakeMessage, NoResponse
  <1>2. MapShape(o, Option, String) /\ o.keys.count = 0
    BY MapMakeShape
  <1>3. o.values.count = 0
    BY <1>2, OptionsOfMap
  <1>4. Writer(o) = 0
    BY <1>3, WriterOfNoOptions
  <1> HIDE DEF o
  <1>5. ResponseTypeOK'
    BY <1>1, <1>2 DEF IInv, ResponseTypeOK
  <1>6. LengthInv' /\ ComposeFits'
    BY <1>1, <1>4 DEF IInv, LengthInv, ComposeFits
  <1>7. OwnerInv'
    <2>1. Positions(o) = {} /\ Positions(msg.header_options) = {}
      BY <1>1, <1>3, NoOptions DEF Positions, NoResponse
    <2> QED
      BY <1>1, <2>1 DEF IInv, OwnerInv, Owns, NoResponse
  <1> QED
    BY <1>5, <1>6, <1>7 DEF IInv

LEMMA AddOptionKeepsIInv ==
  ASSUME IInv, NEW option \in Option, NEW value \in Text, NEW block \in Block,
         add_header_option(option, value, block)
  PROVE  IInv'
  <1> DEFINE o == msg.header_options
             cpy == [str |-> block, len |-> strnlen(value)]
             t == Map_set(o, option, cpy)
             given == IF Present(o, option) THEN OptionLen(option, Map_get(o, option).len) ELSE 0
             old == IF Present(o, option) THEN Map_get(o, option).str ELSE Null
  <1>1. live /\ res = NoResult /\ block \notin heap /\ UNCHANGED <<res, live, dropped>>
    BY DEF add_header_option, Building, malloc
  <1>2. MapShape(o, Option, String)
    BY <1>1 DEF IInv, ResponseTypeOK
  <1>3. cpy \in String /\ cpy.str = block
    BY DEF String, strnlen, Text
  <1>4. /\ Writer(t) = Writer(o) - given + OptionLen(option, cpy.len)
        /\ MapShape(t, Option, String) /\ Writer(t) \in Nat
    BY <1>2, <1>3, WriterAfterSet
  <1>5. GivenBack(option, cpy) = given /\ Old(option).str = old
    BY DEF GivenBack, Old, NoString
  <1>6. msg' = [msg EXCEPT !.header_options = t,
                           !.header_len = @ - given + OptionLen(option, cpy.len)]
    BY <1>5 DEF add_header_option
  <1>7. heap' = (heap \cup {block}) \ {old}
    BY <1>5 DEF add_header_option
  <1>8. heap \subseteq Block /\ dropped \subseteq Block
    BY DEF IInv, ResponseTypeOK
  <1> HIDE DEF t, cpy, given, old
  <1>9. msg' = [header_options |-> t, header_len |-> Writer(t), body |-> msg.body,
                resource_name |-> msg.resource_name]
    BY <1>4, <1>6, MsgParts DEF IInv, LengthInv
  <1>10. ResponseTypeOK'
    <2>1. /\ msg' \in [header_options : {msg'.header_options}, header_len : Nat,
                       body : String \cup {NoString}, resource_name : String \cup {NoString}]
          /\ MapShape(msg'.header_options, Option, String)
      BY <1>4, <1>9 DEF IInv, ResponseTypeOK
    <2> QED
      BY <1>1, <1>7, <1>8, <2>1 DEF IInv, ResponseTypeOK
  <1>11. LengthInv' /\ ComposeFits'
    BY <1>1, <1>9 DEF IInv, LengthInv, ComposeFits
  <1>12. OwnerInv'
    <2>1. block \notin heap /\ block # Null
      BY <1>1, OutboundAssumption
    <2>2. Owns(t, msg.body.str, msg.resource_name.str, res.str, (heap \cup {cpy.str}) \ {old}, dropped)
      BY <1>2, <1>3, <2>1, OwnsAfterSet DEF IInv, OwnerInv, t, old
    <2> QED
      BY <1>1, <1>3, <1>7, <1>9, <2>2 DEF OwnerInv
  <1> QED
    BY <1>10, <1>11, <1>12 DEF IInv

LEMMA FieldsKeepIInv ==
  ASSUME IInv, NEW text \in Text, NEW len \in 0 .. MaxLen, NEW block \in Block,
         set_filename(text, block) \/ SetBody(len, block)
  PROVE  IInv'
  <1>1. /\ live /\ res = NoResult /\ block \notin heap /\ block # Null
        /\ UNCHANGED <<res, live>> /\ heap' = heap \cup {block}
    BY OutboundAssumption DEF set_filename, SetBody, Building, malloc
  <1>2. /\ heap \subseteq Block /\ dropped \subseteq Block
        /\ MapShape(msg.header_options, Option, String)
        /\ msg.header_len \in Nat
        /\ msg.body \in String \cup {NoString} /\ msg.resource_name \in String \cup {NoString}
    BY <1>1 DEF IInv, ResponseTypeOK
  <1>3. CASE set_filename(text, block)
    <2> DEFINE name == [str |-> block, len |-> text.len]
    <2>1. name \in String /\ name.str = block
      BY DEF String, Text
    <2>2. msg' = [header_options |-> msg.header_options, header_len |-> msg.header_len,
                  body |-> msg.body, resource_name |-> name]
      BY <1>3, MsgParts DEF set_filename
    <2>3. dropped' = dropped \cup ({msg.resource_name.str} \ {Null})
      BY <1>3 DEF set_filename
    <2> HIDE DEF name
    <2>4. ResponseTypeOK'
      <3>1. dropped' \subseteq Block
        BY <1>2, <2>3 DEF String, NoString
      <3> QED
        BY <1>1, <1>2, <2>1, <2>2, <3>1 DEF IInv, ResponseTypeOK
    <2>5. LengthInv' /\ ComposeFits'
      BY <1>1, <2>2 DEF IInv, LengthInv, ComposeFits
    <2>6. OwnerInv'
      BY <1>1, <2>1, <2>2, <2>3, OwnsAfterMalloc DEF IInv, OwnerInv
    <2> QED
      BY <2>4, <2>5, <2>6 DEF IInv
  <1>4. CASE SetBody(len, block)
    <2> DEFINE body == [str |-> block, len |-> len]
    <2>1. body \in String /\ body.str = block
      BY DEF String
    <2>2. msg' = [header_options |-> msg.header_options, header_len |-> msg.header_len,
                  body |-> body, resource_name |-> msg.resource_name]
      BY <1>4, MsgParts DEF SetBody
    <2>3. dropped' = dropped /\ msg.body.str = Null
      BY <1>4 DEF SetBody, NoString
    <2> HIDE DEF body
    <2>4. ResponseTypeOK'
      BY <1>1, <1>2, <2>1, <2>2, <2>3 DEF IInv, ResponseTypeOK
    <2>5. LengthInv' /\ ComposeFits'
      BY <1>1, <2>2 DEF IInv, LengthInv, ComposeFits
    <2>6. OwnerInv'
      BY <1>1, <2>1, <2>2, <2>3, OwnsAfterMalloc DEF IInv, OwnerInv
    <2> QED
      BY <2>4, <2>5, <2>6 DEF IInv
  <1> QED
    BY <1>3, <1>4

LEMMA ComposeKeepsIInv ==
  ASSUME IInv, NEW status_code \in StatusCodes, NEW block \in Block,
         compose_message(status_code, block)
  PROVE  IInv'
  <1> DEFINE line == STATUS_LINE_LEN + get_reason_phrase(status_code) + 2
             size == line + msg.header_len + 2 + msg.body.len
  <1>1. /\ live /\ res = NoResult /\ block \notin heap /\ block # Null
        /\ UNCHANGED <<msg, live, dropped>> /\ heap' = heap \cup {block}
    BY OutboundAssumption DEF compose_message, Building, malloc
  <1>2. get_reason_phrase(status_code) \in Nat
    BY OutboundAssumption DEF get_reason_phrase
  <1>3. msg.header_len \in Nat /\ msg.body.len \in Nat
    BY OutboundAssumption DEF IInv, ResponseTypeOK, String, NoString
  <1>4. line \in Nat
    BY <1>2 DEF STATUS_LINE_LEN
  <1>5. res' = [str |-> block, len |-> size, end |-> size]
    BY DEF compose_message, IInv, LengthInv
  <1> HIDE DEF line
  <1>6. size \in Nat
    BY <1>3, <1>4
  <1> HIDE DEF size
  <1>7. ResponseTypeOK'
    BY <1>1, <1>5, <1>6 DEF IInv, ResponseTypeOK
  <1>8. LengthInv' /\ ComposeFits'
    BY <1>1, <1>5 DEF IInv, LengthInv, ComposeFits
  <1>9. OwnerInv'
    <2>1. res.str = Null
      BY <1>1 DEF NoResult
    <2> QED
      BY <1>1, <1>5, <2>1, OwnsAfterMalloc DEF IInv, OwnerInv
  <1> QED
    BY <1>7, <1>8, <1>9 DEF IInv

LEMMA FreesKeepIInv ==
  ASSUME IInv, destroy_OutboundHttpMessage \/ FreeResult
  PROVE  IInv'
  <1>1. CASE destroy_OutboundHttpMessage
    <2>1. msg' = NoResponse /\ live' = FALSE /\ heap' = heap \ Freed /\ UNCHANGED <<res, dropped>>
      BY <1>1 DEF destroy_OutboundHttpMessage
    <2>2. Freed = {Str(msg.header_options, i) : i \in Positions(msg.header_options)}
                    \cup {msg.body.str, msg.resource_name.str}
      BY DEF Freed, Stored, Positions, Str
    <2>3. ResponseTypeOK'
      BY <2>1 DEF IInv, ResponseTypeOK, NoResponse
    <2>4. LengthInv' /\ ComposeFits'
      BY <2>1, NoOptions DEF IInv, LengthInv, ComposeFits, NoResponse
    <2>5. OwnerInv'
      BY <2>1, <2>2, NoOptions, OwnsAfterDestroy DEF IInv, OwnerInv, NoResponse, NoString
    <2> QED
      BY <2>3, <2>4, <2>5 DEF IInv
  <1>2. CASE FreeResult
    <2>1. res' = NoResult /\ heap' = heap \ {res.str} /\ UNCHANGED <<msg, live, dropped>>
      BY <1>2 DEF FreeResult
    <2>2. ResponseTypeOK'
      BY <2>1 DEF IInv, ResponseTypeOK
    <2>3. LengthInv' /\ ComposeFits'
      BY <2>1 DEF IInv, LengthInv, ComposeFits
    <2>4. OwnerInv'
      BY <2>1, OwnsAfterFree DEF IInv, OwnerInv, NoResult
    <2> QED
      BY <2>2, <2>3, <2>4 DEF IInv
  <1> QED
    BY <1>1, <1>2

LEMMA IInvNext == IInv /\ [ResponseNext]_responseVars => IInv'
  <1> SUFFICES ASSUME IInv, [ResponseNext]_responseVars PROVE IInv'
    OBVIOUS
  <1>1. ASSUME UNCHANGED responseVars PROVE IInv'
    BY <1>1 DEF responseVars, IInv, ResponseTypeOK, LengthInv, ComposeFits, OwnerInv
  <1>2. 0 \in 0 .. MaxLen /\ [len |-> 0, nul |-> 0] \in Text
    BY OutboundAssumption DEF Text
  <1>3. ASSUME NEW len \in 0 .. MaxLen, NEW block \in Block, SetBody(len, block) PROVE IInv'
    BY <1>2, <1>3, FieldsKeepIInv
  <1>4. ASSUME NEW text \in Text, NEW block \in Block, set_filename(text, block) PROVE IInv'
    BY <1>2, <1>4, FieldsKeepIInv
  <1> QED
    BY <1>1, <1>3, <1>4, MakeMessageKeepsIInv, AddOptionKeepsIInv, ComposeKeepsIInv, FreesKeepIInv
    DEF ResponseNext

LEMMA IInvHolds == ResponseSpec => []IInv
  BY InitHolds, IInvNext, PTL DEF ResponseSpec

-----------------------------------------------------------------------------
(***************************************************************************)
(* The options of a live message are a map, and their accounted length is  *)
(* never negative, whatever is added and replaced.                         *)
(***************************************************************************)
THEOREM OutboundTypeCorrect == ResponseSpec => []ResponseTypeOK
  BY IInvHolds, PTL DEF IInv

(***************************************************************************)
(* compose_message fills the memory it allocates exactly, for all options, *)
(* lengths and status codes.                                               *)
(***************************************************************************)
THEOREM OutboundComposeFits == ResponseSpec => []ComposeFits
  BY IInvHolds, PTL DEF IInv

(***************************************************************************)
(* Each heap block of a response is freed once, and only when nothing      *)
(* refers to it any more.                                                  *)
(***************************************************************************)
THEOREM OutboundOwnedOnce == ResponseSpec => []OwnedOnce
  <1>1. IInv => OwnedOnce
    BY OwnsMeansOwned DEF IInv, OwnerInv
  <1> QED
    BY <1>1, IInvHolds, PTL

(***************************************************************************)
(* Only the names that set_filename replaces are ever lost.                *)
(***************************************************************************)
THEOREM OutboundLosesNothingElse == ResponseSpec => []NothingElseIsLost
  <1>1. IInv => NothingElseIsLost
    BY OwnsMeansOwned DEF IInv, OwnerInv
  <1> QED
    BY <1>1, IInvHolds, PTL
=============================================================================
